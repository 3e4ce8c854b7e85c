--------------------------- MODULE CompletionProofs ---------------------------
(***************************************************************************)
(* updateFinishedJobsAndMessages decides on rows it has read and writes    *)
(* jobs and messages without looking at them again.  Why that is right,    *)
(* for any number of workers and messages, any templates, and crashes      *)
(* between any two statements: whatever a worker decides on stays true.    *)
(* A stage that succeeded or failed is final, so met dependencies stay     *)
(* met and decided jobs stay decided; two workers may write a job twice,   *)
(* but never differently; so a closed job is final as well, and the        *)
(* verdict on a message is final once there is one.                        *)
(*                                                                         *)
(* CompletionInv adds to the properties that the plans still to be written *)
(* hold in the rows as they are now.                                       *)
(***************************************************************************)
EXTENDS Completion, EventTablesProofs

JobPlans ==
    [job : 1..Len(job), unblock : SUBSET (1..Len(stage)), broken : BOOLEAN,
     verdict : JobState]

PlansOK ==
    /\ jobPlan \in [Workers -> SUBSET JobPlans]
    /\ messagePlan \in [Workers -> SUBSET [msg : Messages, verdict : MessageState]]

\* What is planned for a job is right for the rows as they are now.
JobPlanHolds(p) ==
    /\ \A s \in p.unblock : DependenciesMet(s)
    /\ p.verdict = "SUCCESS" => AllStagesSucceeded(p.job)
    /\ p.verdict = "FAILURE" => StageFailed(p.job)

MessagePlanHolds(p) == p.verdict # "IN_PROCESS" /\ p.verdict = MessageVerdict(p.msg)

PlansHold ==
    \A w \in Workers :
        /\ \A p \in jobPlan[w] : JobPlanHolds(p)
        /\ \A p \in messagePlan[w] : MessagePlanHolds(p)

CompletionInv ==
    /\ TablesOK /\ PlansOK
    /\ PlansHold
    /\ DependenciesFirst /\ JobVerdictsHold /\ MessageVerdictsHold

\* Nobody has planned anything yet, and nothing is closed.
LEMMA InitSatisfiesInv == Init => CompletionInv
<1> SUFFICES ASSUME NEW posted \in Together, ExpandedTables(posted, Twice),
                    pc = [w \in Workers |-> "loadJobs"], CompletionInit
             PROVE  CompletionInv
  BY DEF Init
<1>1. /\ job \in Seq(JobRows) /\ stage \in Seq(StageRows)
      /\ \A j \in 1..Len(job) : job[j].state = "IN_PROCESS"
      /\ \A s \in 1..Len(stage) :
            stage[s].state # "BLOCKED" => TemplateOf(s).dependOnStage = {}
  BY ExpandedRows, CompletionAssumption
<1>2. /\ message = [n \in Messages |->
            [state |-> IF n \in posted THEN "IN_PROCESS" ELSE "none", lock |-> 0]]
      /\ run = <<>> /\ clock = 0 /\ aborts = 0
  BY DEF ExpandedTables
<1>3. TablesOK
  BY <1>1, <1>2, TimeBoundAssumption, AbortBoundAssumption
     DEF TablesOK, JobRows, StageRows, RunRows, MessageState, Phase
<1>4. PlansOK /\ PlansHold
  BY DEF CompletionInit, PlansOK, PlansHold
<1>5. DependenciesFirst
  BY <1>1 DEF DependenciesFirst
<1>6. JobVerdictsHold /\ MessageVerdictsHold
  BY <1>1, <1>2 DEF JobVerdictsHold, MessageVerdictsHold
<1> QED
  BY <1>3, <1>4, <1>5, <1>6 DEF CompletionInv

------------------------------------------------------------------------------
(* What every step of the system does to the rows.                         *)

\* No row comes or goes or moves to another job, and an end state is final.
StagesAdvance ==
    /\ Len(stage') = Len(stage)
    /\ \A s \in 1..Len(stage) :
        /\ stage'[s].job = stage[s].job /\ stage'[s].name = stage[s].name
        /\ stage[s].state \in {"SUCCESS", "FAILURE"} => stage'[s].state = stage[s].state

JobsAdvance ==
    /\ Len(job') = Len(job)
    /\ \A j \in 1..Len(job) :
        /\ job'[j].msg = job[j].msg /\ job'[j].tmpl = job[j].tmpl
        /\ job'[j].responsible = job[j].responsible
        /\ job[j].state # "IN_PROCESS" => job'[j].state = job[j].state

\* Rows keep pointing where they point.
LEMMA SameRows ==
  ASSUME TablesOK, StagesAdvance, JobsAdvance
  PROVE  /\ \A j \in 1..Len(job) : StagesOf(j)' = StagesOf(j)
         /\ \A s \in 1..Len(stage) : stage[s].job \in 1..Len(job)
         /\ \A s \in 1..Len(stage) : TemplateOf(s)' = TemplateOf(s)
         /\ \A m \in Messages : JobsOf(m)' = JobsOf(m) /\ Responsible(m)' = Responsible(m)
<1>1. \A j \in 1..Len(job) : StagesOf(j)' = StagesOf(j)
  BY DEF StagesAdvance, StagesOf
<1>2. \A s \in 1..Len(stage) : stage[s].job \in 1..Len(job)
  <2>1. stage \in Seq(StageRows)
    BY DEF TablesOK, StageRows
  <2>2. ASSUME NEW s \in 1..Len(stage)
        PROVE  stage[s] \in StageRows
    BY <2>1, ElementOfSeq
  <2> QED
    BY <2>2 DEF StageRows
<1>3. ASSUME NEW s \in 1..Len(stage)
      PROVE  TemplateOf(s)' = TemplateOf(s)
  <2> DEFINE j == stage[s].job
  <2>1. j \in 1..Len(job)
    BY <1>2
  <2>2. stage'[s].job = j /\ stage'[s].name = stage[s].name
    BY DEF StagesAdvance
  <2>3. job'[j].msg = job[j].msg /\ job'[j].tmpl = job[j].tmpl
    BY <2>1 DEF JobsAdvance
  <2> QED
    BY <2>2, <2>3 DEF TemplateOf, JobOf
<1>4. ASSUME NEW m \in Messages
      PROVE  JobsOf(m)' = JobsOf(m) /\ Responsible(m)' = Responsible(m)
  <2>1. JobsOf(m)' = JobsOf(m)
    BY DEF JobsAdvance, JobsOf
  <2>2. \A j \in JobsOf(m) : job'[j].responsible = job[j].responsible
    BY DEF JobsAdvance, JobsOf
  <2> QED
    BY <2>1, <2>2 DEF Responsible
<1> QED
  BY <1>1, <1>2, <1>3, <1>4

\* Dependencies that are met stay met, and jobs that are decided stay decided.
LEMMA StageFactsStay ==
  ASSUME TablesOK, StagesAdvance, JobsAdvance
  PROVE  /\ \A s \in 1..Len(stage) : DependenciesMet(s) => DependenciesMet(s)'
         /\ \A j \in 1..Len(job) : AllStagesSucceeded(j) => AllStagesSucceeded(j)'
         /\ \A j \in 1..Len(job) : StageFailed(j) => StageFailed(j)'
<1>1. \A j \in 1..Len(job) : \A t \in StagesOf(j) :
        /\ t \in 1..Len(stage)
        /\ stage'[t].name = stage[t].name
        /\ stage[t].state \in {"SUCCESS", "FAILURE"} => stage'[t].state = stage[t].state
  BY DEF StagesOf, StagesAdvance
<1>2. ASSUME NEW s \in 1..Len(stage), DependenciesMet(s)
      PROVE  DependenciesMet(s)'
  <2>1. /\ stage[s].job \in 1..Len(job) /\ stage'[s].job = stage[s].job
        /\ StagesOf(stage[s].job)' = StagesOf(stage[s].job)
        /\ TemplateOf(s)' = TemplateOf(s)
    BY SameRows DEF StagesAdvance
  <2> QED
    BY <1>1, <1>2, <2>1 DEF DependenciesMet, SuccessEndState
<1>3. ASSUME NEW j \in 1..Len(job)
      PROVE  /\ AllStagesSucceeded(j) => AllStagesSucceeded(j)'
             /\ StageFailed(j) => StageFailed(j)'
  <2>1. StagesOf(j)' = StagesOf(j)
    BY SameRows
  <2> QED
    BY <1>1, <2>1 DEF AllStagesSucceeded, StageFailed, SuccessEndState
<1> QED
  BY <1>2, <1>3

\* A message that is decided stays decided, the same way.
LEMMA MessageVerdictStays ==
  ASSUME TablesOK, StagesAdvance, JobsAdvance, NEW m \in Messages,
         MessageVerdict(m) # "IN_PROCESS"
  PROVE  MessageVerdict(m)' = MessageVerdict(m)
<1> DEFINE deciding == IF Responsible(m) # {} THEN Responsible(m) ELSE JobsOf(m)
<1>1. deciding' = deciding
  BY SameRows
<1>2. \A j \in deciding : job[j].state # "IN_PROCESS" => job'[j].state = job[j].state
  BY DEF Responsible, JobsOf, JobsAdvance
<1>3. /\ MessageVerdict(m) =
            CASE \E j \in deciding : job[j].state = "FAILURE" -> "FAILURE"
              [] \A j \in deciding : job[j].state = "SUCCESS" -> "SUCCESS"
              [] OTHER -> "IN_PROCESS"
      /\ MessageVerdict(m)' =
            CASE \E j \in deciding' : job'[j].state = "FAILURE" -> "FAILURE"
              [] \A j \in deciding' : job'[j].state = "SUCCESS" -> "SUCCESS"
              [] OTHER -> "IN_PROCESS"
  BY DEF MessageVerdict
<1> HIDE DEF deciding
<1> QED
  BY <1>1, <1>2, <1>3

\* What a step has to respect, in the rows as they were before it, for the
\* invariant to hold after it: the argument of every action below.
LEMMA AdvanceKeepsInv ==
  ASSUME CompletionInv, TablesOK', PlansOK', StagesAdvance, JobsAdvance,
         \A s \in 1..Len(stage) : stage'[s].state # "BLOCKED" =>
            stage[s].state # "BLOCKED" \/ DependenciesMet(s),
         \A j \in 1..Len(job) : job'[j].state # job[j].state =>
            /\ job'[j].state = "SUCCESS" => AllStagesSucceeded(j)
            /\ job'[j].state = "FAILURE" => StageFailed(j),
         \A m \in Messages : message'[m].state \in {"SUCCESS", "FAILURE"} =>
            message'[m].state = MessageVerdict(m),
         \A w \in Workers : \A p \in jobPlan'[w] : JobPlanHolds(p)
            /\ p.job \in 1..Len(job) /\ p.unblock \subseteq 1..Len(stage),
         \A w \in Workers : \A p \in messagePlan'[w] : MessagePlanHolds(p)
            /\ p.msg \in Messages
  PROVE  CompletionInv'
<1> USE DEF CompletionInv
<1>1. /\ \A j \in 1..Len(job) : StagesOf(j)' = StagesOf(j)
      /\ \A s \in 1..Len(stage) : stage[s].job \in 1..Len(job)
      /\ \A s \in 1..Len(stage) : TemplateOf(s)' = TemplateOf(s)
      /\ \A s \in 1..Len(stage) : DependenciesMet(s) => DependenciesMet(s)'
      /\ \A j \in 1..Len(job) : AllStagesSucceeded(j) => AllStagesSucceeded(j)'
      /\ \A j \in 1..Len(job) : StageFailed(j) => StageFailed(j)'
  BY SameRows, StageFactsStay
<1>2. PlansHold'
  <2>1. ASSUME NEW w \in Workers, NEW p \in jobPlan'[w]
        PROVE  JobPlanHolds(p)'
    BY <1>1 DEF JobPlanHolds
  <2>2. ASSUME NEW w \in Workers, NEW p \in messagePlan'[w]
        PROVE  MessagePlanHolds(p)'
    BY MessageVerdictStays DEF MessagePlanHolds
  <2> QED
    BY <2>1, <2>2 DEF PlansHold
<1>3. DependenciesFirst'
  <2> SUFFICES ASSUME NEW s \in 1..Len(stage), stage'[s].state # "BLOCKED"
               PROVE  \A t \in StagesOf(stage[s].job) :
                        stage'[t].name \in TemplateOf(s).dependOnStage =>
                            stage'[t].state = "SUCCESS"
    BY <1>1 DEF DependenciesFirst, StagesAdvance
  <2>1. \A t \in StagesOf(stage[s].job) :
          stage[t].name \in TemplateOf(s).dependOnStage => stage[t].state = "SUCCESS"
    BY DEF DependenciesFirst, DependenciesMet, SuccessEndState
  <2> QED
    BY <2>1 DEF StagesOf, StagesAdvance
<1>4. JobVerdictsHold'
  <2> SUFFICES ASSUME NEW j \in 1..Len(job)
               PROVE  /\ job'[j].state = "SUCCESS" => AllStagesSucceeded(j)'
                      /\ job'[j].state = "FAILURE" => StageFailed(j)'
    BY DEF JobVerdictsHold, JobsAdvance
  <2> QED
    BY <1>1 DEF JobVerdictsHold
<1>5. MessageVerdictsHold'
  BY MessageVerdictStays DEF MessageVerdictsHold
<1> QED
  BY <1>2, <1>3, <1>4, <1>5

\* The messages that are closed are decided as before.
LEMMA ClosedMessagesHold ==
  ASSUME CompletionInv, UNCHANGED message
  PROVE  \A m \in Messages : message'[m].state \in {"SUCCESS", "FAILURE"} =>
            message'[m].state = MessageVerdict(m)
  BY DEF CompletionInv, MessageVerdictsHold

\* The plans a worker had, or some of them, still hold.
LEMMA FewerPlans ==
  ASSUME CompletionInv,
         \A w \in Workers : jobPlan'[w] \subseteq jobPlan[w]
                         /\ messagePlan'[w] \subseteq messagePlan[w]
  PROVE  /\ \A w \in Workers : \A p \in jobPlan'[w] : JobPlanHolds(p)
            /\ p.job \in 1..Len(job) /\ p.unblock \subseteq 1..Len(stage)
         /\ \A w \in Workers : \A p \in messagePlan'[w] : MessagePlanHolds(p)
            /\ p.msg \in Messages
<1>1. /\ \A w \in Workers : \A p \in jobPlan[w] : p \in JobPlans
      /\ \A w \in Workers : \A p \in messagePlan[w] :
            p \in [msg : Messages, verdict : MessageState]
  BY DEF CompletionInv, PlansOK
<1> QED
  BY <1>1 DEF CompletionInv, PlansHold, JobPlans

\* A step that writes no row and plans only what holds.
LEMMA RowsUnchanged ==
  ASSUME CompletionInv, TablesOK', PlansOK', UNCHANGED <<message, job, stage>>,
         \A w \in Workers : \A p \in jobPlan'[w] : JobPlanHolds(p),
         \A w \in Workers : \A p \in messagePlan'[w] : MessagePlanHolds(p)
  PROVE  CompletionInv'
<1>1. PlansHold'
  BY DEF PlansHold, JobPlanHolds, MessagePlanHolds, DependenciesMet, AllStagesSucceeded,
         StageFailed, StagesOf, TemplateOf, JobOf, MessageVerdict, Responsible, JobsOf
<1>2. DependenciesFirst' /\ JobVerdictsHold' /\ MessageVerdictsHold'
  BY DEF CompletionInv, DependenciesFirst, JobVerdictsHold, MessageVerdictsHold,
         AllStagesSucceeded, StageFailed, StagesOf, TemplateOf, JobOf, MessageVerdict,
         Responsible, JobsOf
<1> QED
  BY <1>1, <1>2 DEF CompletionInv

\* A worker that stops, in order or not, or starts a beat, only forgets.
LEMMA ForgettingKeepsInv ==
  ASSUME CompletionInv, UNCHANGED <<clock, tables>>, aborts' \in 0..MaxAborts,
         NEW w \in Workers, NEW phase \in Phase, GoTo(w, phase),
         UNCHANGED completionVars \/ ForgetCompletion(w)
  PROVE  CompletionInv'
<1>1. TablesOK'
  BY DEF CompletionInv, TablesOK, tables, GoTo
<1>2. /\ \A v \in Workers : /\ jobPlan'[v] \subseteq jobPlan[v]
                           /\ messagePlan'[v] \subseteq messagePlan[v]
      /\ jobPlan' \in [Workers -> SUBSET JobPlans]
      /\ messagePlan' \in [Workers -> SUBSET [msg : Messages, verdict : MessageState]]
  BY DEF CompletionInv, PlansOK, completionVars, ForgetCompletion
<1>3. PlansOK'
  BY <1>2 DEF PlansOK, JobPlans, tables
<1> QED
  BY <1>1, <1>2, <1>3, FewerPlans, RowsUnchanged DEF tables

------------------------------------------------------------------------------
(* The actions.                                                            *)

\* What is decided on the rows just read holds in them.
LEMMA LoadJobsKeepsInv ==
  ASSUME CompletionInv, NEW w \in Workers, LoadJobs(w)
  PROVE  CompletionInv'
<1>1. PICK visit \in [OpenJobs -> UNION {Visits(j) : j \in OpenJobs}] :
        /\ \A j \in OpenJobs : visit[j] \in Visits(j)
        /\ jobPlan' = [jobPlan EXCEPT ![w] =
              {[job |-> j, unblock |-> visit[j].unblock, broken |-> visit[j].broken,
                verdict |-> JobVerdict(j)] : j \in OpenJobs}]
  BY DEF LoadJobs
<1>2. ASSUME NEW j \in OpenJobs
      PROVE  /\ j \in 1..Len(job)
             /\ visit[j].unblock \subseteq Unblockable(j) /\ visit[j].broken \in BOOLEAN
             /\ JobVerdict(j) \in JobState
             /\ JobVerdict(j) = "SUCCESS" => AllStagesSucceeded(j)
             /\ JobVerdict(j) = "FAILURE" => StageFailed(j)
  <2>1. j \in 1..Len(job)
    BY DEF OpenJobs
  <2>2. Broken(j) \in BOOLEAN
    BY DEF Broken
  <2>3. visit[j].unblock \subseteq Unblockable(j) /\ visit[j].broken \in BOOLEAN
    <3>1. CASE StageFailed(j)
      <4>1. visit[j] \in [unblock : SUBSET Unblockable(j), broken : {FALSE, Broken(j)}]
        BY <1>1, <3>1 DEF Visits
      <4>2. visit[j].unblock \in SUBSET Unblockable(j) /\ visit[j].broken \in {FALSE, Broken(j)}
        BY <4>1
      <4> QED
        BY <2>2, <4>2
    <3>2. CASE ~StageFailed(j)
      <4>1. visit[j] = [unblock |-> Unblockable(j), broken |-> Broken(j)]
        BY <1>1, <3>2 DEF Visits
      <4> QED
        BY <2>2, <4>1
    <3> QED
      BY <3>1, <3>2
  <2> QED
    BY <2>1, <2>3 DEF JobVerdict, JobState
<1>3. \A j : Unblockable(j) \subseteq 1..Len(stage)
             /\ \A s \in Unblockable(j) : DependenciesMet(s)
  BY DEF Unblockable, StagesOf
<1>4. \A p \in jobPlan'[w] : p \in JobPlans /\ JobPlanHolds(p)
  <2> SUFFICES ASSUME NEW p \in jobPlan'[w]
               PROVE  p \in JobPlans /\ JobPlanHolds(p)
    OBVIOUS
  <2>1. PICK j \in OpenJobs :
          p = [job |-> j, unblock |-> visit[j].unblock, broken |-> visit[j].broken,
               verdict |-> JobVerdict(j)]
    BY <1>1 DEF CompletionInv, PlansOK
  <2>2. p \in JobPlans
    BY <1>2, <1>3, <2>1 DEF JobPlans
  <2>3. JobPlanHolds(p)
    BY <1>2, <1>3, <2>1 DEF JobPlanHolds
  <2> QED
    BY <2>2, <2>3
<1>5. \A v \in Workers : v # w => jobPlan'[v] = jobPlan[v]
  BY <1>1 DEF CompletionInv, PlansOK
<1>6. PlansOK' /\ TablesOK' /\ UNCHANGED <<message, job, stage>>
  <2>1. TablesOK' /\ UNCHANGED <<message, job, stage>> /\ UNCHANGED messagePlan
    BY DEF LoadJobs, CompletionInv, TablesOK, tables, GoTo, Phase
  <2>2. JobPlans' = JobPlans
    BY <2>1 DEF JobPlans
  <2>3. jobPlan' \in [Workers -> SUBSET JobPlans]
    BY <1>1, <1>4, <1>5 DEF CompletionInv, PlansOK
  <2> QED
    BY <2>1, <2>2, <2>3 DEF CompletionInv, PlansOK
<1>7. UNCHANGED messagePlan
  BY DEF LoadJobs
<1>8. \A v \in Workers : \A p \in jobPlan'[v] : JobPlanHolds(p)
  BY <1>4, <1>5 DEF CompletionInv, PlansHold
<1>9. \A v \in Workers : \A p \in messagePlan'[v] : MessagePlanHolds(p)
  BY <1>7 DEF CompletionInv, PlansHold
<1> QED
  BY <1>6, <1>8, <1>9, RowsUnchanged

\* The same for the messages; only verdicts are planned.
LEMMA LoadMessagesKeepsInv ==
  ASSUME CompletionInv, NEW w \in Workers, LoadMessages(w)
  PROVE  CompletionInv'
<1>1. TablesOK' /\ UNCHANGED <<message, job, stage>> /\ UNCHANGED jobPlan
  BY DEF LoadMessages, CompletionInv, TablesOK, tables, GoTo, Phase
<1>2. \A p \in messagePlan'[w] :
        p \in [msg : Messages, verdict : MessageState] /\ MessagePlanHolds(p)
  <2> SUFFICES ASSUME NEW p \in messagePlan'[w]
               PROVE  p \in [msg : Messages, verdict : MessageState] /\ MessagePlanHolds(p)
    OBVIOUS
  <2>1. PICK m \in OpenMessages : /\ MessageVerdict(m) # "IN_PROCESS"
                                  /\ p = [msg |-> m, verdict |-> MessageVerdict(m)]
    BY DEF LoadMessages, CompletionInv, PlansOK
  <2>2. MessageVerdict(m) \in MessageState /\ m \in Messages
    BY DEF MessageVerdict, MessageState, OpenMessages
  <2> QED
    BY <2>1, <2>2 DEF MessagePlanHolds
<1>3. \A v \in Workers : v # w => messagePlan'[v] = messagePlan[v]
  BY DEF LoadMessages, CompletionInv, PlansOK
<1>4. PlansOK'
  <2>1. JobPlans' = JobPlans
    BY <1>1 DEF JobPlans
  <2>2. messagePlan' \in [Workers -> SUBSET [msg : Messages, verdict : MessageState]]
    BY <1>2, <1>3 DEF LoadMessages, CompletionInv, PlansOK
  <2> QED
    BY <1>1, <2>1, <2>2 DEF CompletionInv, PlansOK
<1>5. \A v \in Workers : \A p \in jobPlan'[v] : JobPlanHolds(p)
  BY <1>1 DEF CompletionInv, PlansHold
<1>6. \A v \in Workers : \A p \in messagePlan'[v] : MessagePlanHolds(p)
  BY <1>2, <1>3 DEF CompletionInv, PlansHold
<1> QED
  BY <1>1, <1>4, <1>5, <1>6, RowsUnchanged

\* A stage is let go when its dependencies are met, which they still are;
\* the write does nothing if another worker was first.
LEMMA UnblockKeepsInv ==
  ASSUME CompletionInv, NEW w \in Workers, NEW p \in jobPlan[w], NEW s \in p.unblock,
         Unblock(w, p, s)
  PROVE  CompletionInv'
<1> DEFINE q == [p EXCEPT !.unblock = @ \ {s}]
<1>1. p \in JobPlans /\ JobPlanHolds(p) /\ s \in 1..Len(stage)
  BY DEF CompletionInv, PlansOK, PlansHold, JobPlans
<1>2. q \in JobPlans /\ JobPlanHolds(q)
  BY <1>1 DEF JobPlans, JobPlanHolds
<1> HIDE DEF q
<1>3. jobPlan' = [jobPlan EXCEPT ![w] = (@ \ {p}) \cup {q}] /\ UNCHANGED messagePlan
  BY DEF Unblock, q
<1>4. UNCHANGED <<clock, message, job, run, pc, aborts>>
  BY DEF Unblock
<1>5. /\ stage' \in Seq(StageRows) /\ Len(stage') = Len(stage)
      /\ \A t \in 1..Len(stage) :
            \/ stage'[t] = stage[t]
            \/ /\ t = s /\ stage[t].state = "BLOCKED"
               /\ stage'[t].job = stage[t].job /\ stage'[t].name = stage[t].name
  <2>1. TablesOK /\ stage[s].retriesLeft \in Nat /\ "READY" \in StageState
    BY <1>1, RowTypes DEF CompletionInv, StageRows, StageState
  <2>2. CasStage(s, "BLOCKED", "READY", stage[s].retriesLeft)
    BY DEF Unblock
  <2> QED
    BY <1>1, <2>1, <2>2, CasStageWrites
<1>6. StagesAdvance /\ JobsAdvance
  BY <1>4, <1>5 DEF StagesAdvance, JobsAdvance
<1>7. TablesOK'
  <2>1. StageRows' = StageRows /\ RunRows' = RunRows
    BY <1>4, <1>5 DEF StageRows, RunRows
  <2> QED
    BY <1>4, <1>5, <2>1, RowTypes DEF CompletionInv, TablesOK, StageRows, RunRows
<1>8. PlansOK' /\ \A v \in Workers : \A r \in jobPlan'[v] : r \in JobPlans /\ JobPlanHolds(r)
  <2>1. JobPlans' = JobPlans
    BY <1>4, <1>5 DEF JobPlans
  <2>2. \A v \in Workers : \A r \in jobPlan'[v] : r \in jobPlan[v] \/ r = q
    BY <1>3 DEF CompletionInv, PlansOK
  <2>3. jobPlan' \in [Workers -> SUBSET JobPlans]
    BY <1>2, <1>3 DEF CompletionInv, PlansOK
  <2> QED
    BY <1>2, <1>3, <2>1, <2>2, <2>3 DEF CompletionInv, PlansOK, PlansHold
<1>9. \A t \in 1..Len(stage) : stage'[t].state # "BLOCKED" =>
         stage[t].state # "BLOCKED" \/ DependenciesMet(t)
  BY <1>1, <1>5 DEF JobPlanHolds
<1>10. \A v \in Workers : \A r \in messagePlan'[v] : MessagePlanHolds(r) /\ r.msg \in Messages
  BY <1>3 DEF CompletionInv, PlansHold, PlansOK
<1>11. \A v \in Workers : \A r \in jobPlan'[v] : JobPlanHolds(r)
          /\ r.job \in 1..Len(job) /\ r.unblock \subseteq 1..Len(stage)
  BY <1>8 DEF JobPlans
<1>12. \A j \in 1..Len(job) : job'[j].state = job[j].state
  BY <1>4
<1>13. \A m \in Messages : message'[m].state \in {"SUCCESS", "FAILURE"} =>
          message'[m].state = MessageVerdict(m)
  BY <1>4, ClosedMessagesHold
<1> QED
  BY <1>6, <1>7, <1>8, <1>9, <1>10, <1>11, <1>12, <1>13, AdvanceKeepsInv

\* A job that is closed is not written otherwise: of its stages it cannot be
\* that one failed and that all succeeded.
LEMMA StoreJobKeepsInv ==
  ASSUME CompletionInv, NEW w \in Workers, NEW p \in jobPlan[w], StoreJob(w, p)
  PROVE  CompletionInv' /\ JobsAdvance
<1> DEFINE i == p.job
<1>1. /\ p \in JobPlans /\ JobPlanHolds(p) /\ i \in 1..Len(job)
      /\ p.verdict \in JobState
  BY DEF CompletionInv, PlansOK, PlansHold, JobPlans
<1>2. UNCHANGED <<clock, message, stage, run, pc, aborts, messagePlan>>
  BY DEF StoreJob
<1>3. /\ job' \in Seq(JobRows) /\ Len(job') = Len(job)
      /\ \A j \in 1..Len(job) :
            \/ job'[j] = job[j]
            \/ /\ j = i /\ p.verdict # "IN_PROCESS"
               /\ job'[j] = [job[j] EXCEPT !.state = p.verdict]
  <2>1. job \in Seq(JobRows) /\ job[i] \in JobRows /\ Len(job) \in Nat
    BY <1>1, RowTypes DEF CompletionInv
  <2>2. CASE p.verdict # "IN_PROCESS"
    <3> DEFINE row == [job[i] EXCEPT !.state = p.verdict]
    <3>1. job' = [job EXCEPT ![i] = row]
      BY <2>2 DEF StoreJob
    <3>2. row \in JobRows
      BY <1>1, <2>1 DEF JobRows
    <3> HIDE DEF row
    <3>3. job' \in Seq(JobRows) /\ Len(job') = Len(job)
      BY <1>1, <2>1, <3>1, <3>2
    <3> QED
      BY <1>1, <2>1, <2>2, <3>1, <3>3 DEF row
  <2>3. CASE p.verdict = "IN_PROCESS"
    BY <2>1, <2>3 DEF StoreJob
  <2> QED
    BY <2>2, <2>3
<1>4. \A j \in 1..Len(job) : job[j] \in JobRows
  BY RowTypes DEF CompletionInv
<1>5. ASSUME NEW j \in 1..Len(job), job'[j].state # job[j].state
      PROVE  /\ job'[j].state = "SUCCESS" => AllStagesSucceeded(j)
             /\ job'[j].state = "FAILURE" => StageFailed(j)
             /\ job[j].state = "IN_PROCESS"
  <2>1. j = i /\ job'[j].state = p.verdict /\ p.verdict # "IN_PROCESS"
    BY <1>3, <1>4, <1>5 DEF JobRows
  <2>2. /\ p.verdict = "SUCCESS" => AllStagesSucceeded(j)
        /\ p.verdict = "FAILURE" => StageFailed(j)
    BY <1>1, <2>1 DEF JobPlanHolds
  <2>3. /\ job[j].state = "SUCCESS" => AllStagesSucceeded(j)
        /\ job[j].state = "FAILURE" => StageFailed(j)
    BY DEF CompletionInv, JobVerdictsHold
  <2>4. ~(AllStagesSucceeded(j) /\ StageFailed(j))
    BY DEF AllStagesSucceeded, StageFailed, SuccessEndState
  <2>5. job[j].state \in JobState
    BY <1>4 DEF JobRows
  <2> QED
    BY <1>1, <1>5, <2>1, <2>2, <2>3, <2>4, <2>5 DEF JobState
<1>6. JobsAdvance
  BY <1>3, <1>4, <1>5 DEF JobsAdvance, JobRows
<1>7. StagesAdvance
  BY <1>2 DEF StagesAdvance
<1>8. TablesOK'
  <2>1. StageRows' = StageRows /\ RunRows' = RunRows
    BY <1>2, <1>3 DEF StageRows, RunRows
  <2> QED
    BY <1>2, <1>3, <2>1, RowTypes DEF CompletionInv, TablesOK, JobRows, StageRows, RunRows
<1>9. \A v \in Workers : /\ jobPlan'[v] \subseteq jobPlan[v]
                         /\ messagePlan'[v] \subseteq messagePlan[v]
  BY <1>2 DEF StoreJob, CompletionInv, PlansOK
<1>10. PlansOK'
  <2>1. JobPlans' = JobPlans
    BY <1>2, <1>3 DEF JobPlans
  <2> QED
    BY <1>2, <2>1 DEF StoreJob, CompletionInv, PlansOK
<1>11. \A s \in 1..Len(stage) : stage'[s].state = stage[s].state
  BY <1>2
<1>12. \A m \in Messages : message'[m].state \in {"SUCCESS", "FAILURE"} =>
          message'[m].state = MessageVerdict(m)
  BY <1>2, ClosedMessagesHold
<1> QED
  BY <1>5, <1>6, <1>7, <1>8, <1>9, <1>10, <1>11, <1>12, FewerPlans, AdvanceKeepsInv

\* The verdict on a message is what it still is.
LEMMA StoreMessageKeepsInv ==
  ASSUME CompletionInv, NEW w \in Workers, NEW p \in messagePlan[w], StoreMessage(w, p)
  PROVE  CompletionInv'
<1>1. /\ p \in [msg : Messages, verdict : MessageState] /\ MessagePlanHolds(p)
  BY DEF CompletionInv, PlansOK, PlansHold
<1>2. UNCHANGED <<clock, job, stage, run, pc, aborts, jobPlan>>
  BY DEF StoreMessage
<1>3. TablesOK'
  <2>1. message' \in [Messages -> [state : MessageState \cup {"none"}, lock : Nat]]
    BY <1>1 DEF StoreMessage, CompletionInv, TablesOK
  <2> QED
    BY <1>2, <2>1 DEF CompletionInv, TablesOK
<1>4. ASSUME NEW m \in Messages, message'[m].state \in {"SUCCESS", "FAILURE"}
      PROVE  message'[m].state = MessageVerdict(m)
  <2>1. CASE m = p.msg
    BY <1>1, <2>1 DEF StoreMessage, CompletionInv, TablesOK, MessagePlanHolds
  <2>2. CASE m # p.msg
    <3>1. message'[m] = message[m]
      BY <2>2 DEF StoreMessage, CompletionInv, TablesOK
    <3> QED
      BY <1>4, <3>1 DEF CompletionInv, MessageVerdictsHold
  <2> QED
    BY <2>1, <2>2
<1>5. \A v \in Workers : /\ jobPlan'[v] \subseteq jobPlan[v]
                         /\ messagePlan'[v] \subseteq messagePlan[v]
  BY <1>2 DEF StoreMessage, CompletionInv, PlansOK
<1>6. PlansOK'
  BY <1>2 DEF StoreMessage, CompletionInv, PlansOK, JobPlans
<1>7. StagesAdvance /\ JobsAdvance
  BY <1>2 DEF StagesAdvance, JobsAdvance
<1>8. /\ \A s \in 1..Len(stage) : stage'[s].state = stage[s].state
      /\ \A j \in 1..Len(job) : job'[j].state = job[j].state
  BY <1>2
<1> QED
  BY <1>3, <1>4, <1>5, <1>6, <1>7, <1>8, FewerPlans, AdvanceKeepsInv

\* Stages that run were let go before, and a stage at its end is not touched.
LEMMA StageStepKeepsInv ==
  ASSUME CompletionInv, NEW s \in 1..Len(stage), StageStep(s)
  PROVE  CompletionInv'
<1>1. UNCHANGED <<clock, message, job, run, pc, aborts, jobPlan, messagePlan>>
  BY DEF StageStep, RunStage, StageEnds, completionVars
<1>2. stage \in Seq(StageRows) /\ stage[s] \in StageRows /\ Len(stage) \in Nat
  BY RowTypes DEF CompletionInv
<1>3. PICK row \in StageRows :
        /\ stage' = [stage EXCEPT ![s] = row]
        /\ row.job = stage[s].job /\ row.name = stage[s].name
        /\ stage[s].state \in {"READY", "RUNNING"}
  <2>1. CASE RunStage(s)
    <3> DEFINE row == [stage[s] EXCEPT !.state = "RUNNING", !.retriesLeft = @ - 1]
    <3>1. row \in StageRows
      <4>1. stage[s].retriesLeft - 1 \in Nat
        BY <1>2, <2>1 DEF RunStage, StageRows
      <4> QED
        BY <1>2, <4>1 DEF StageRows, StageState
    <3>2. stage' = [stage EXCEPT ![s] = row]
      BY <1>2, <2>1 DEF RunStage, StageRows
    <3>3. row.job = stage[s].job /\ row.name = stage[s].name
      BY <1>2 DEF StageRows
    <3> QED
      BY <2>1, <3>1, <3>2, <3>3 DEF RunStage
  <2>2. CASE StageEnds(s)
    <3>1. PICK new \in {"SUCCESS", IF stage[s].retriesLeft > 0 THEN "READY" ELSE "FAILURE"} :
            stage' = [stage EXCEPT ![s].state = new]
      BY <2>2 DEF StageEnds
    <3> DEFINE row == [stage[s] EXCEPT !.state = new]
    <3>2. row \in StageRows /\ row.job = stage[s].job /\ row.name = stage[s].name
      BY <1>2 DEF StageRows, StageState
    <3> QED
      BY <2>2, <3>1, <3>2 DEF StageEnds
  <2> QED
    BY <2>1, <2>2 DEF StageStep
<1>4. /\ stage' \in Seq(StageRows) /\ Len(stage') = Len(stage)
      /\ \A t \in 1..Len(stage) : stage'[t] = IF t = s THEN row ELSE stage[t]
  BY <1>2, <1>3
<1>5. StagesAdvance /\ JobsAdvance
  BY <1>1, <1>3, <1>4 DEF StagesAdvance, JobsAdvance
<1>6. TablesOK'
  <2>1. StageRows' = StageRows /\ RunRows' = RunRows
    BY <1>1, <1>4 DEF StageRows, RunRows
  <2> QED
    BY <1>1, <1>4, <2>1, RowTypes DEF CompletionInv, TablesOK, StageRows, RunRows
<1>7. PlansOK'
  <2>1. JobPlans' = JobPlans
    BY <1>1, <1>4 DEF JobPlans
  <2> QED
    BY <1>1, <2>1 DEF CompletionInv, PlansOK
<1>8. \A t \in 1..Len(stage) : stage'[t].state # "BLOCKED" => stage[t].state # "BLOCKED"
  BY <1>3, <1>4
<1>9. \A v \in Workers : /\ jobPlan'[v] \subseteq jobPlan[v]
                         /\ messagePlan'[v] \subseteq messagePlan[v]
  BY <1>1
<1>10. \A j \in 1..Len(job) : job'[j].state = job[j].state
  BY <1>1
<1>11. \A m \in Messages : message'[m].state \in {"SUCCESS", "FAILURE"} =>
          message'[m].state = MessageVerdict(m)
  BY <1>1, ClosedMessagesHold
<1> QED
  BY <1>5, <1>6, <1>7, <1>8, <1>9, <1>10, <1>11, FewerPlans, AdvanceKeepsInv

------------------------------------------------------------------------------
(* The theorems.                                                           *)

\* Every step of the system keeps the invariant.
LEMMA NextKeepsInv ==
  ASSUME CompletionInv, [Next]_vars
  PROVE  CompletionInv'
<1>1. aborts \in 0..MaxAborts /\ MaxAborts \in Nat
  BY AbortBoundAssumption DEF CompletionInv, TablesOK
<1>2. {"idle", "loadJobs", "loadMessages"} \subseteq Phase
  BY DEF Phase
<1>3. CASE UNCHANGED vars
  <2>1. TablesOK' /\ PlansOK'
    BY <1>3 DEF CompletionInv, TablesOK, PlansOK, JobPlans, vars, tableVars, tables,
                completionVars
  <2> QED
    BY <1>3, <2>1, FewerPlans, RowsUnchanged DEF vars, tableVars, tables, completionVars
<1>4. ASSUME NEW w \in Workers, LoadJobs(w) \/ LoadMessages(w)
      PROVE  CompletionInv'
  BY <1>4, LoadJobsKeepsInv, LoadMessagesKeepsInv
<1>5. ASSUME NEW w \in Workers, NEW p \in jobPlan[w], NEW s \in p.unblock, Unblock(w, p, s)
      PROVE  CompletionInv'
  BY <1>5, UnblockKeepsInv
<1>6. ASSUME NEW w \in Workers, NEW p \in jobPlan[w], StoreJob(w, p)
      PROVE  CompletionInv'
  BY <1>6, StoreJobKeepsInv
<1>7. ASSUME NEW w \in Workers, NEW p \in messagePlan[w], StoreMessage(w, p)
      PROVE  CompletionInv'
  BY <1>7, StoreMessageKeepsInv
<1>8. ASSUME NEW w \in Workers,
             \/ \E p \in jobPlan[w] : JobBroken(w, p)
             \/ EndJobs(w) \/ LoadMessagesThrows(w) \/ EndMessages(w)
             \/ CompletionAborts(w) \/ NextBeat(w)
      PROVE  CompletionInv'
  <2>1. UNCHANGED <<clock, tables>> /\ aborts' \in 0..MaxAborts
    BY <1>1, <1>8 DEF JobBroken, EndJobs, LoadMessagesThrows, EndMessages,
                      CompletionAborts, NextBeat
  <2>2. /\ \E phase \in Phase : GoTo(w, phase)
        /\ UNCHANGED completionVars \/ ForgetCompletion(w)
    BY <1>2, <1>8 DEF JobBroken, EndJobs, LoadMessagesThrows, EndMessages,
                      CompletionAborts, NextBeat
  <2> QED
    BY <2>1, <2>2, ForgettingKeepsInv
<1>9. ASSUME NEW s \in 1..Len(stage), StageStep(s)
      PROVE  CompletionInv'
  BY <1>9, StageStepKeepsInv
<1> QED
  BY <1>3, <1>4, <1>5, <1>6, <1>7, <1>8, <1>9 DEF Next, CompletionStep

\* CompletionInv holds in every reachable state.
LEMMA InvAlways == Spec => []CompletionInv
  BY InitSatisfiesInv, NextKeepsInv, PTL DEF Spec

\* For all constants: the rows and the plans of the workers are well formed.
THEOREM TypeCorrect == Spec => []TypeOK
<1>1. CompletionInv => TypeOK
  BY DEF CompletionInv, TypeOK, PlansOK, JobPlans, CompletionOK
<1> QED
  BY <1>1, InvAlways, PTL

\* For all constants: a stage is let go only after the stages it depends on
\* succeeded, though workers decide so on rows read earlier, and crash.
\* (updateInProcessJobs)
THEOREM DependenciesAlwaysFirst == Spec => []DependenciesFirst
  BY InvAlways, PTL DEF CompletionInv

\* For all constants: a closed job is closed for a reason that still holds.
\* (updateInProcessJobs)
THEOREM JobVerdictsAlwaysHold == Spec => []JobVerdictsHold
  BY InvAlways, PTL DEF CompletionInv

\* For all constants: a closed message has the verdict its jobs give it.
\* (updateInProcessMessages)
THEOREM MessageVerdictsAlwaysHold == Spec => []MessageVerdictsHold
  BY InvAlways, PTL DEF CompletionInv

\* For all constants: no write of a worker that decided earlier changes a
\* job or a message that is closed. (UPDATE_JOB_STATUS, UPDATE_MESSAGE_STATUS)
THEOREM NothingReopens == Spec => ClosedStaysClosed
<1> DEFINE JobsStay == \A j \in 1..Len(job) :
                          job[j].state # "IN_PROCESS" => job'[j].state = job[j].state
           MessagesStay == \A m \in Messages :
                              message[m].state \in {"SUCCESS", "FAILURE"} =>
                                  message'[m].state = message[m].state
<1>1. ASSUME CompletionInv, Next
      PROVE  JobsStay
  <2>1. CASE UNCHANGED job
    BY <2>1
  <2>2. ASSUME NEW w \in Workers, NEW p \in jobPlan[w], StoreJob(w, p)
        PROVE  JobsStay
    BY <1>1, <2>2, StoreJobKeepsInv DEF JobsAdvance
  <2>3. UNCHANGED job \/ \E w \in Workers : \E p \in jobPlan[w] : StoreJob(w, p)
    BY <1>1 DEF Next, CompletionStep, CompletionAborts, NextBeat, StageStep, RunStage,
                StageEnds, LoadJobs, Unblock, JobBroken, EndJobs, LoadMessages,
                LoadMessagesThrows, StoreMessage, EndMessages, tables
  <2> QED
    BY <2>1, <2>2, <2>3
<1>2. ASSUME CompletionInv, Next
      PROVE  MessagesStay
  <2>1. CASE UNCHANGED message
    BY <2>1
  <2>2. ASSUME NEW w \in Workers, NEW p \in messagePlan[w], StoreMessage(w, p),
               NEW m \in Messages, message[m].state \in {"SUCCESS", "FAILURE"}
        PROVE  message'[m].state = message[m].state
    <3>1. p.verdict = MessageVerdict(p.msg) /\ message[m].state = MessageVerdict(m)
      BY <1>2, <2>2 DEF CompletionInv, PlansHold, MessagePlanHolds, MessageVerdictsHold
    <3>2. message'[m].state = IF m = p.msg THEN p.verdict ELSE message[m].state
      BY <1>2, <2>2 DEF StoreMessage, CompletionInv, TablesOK
    <3> QED
      BY <3>1, <3>2
  <2>3. UNCHANGED message \/ \E w \in Workers : \E p \in messagePlan[w] : StoreMessage(w, p)
    BY <1>2 DEF Next, CompletionStep, CompletionAborts, NextBeat, StageStep, RunStage,
                StageEnds, LoadJobs, Unblock, JobBroken, EndJobs, LoadMessages,
                LoadMessagesThrows, StoreJob, EndMessages, tables
  <2> QED
    BY <2>1, <2>2, <2>3
<1>3. CompletionInv /\ [Next]_vars => [JobsStay /\ MessagesStay]_vars
  BY <1>1, <1>2
<1> QED
  BY <1>3, InvAlways, PTL DEF Spec, ClosedStaysClosed
==============================================================================
