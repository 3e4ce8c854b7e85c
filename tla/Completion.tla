------------------------------ MODULE Completion ------------------------------
(***************************************************************************)
(* DbCoordinator.updateFinishedJobsAndMessages, the end of every beat.     *)
(* updateInProcessJobs reads the stages of all jobs in process, unblocks   *)
(* the stages whose dependencies are met and closes the jobs that are      *)
(* decided; updateInProcessMessages reads the jobs of all messages in      *)
(* process and closes the messages that are decided.                       *)
(*                                                                         *)
(* Both read once and then write row by row, jobs and messages without     *)
(* any compare-and-set, so what they write is decided by a state that may  *)
(* have passed.  jobPlan and messagePlan hold those decisions.             *)
(***************************************************************************)
EXTENDS EventTables, FiniteSets

CONSTANTS Undefined, \* messages whose template is no longer configured
          Twice,     \* messages expanded twice (see MessageExpansion)
          Together   \* bound: the messages that are in process at the same time

ASSUME CompletionAssumption ==
    /\ Undefined \subseteq Messages /\ Twice \subseteq Messages
    /\ \A posted \in Together : posted \subseteq Messages /\ IsFiniteSet(posted)

VARIABLES jobPlan,     \* the jobs a worker has still to write, and how
          messagePlan  \* the messages a worker has still to write, and how

completionVars == <<jobPlan, messagePlan>>
vars == <<tableVars, completionVars>>

CompletionInit ==
    /\ jobPlan = [w \in Workers |-> {}]
    /\ messagePlan = [w \in Workers |-> {}]

CompletionOK ==
    \A w \in Workers :
        /\ \A p \in jobPlan[w] :
            /\ p.job \in 1..Len(job) /\ p.unblock \subseteq 1..Len(stage)
            /\ p.verdict \in JobState /\ p.broken \in BOOLEAN
        /\ messagePlan[w] \subseteq [msg : Messages, verdict : MessageState]

TypeOK == TablesOK /\ CompletionOK

\* On its own the module starts with messages committed and every worker
\* at updateFinishedJobsAndMessages.
Init ==
    /\ \E posted \in Together : ExpandedTables(posted, Twice)
    /\ pc = [w \in Workers |-> "loadJobs"]
    /\ CompletionInit

------------------------------------------------------------------------------
(* Decisions taken on the rows as they are now.                            *)

StageFailed(j) == \E s \in StagesOf(j) : stage[s].state = "FAILURE"
AllStagesSucceeded(j) == \A s \in StagesOf(j) : SuccessEndState(stage[s].state)

\* Mutants of DependenciesMet: one is enough; not failed is enough; and all
\* other stages of the job are asked.
DependenciesAny(s) ==
    \E t \in StagesOf(stage[s].job) :
        stage[t].name \in TemplateOf(s).dependOnStage /\ SuccessEndState(stage[t].state)

DependenciesNotFailed(s) ==
    \A t \in StagesOf(stage[s].job) :
        stage[t].name \in TemplateOf(s).dependOnStage => stage[t].state # "FAILURE"

DependenciesAll(s) == \A t \in StagesOf(stage[s].job) : SuccessEndState(stage[t].state)

\* A dependency without a row is "Assuming success end state".
DependenciesMet(s) ==
    \A t \in StagesOf(stage[s].job) :
        stage[t].name \in TemplateOf(s).dependOnStage => SuccessEndState(stage[t].state)

Unblockable(j) ==
    {s \in StagesOf(j) : stage[s].state = "BLOCKED" /\ DependenciesMet(s)}

\* Mutant of JobVerdict: a stage that succeeded is enough.
JobVerdictAny(j) ==
    CASE StageFailed(j) -> "FAILURE"
      [] \E s \in StagesOf(j) : stage[s].state = "SUCCESS" -> "SUCCESS"
      [] OTHER -> "IN_PROCESS"

JobVerdict(j) ==
    CASE StageFailed(j) -> "FAILURE"
      [] AllStagesSucceeded(j) -> "SUCCESS"
      [] OTHER -> "IN_PROCESS"

\* The template is gone and a BLOCKED stage asks for it.
Broken(j) ==
    job[j].msg \in Undefined /\ \E s \in StagesOf(j) : stage[s].state = "BLOCKED"

\* Ways through the loop over the stages of a job, a HashMap: it stops at the
\* first failed stage it meets, so of a failed job it may have reached any
\* part of the unblockable stages, and the broken one or not.
Visits(j) ==
    IF StageFailed(j)
    THEN [unblock : SUBSET Unblockable(j), broken : {FALSE, Broken(j)}]
    ELSE {[unblock |-> Unblockable(j), broken |-> Broken(j)]}

\* The jobs LOAD_IN_PROCESS_JOBS_STAGES has rows for.
OpenJobs == {j \in 1..Len(job) : job[j].state = "IN_PROCESS" /\ StagesOf(j) # {}}

Responsible(m) == {j \in JobsOf(m) : job[j].responsible}

\* The responsible job decides alone; without one all jobs have a say.
MessageVerdict(m) ==
    LET deciding == IF Responsible(m) # {} THEN Responsible(m) ELSE JobsOf(m)
    IN  CASE \E j \in deciding : job[j].state = "FAILURE" -> "FAILURE"
          [] \A j \in deciding : job[j].state = "SUCCESS" -> "SUCCESS"
          [] OTHER -> "IN_PROCESS"

\* The messages LOAD_IN_PROCESS_MESSAGE_JOBS has rows for.
OpenMessages == {m \in Messages : message[m].state = "IN_PROCESS" /\ JobsOf(m) # {}}

ForgetCompletion(w) ==
    /\ jobPlan' = [jobPlan EXCEPT ![w] = {}]
    /\ messagePlan' = [messagePlan EXCEPT ![w] = {}]

------------------------------------------------------------------------------
(* updateInProcessJobs                                                     *)

\* LOAD_IN_PROCESS_JOBS_STAGES, and what the loop will make of the rows.
LoadJobs(w) ==
    /\ pc[w] = "loadJobs"
    /\ \E visit \in [OpenJobs -> UNION {Visits(j) : j \in OpenJobs}] :
        /\ \A j \in OpenJobs : visit[j] \in Visits(j)
        /\ jobPlan' = [jobPlan EXCEPT ![w] =
              {[job |-> j, unblock |-> visit[j].unblock, broken |-> visit[j].broken,
                verdict |-> JobVerdict(j)] : j \in OpenJobs}]
    /\ GoTo(w, "jobs")
    /\ UNCHANGED <<clock, tables, aborts, messagePlan>>

\* updateStage from BLOCKED to READY, if it still is BLOCKED (and then with
\* the retries it was inserted with).
Unblock(w, p, s) ==
    /\ pc[w] = "jobs"
    /\ p \in jobPlan[w] /\ s \in p.unblock /\ ~p.broken
    /\ CasStage(s, "BLOCKED", "READY", stage[s].retriesLeft)
    /\ jobPlan' = [jobPlan EXCEPT ![w] =
          (@ \ {p}) \cup {[p EXCEPT !.unblock = @ \ {s}]}]
    /\ UNCHANGED <<clock, message, job, run, pc, aborts, messagePlan>>

\* UPDATE_JOB_STATUS, by id alone, when the job is decided.
StoreJob(w, p) ==
    /\ pc[w] = "jobs"
    /\ p \in jobPlan[w] /\ p.unblock = {} /\ ~p.broken
    /\ job' = IF p.verdict = "IN_PROCESS" THEN job
              ELSE [job EXCEPT ![p.job].state = p.verdict]
    /\ jobPlan' = [jobPlan EXCEPT ![w] = @ \ {p}]
    /\ UNCHANGED <<clock, message, stage, run, pc, aborts, messagePlan>>

\* stageTemplate() is null for a BLOCKED stage: the exception ends the beat.
JobBroken(w, p) ==
    /\ pc[w] = "jobs"
    /\ p \in jobPlan[w] /\ p.broken
    /\ ForgetCompletion(w)
    /\ GoTo(w, "idle")
    /\ UNCHANGED <<clock, tables, aborts>>

EndJobs(w) ==
    /\ pc[w] = "jobs"
    /\ jobPlan[w] = {}
    /\ GoTo(w, "loadMessages")
    /\ UNCHANGED <<clock, tables, aborts, completionVars>>

------------------------------------------------------------------------------
(* updateInProcessMessages                                                 *)

TwoResponsible == \E m \in OpenMessages : \E i, j \in Responsible(m) : i # j

\* LOAD_IN_PROCESS_MESSAGE_JOBS
LoadMessages(w) ==
    /\ pc[w] = "loadMessages"
    /\ ~TwoResponsible
    /\ messagePlan' = [messagePlan EXCEPT ![w] =
          {[msg |-> m, verdict |-> MessageVerdict(m)] :
              m \in {n \in OpenMessages : MessageVerdict(n) # "IN_PROCESS"}}]
    /\ GoTo(w, "messages")
    /\ UNCHANGED <<clock, tables, aborts, jobPlan>>

\* "only one responsible job should be assigned per message" ends the beat
\* before any message is looked at.
LoadMessagesThrows(w) ==
    /\ pc[w] = "loadMessages"
    /\ TwoResponsible
    /\ ForgetCompletion(w)
    /\ GoTo(w, "idle")
    /\ UNCHANGED <<clock, tables, aborts>>

\* Mutant of StoreMessage: the verdict is not looked at.
StoreMessageSuccess(w, p) ==
    /\ pc[w] = "messages"
    /\ p \in messagePlan[w]
    /\ message' = [message EXCEPT ![p.msg].state = "SUCCESS"]
    /\ messagePlan' = [messagePlan EXCEPT ![w] = @ \ {p}]
    /\ UNCHANGED <<clock, job, stage, run, pc, aborts, jobPlan>>

\* UPDATE_MESSAGE_STATUS, by id alone.
StoreMessage(w, p) ==
    /\ pc[w] = "messages"
    /\ p \in messagePlan[w]
    /\ message' = [message EXCEPT ![p.msg].state = p.verdict]
    /\ messagePlan' = [messagePlan EXCEPT ![w] = @ \ {p}]
    /\ UNCHANGED <<clock, job, stage, run, pc, aborts, jobPlan>>

EndMessages(w) ==
    /\ pc[w] = "messages"
    /\ messagePlan[w] = {}
    /\ GoTo(w, "idle")
    /\ UNCHANGED <<clock, tables, aborts, completionVars>>

CompletionStep(w) ==
    \/ LoadJobs(w)
    \/ \E p \in jobPlan[w] :
          \/ \E s \in p.unblock : Unblock(w, p, s)
          \/ StoreJob(w, p)
          \/ JobBroken(w, p)
    \/ EndJobs(w)
    \/ LoadMessages(w)
    \/ LoadMessagesThrows(w)
    \/ \E p \in messagePlan[w] : StoreMessage(w, p)
    \/ EndMessages(w)

\* A crash or an exception between two statements.
CompletionAborts(w) ==
    /\ pc[w] \in {"loadJobs", "jobs", "loadMessages", "messages"}
    /\ aborts < MaxAborts
    /\ aborts' = aborts + 1
    /\ ForgetCompletion(w)
    /\ GoTo(w, "idle")
    /\ UNCHANGED <<clock, tables>>

------------------------------------------------------------------------------
(* What the other parts of the beats do meanwhile, in few steps: stages    *)
(* are run, and a worker comes back to this part (see StageExecution).     *)

RunStage(s) ==
    /\ stage[s].state = "READY"
    /\ stage[s].retriesLeft > 0
    /\ stage' = [stage EXCEPT ![s].state = "RUNNING", ![s].retriesLeft = @ - 1]
    /\ UNCHANGED <<clock, message, job, run, pc, aborts, completionVars>>

StageEnds(s) ==
    /\ stage[s].state = "RUNNING"
    /\ \E new \in {"SUCCESS", IF stage[s].retriesLeft > 0 THEN "READY" ELSE "FAILURE"} :
          stage' = [stage EXCEPT ![s].state = new]
    /\ UNCHANGED <<clock, message, job, run, pc, aborts, completionVars>>

StageStep(s) == RunStage(s) \/ StageEnds(s)

NextBeat(w) ==
    /\ pc[w] = "idle"
    /\ GoTo(w, "loadJobs")
    /\ UNCHANGED <<clock, tables, aborts, completionVars>>

Next ==
    \/ \E w \in Workers : CompletionStep(w) \/ CompletionAborts(w) \/ NextBeat(w)
    \/ \E s \in 1..Len(stage) : StageStep(s)

Spec == Init /\ [][Next]_vars

\* Beats repeat, stages that are READY are run and come to an end.
FairSpec ==
    /\ Spec
    /\ \A w \in Workers : WF_vars(CompletionStep(w)) /\ WF_vars(NextBeat(w))
    /\ WF_vars(\E s \in 1..Len(stage) : StageStep(s))

------------------------------------------------------------------------------
(* Properties.                                                             *)

\* A stage is let go only after all the stages it depends on succeeded,
\* although the decision is taken on a snapshot. (updateInProcessJobs)
DependenciesFirst ==
    \A s \in 1..Len(stage) : stage[s].state # "BLOCKED" =>
        \A t \in StagesOf(stage[s].job) :
            stage[t].name \in TemplateOf(s).dependOnStage => stage[t].state = "SUCCESS"

\* A job is closed for the reason the code has for it, and stays so: all
\* stages succeeded, or one of them failed. (updateInProcessJobs)
JobVerdictsHold ==
    \A j \in 1..Len(job) :
        /\ job[j].state = "SUCCESS" => AllStagesSucceeded(j)
        /\ job[j].state = "FAILURE" => StageFailed(j)

\* A message is closed with the verdict of its responsible job, or of all its
\* jobs when there is none. (updateInProcessMessages)
MessageVerdictsHold ==
    \A m \in Messages : message[m].state \in {"SUCCESS", "FAILURE"} =>
        message[m].state = MessageVerdict(m)

\* What is closed is never changed again, although workers write jobs and
\* messages without looking at what is there.
ClosedStaysClosed ==
    [][/\ \A j \in 1..Len(job) :
            job[j].state # "IN_PROCESS" => job'[j].state = job[j].state
       /\ \A m \in Messages :
            message[m].state \in {"SUCCESS", "FAILURE"} =>
                message'[m].state = message[m].state]_vars

\* The next beat ends before it closes any message, and so do all others while
\* the rows are like this: a stage asks for a template that is gone, or a
\* message has two responsible jobs.
Poisoned == TwoResponsible \/ \E j \in OpenJobs : Broken(j)

\* Every message in process gets its verdict, whatever other messages are in
\* process, unless one of them, or the message itself, ends all beats for ever.
\* (the exceptions in updateInProcessJobs and updateInProcessMessages are the
\* only things in the way)
EveryMessageCloses ==
    \A m \in Messages :
        message[m].state = "IN_PROCESS" ~>
            message[m].state \in {"SUCCESS", "FAILURE"} \/ []Poisoned
==============================================================================
