----------------------------- MODULE ObjectStates -----------------------------
(***************************************************************************)
(* What the event engine promises: the life of messages, jobs, stages and  *)
(* runs as the states of the enums in org.beequeue.msg suggest it, without *)
(* workers, locks, clocks, processes or statements.  Each step moves one   *)
(* object along one arrow, and only for the reason given with it.          *)
(*                                                                         *)
(* An object is named by what it is in the configuration, <<m, i>> the     *)
(* i-th job template of message m, <<m, i, k>> the k-th stage of that job. *)
(* So there is at most one job per template and one stage per stage        *)
(* template by construction: that the tables obey it is part of what the   *)
(* refinement by BeatLogic shows.                                          *)
(***************************************************************************)
EXTENDS Naturals, Sequences

CONSTANTS Messages, \* the messages that may be posted
          Template  \* the job templates of each, see EventTables

VARIABLES messages, \* state of each message
          jobs,     \* state of each job, "none" before it is assigned
          stages,   \* state of each stage
          tries     \* how often each stage was taken to be run

objects == <<messages, jobs, stages, tries>>

Jobs == UNION {{<<m, i>> : i \in 1..Len(Template[m])} : m \in Messages}
StagesIn(j) == {<<j[1], j[2], k>> : k \in 1..Len(Template[j[1]][j[2]].stages)}
Stages == UNION {StagesIn(j) : j \in Jobs}
JobOfStage(s) == <<s[1], s[2]>>
Config(s) == Template[s[1]][s[2]].stages[s[3]]
Needs(s) == {<<s[1], s[2], k>> : k \in Config(s).dependOnStage}

\* The jobs a message gets: filters pass, and only one is responsible.
JobsFor(m) ==
    {j \in Jobs :
        /\ j[1] = m
        /\ Template[m][j[2]].passes
        /\ Template[m][j[2]].responsible =>
              \A i \in 1..(j[2] - 1) :
                  ~(Template[m][i].passes /\ Template[m][i].responsible)}

\* The jobs whose outcome is the outcome of the message.
Judges(m) ==
    LET responsible == {j \in JobsFor(m) : Template[m][j[2]].responsible}
    IN  IF responsible # {} THEN responsible ELSE JobsFor(m)

Init ==
    /\ messages = [m \in Messages |-> "none"]
    /\ jobs = [j \in Jobs |-> "none"]
    /\ stages = [s \in Stages |-> "none"]
    /\ tries = [s \in Stages |-> 0]

Post(m) ==
    /\ messages[m] = "none"
    /\ messages' = [messages EXCEPT ![m] = "EMITTED"]
    /\ UNCHANGED <<jobs, stages, tries>>

\* Jobs and stages are assigned to a message while it is EMITTED.
AssignJob(j) ==
    /\ j \in JobsFor(j[1])
    /\ messages[j[1]] = "EMITTED"
    /\ jobs[j] = "none"
    /\ jobs' = [jobs EXCEPT ![j] = "IN_PROCESS"]
    /\ UNCHANGED <<messages, stages, tries>>

AssignStage(s) ==
    /\ messages[s[1]] = "EMITTED"
    /\ jobs[JobOfStage(s)] = "IN_PROCESS"
    /\ stages[s] = "none"
    /\ stages' = [stages EXCEPT ![s] = IF Needs(s) = {} THEN "READY" ELSE "BLOCKED"]
    /\ UNCHANGED <<messages, jobs, tries>>

\* All jobs are assigned, with all their stages.
Accept(m) ==
    /\ messages[m] = "EMITTED"
    /\ \A j \in JobsFor(m) :
        jobs[j] # "none" /\ \A s \in StagesIn(j) : stages[s] # "none"
    /\ messages' = [messages EXCEPT ![m] = "IN_PROCESS"]
    /\ UNCHANGED <<jobs, stages, tries>>

Unblock(s) ==
    /\ stages[s] = "BLOCKED"
    /\ \A t \in Needs(s) : stages[t] = "SUCCESS"
    /\ stages' = [stages EXCEPT ![s] = "READY"]
    /\ UNCHANGED <<messages, jobs, tries>>

Take(s) ==
    /\ stages[s] = "READY"
    /\ tries[s] < Config(s).maxTries
    /\ stages' = [stages EXCEPT ![s] = "RUNNING"]
    /\ tries' = [tries EXCEPT ![s] = @ + 1]
    /\ UNCHANGED <<messages, jobs>>

\* Success, another try, or failure when the tries are used up.
End(s) ==
    /\ stages[s] = "RUNNING"
    /\ \E verdict \in {"SUCCESS", IF tries[s] < Config(s).maxTries THEN "READY" ELSE "FAILURE"} :
          stages' = [stages EXCEPT ![s] = verdict]
    /\ UNCHANGED <<messages, jobs, tries>>

\* A job is done when all its stages are, and lost with the first of them.
CloseJob(j) ==
    /\ jobs[j] = "IN_PROCESS"
    /\ \/ /\ \A s \in StagesIn(j) : stages[s] = "SUCCESS"
          /\ jobs' = [jobs EXCEPT ![j] = "SUCCESS"]
       \/ /\ \E s \in StagesIn(j) : stages[s] = "FAILURE"
          /\ jobs' = [jobs EXCEPT ![j] = "FAILURE"]
    /\ UNCHANGED <<messages, stages, tries>>

CloseMessage(m) ==
    /\ messages[m] = "IN_PROCESS"
    /\ \/ /\ \A j \in Judges(m) : jobs[j] = "SUCCESS"
          /\ messages' = [messages EXCEPT ![m] = "SUCCESS"]
       \/ /\ \E j \in Judges(m) : jobs[j] = "FAILURE"
          /\ messages' = [messages EXCEPT ![m] = "FAILURE"]
    /\ UNCHANGED <<jobs, stages, tries>>

Next ==
    \/ \E m \in Messages : Post(m) \/ Accept(m) \/ CloseMessage(m)
    \/ \E j \in Jobs : AssignJob(j) \/ CloseJob(j)
    \/ \E s \in Stages : AssignStage(s) \/ Unblock(s) \/ Take(s) \/ End(s)

Spec == Init /\ [][Next]_objects
==============================================================================
