----------------------------- MODULE EventTables -----------------------------
(***************************************************************************)
(* The tables of the event engine (design/dbModel.sql) that every worker   *)
(* of a cloud reads and writes, the configuration the engine is driven by, *)
(* and the SQL statements of coordinator/db/EventQueries.java as operators *)
(* on the tables.                                                          *)
(*                                                                         *)
(* DbCoordinator.connection() takes a plain DriverManager connection and   *)
(* nobody turns autocommit off: each statement commits by itself, there is *)
(* nothing to roll back, and the beats of different workers interleave     *)
(* statement by statement.  Row ids come from IdFactory and are unique;    *)
(* here the id of a row is its place in the table.  Ids are drawn in       *)
(* batches per JVM, so their order says nothing about the order of         *)
(* insertion and no action depends on it.                                  *)
(***************************************************************************)
EXTENDS Naturals, Sequences, SequencesExt

CONSTANTS Workers,      \* worker JVMs, each repeating its beat
          Messages,     \* the messages that may be posted
          Template,     \* EventTemplate.jobs of each message
          LockDuration, \* LockTimestamp.lockDuration, in ticks of the clock
          MaxTime,      \* bound: the clock stops here
          MaxAborts     \* bound: how many beats end by crash or exception

\* What the configuration says of a stage: the positions, in its job, of the
\* stages it depends on, and retryStrategy.maxTries.
StageTemplate == [dependOnStage : SUBSET Nat, maxTries : Nat \ {0}]

\* A job template; passes is the outcome of checkFilters for the message.
JobTemplate == [responsible : BOOLEAN, passes : BOOLEAN, stages : Seq(StageTemplate)]

ASSUME TemplateOK == Template \in [Messages -> Seq(JobTemplate)]
ASSUME LockDurationAssumption == LockDuration \in Nat \ {0}
ASSUME TimeBoundAssumption == MaxTime \in Nat
ASSUME AbortBoundAssumption == MaxAborts \in Nat

VARIABLES clock,   \* CURRENT_TIMESTAMP of the database
          message, \* NN_MESSAGE: MSG_STATE and LOCK_TS of each message
          job,     \* NN_JOB
          stage,   \* NN_STAGE
          run,     \* NN_RUN
          pc,      \* the part of its beat each worker is in
          aborts   \* number of beats that were cut short so far

tables == <<message, job, stage, run>>
tableVars == <<clock, tables, pc, aborts>>

MessageState == {"EMITTED", "IN_PROCESS", "SUCCESS", "FAILURE"}
JobState == {"IN_PROCESS", "SUCCESS", "FAILURE"}
StageState == {"READY", "BLOCKED", "PREPARE_TO_RUN", "RUNNING", "SUCCESS", "FAILURE"}
RunState == {"PREPARE_TO_RUN", "RUNNING", "SUCCESS", "FAILURE"}

\* The parts of BeatLogic.doLaundryList, in their order; "down": the worker is
\* not running at all.
Phase == {"down", "idle", "claim", "expand", "pick", "ready", "insertRun", "start",
          "storeRun", "storeStage", "current", "collect", "closeStage",
          "loadJobs", "jobs", "loadMessages", "messages"}

TablesOK ==
    /\ clock \in 0..MaxTime
    /\ message \in [Messages -> [state : MessageState \cup {"none"}, lock : Nat]]
    /\ job \in Seq([msg : Messages, tmpl : Nat, responsible : BOOLEAN, state : JobState])
    /\ stage \in Seq([job : 1..Len(job), name : Nat, state : StageState, retriesLeft : Nat])
    /\ run \in Seq([stage : 1..Len(stage), worker : Workers, state : RunState])
    /\ pc \in [Workers -> Phase]
    /\ aborts \in 0..MaxAborts

\* Nothing is posted yet ("none": the row does not exist).
TablesClean ==
    /\ clock = 0
    /\ message = [m \in Messages |-> [state |-> "none", lock |-> 0]]
    /\ job = <<>>
    /\ stage = <<>>
    /\ run = <<>>
    /\ aborts = 0

TablesInit == TablesClean /\ pc = [w \in Workers |-> "idle"]

------------------------------------------------------------------------------
(* Reading the configuration and the tables.                               *)

\* Mutant of Selected: alreadyHaveOneResposible is never set.
SelectedAll(m) == {i \in 1..Len(Template[m]) : Template[m][i].passes}

\* The job templates processEmittedMessages makes jobs of: those whose
\* filters pass, and of the responsible ones only the first.
Selected(m) ==
    {i \in 1..Len(Template[m]) :
        /\ Template[m][i].passes
        /\ Template[m][i].responsible =>
              ~\E k \in 1..(i - 1) : Template[m][k].passes /\ Template[m][k].responsible}

StageTemplates(m, i) == Template[m][i].stages
JobOf(s) == job[stage[s].job]
TemplateOf(s) == StageTemplates(JobOf(s).msg, JobOf(s).tmpl)[stage[s].name]
JobsOf(m) == {j \in 1..Len(job) : job[j].msg = m}
StagesOf(j) == {s \in 1..Len(stage) : stage[s].job = j}

\* StageState.successEndState (no code ever writes CANCELED).
SuccessEndState(state) == state = "SUCCESS"

\* The row INSERT_JOB makes of template i of message m.
JobRow(m, i) ==
    [msg |-> m, tmpl |-> i, state |-> "IN_PROCESS", responsible |-> Template[m][i].responsible]

\* Mutant of StageRow: dependOnStage is ignored.
StageRowReady(j, m, i, k) ==
    [job |-> j, name |-> k, retriesLeft |-> StageTemplates(m, i)[k].maxTries, state |-> "READY"]

\* The row INSERT_STAGE makes of the k-th stage of that template, for job j.
StageRow(j, m, i, k) ==
    LET st == StageTemplates(m, i)[k]
    IN  [job |-> j, name |-> k, retriesLeft |-> st.maxTries,
         state |-> IF st.dependOnStage = {} THEN "READY" ELSE "BLOCKED"]

\* The tables when some messages have been committed and nothing has run
\* yet, whatever the order of the rows: where the later parts of a beat start
\* when they are looked at on their own.  A message whose first expansion
\* ended just before its commit was expanded twice.
ExpandedTables(posted, twice) ==
    LET copies == SetToSeq(UNION {{m} \X Selected(m) \X (1..(IF m \in twice THEN 2 ELSE 1)) :
                                     m \in posted})
        made == [j \in 1..Len(copies) |-> JobRow(copies[j][1], copies[j][2])]
        size == [j \in 1..Len(copies) |-> Len(StageTemplates(made[j].msg, made[j].tmpl))]
        places == SetToSeq(UNION {{<<j, k>> : k \in 1..size[j]} : j \in 1..Len(copies)})
    IN  /\ job = made
        /\ stage = [s \in 1..Len(places) |->
                      StageRow(places[s][1], made[places[s][1]].msg, made[places[s][1]].tmpl,
                               places[s][2])]
        /\ run = <<>>
        /\ message = [m \in Messages |->
                        [state |-> IF m \in posted THEN "IN_PROCESS" ELSE "none", lock |-> 0]]
        /\ clock = 0
        /\ aborts = 0

------------------------------------------------------------------------------
(* The statements that write.                                              *)

\* UPDATE_MESSAGE_STATE: compare-and-set on LOCK_TS alone.
CasMessage(m, old, new, state) ==
    /\ message[m].lock = old
    /\ message' = [message EXCEPT ![m] = [state |-> state, lock |-> new]]

\* UPDATE_STAGE_STATUS: compare-and-set on STAGE_STATE alone; RETRIES_LEFT
\* is overwritten with whatever the caller has in memory.
CasStage(s, old, new, retries) ==
    IF stage[s].state = old
    THEN stage' = [stage EXCEPT ![s].state = new, ![s].retriesLeft = retries]
    ELSE UNCHANGED stage

GoTo(w, phase) == pc' = [pc EXCEPT ![w] = phase]
==============================================================================
