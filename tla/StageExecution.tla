---------------------------- MODULE StageExecution ----------------------------
(***************************************************************************)
(* The middle of BeatLogic.doLaundryList: a worker picks one READY stage,  *)
(* records a run, starts the external process and marks the stage RUNNING; *)
(* then it collects the runs of its host whose process has left a return   *)
(* code in rc.log, and decides between success, retry and failure.         *)
(*                                                                         *)
(* The process is a shell script (run/run.sh.gt) that outlives the JVM; it *)
(* creates rc.log and only then writes the code into it.                   *)
(***************************************************************************)
EXTENDS EventTables, FiniteSets

CONSTANTS Hosts,     \* the machines
          HostOf,    \* the host of each worker
          MayVanish, \* TRUE: a process may die without a trace (kill, reboot)
          MaxRuns    \* bound: no stage is picked once there are so many runs

ASSUME ExecutionAssumption ==
    HostOf \in [Workers -> Hosts] /\ MayVanish \in BOOLEAN /\ MaxRuns \in Nat \ {0}

VARIABLES proc,    \* the process of each run: what its host knows of it
          ready,   \* rows of LOAD_READY_STAGES a worker has still to try
          mine,    \* the stage and run a worker is starting
          current, \* rows of allCurrentRuns a worker has still to look at
          closing  \* the stage whose run a worker has just closed

executionVars == <<proc, ready, mine, current, closing>>
vars == <<tableVars, executionVars>>

\* "writing": rc.log exists and is empty; "ok", "bad": it holds a return
\* code; "gone": the process died before it made the file.
ProcState == {"none", "alive", "writing", "ok", "bad", "gone"}

NoStage == [stage |-> 0, retriesLeft |-> 0, run |-> 0]
NotClosing == [stage |-> 0, retriesLeft |-> 0, state |-> "none", newState |-> "none"]

ExecutionInit ==
    /\ proc = <<>>
    /\ ready = [w \in Workers |-> {}]
    /\ mine = [w \in Workers |-> NoStage]
    /\ current = [w \in Workers |-> {}]
    /\ closing = [w \in Workers |-> NotClosing]

ExecutionOK ==
    /\ DOMAIN proc = 1..Len(run)
    /\ \A r \in 1..Len(run) : proc[r] \in ProcState
    /\ \A w \in Workers :
        /\ ready[w] \subseteq [stage : 1..Len(stage), retriesLeft : Nat]
        /\ mine[w] \in [stage : 0..Len(stage), retriesLeft : Nat, run : 0..Len(run)]
        /\ current[w] \subseteq [run : 1..Len(run), stage : 1..Len(stage),
                                 state : StageState, retriesLeft : Nat]
        /\ closing[w] \in [stage : 0..Len(stage), retriesLeft : Nat,
                           state : StageState \cup {"none"}, newState : StageState \cup {"none"}]

TypeOK == TablesOK /\ ExecutionOK

\* On its own the module starts with one message committed and every
\* worker at pickStageToRun.
Init ==
    /\ \E m \in Messages : ExpandedTables({m}, {})
    /\ pc = [w \in Workers |-> "pick"]
    /\ ExecutionInit

\* The worker forgets what it has in memory about stages and runs.
ForgetExecution(w) ==
    /\ ready' = [ready EXCEPT ![w] = {}]
    /\ mine' = [mine EXCEPT ![w] = NoStage]
    /\ current' = [current EXCEPT ![w] = {}]
    /\ closing' = [closing EXCEPT ![w] = NotClosing]

------------------------------------------------------------------------------
(* pickStageToRun and the start of a run.                                  *)

\* LOAD_READY_STAGES
LoadReady(w) ==
    /\ pc[w] = "pick"
    /\ ready' = [ready EXCEPT ![w] =
          {[stage |-> s, retriesLeft |-> stage[s].retriesLeft] :
              s \in {t \in 1..Len(stage) : stage[t].state = "READY"}}]
    /\ GoTo(w, "ready")
    /\ UNCHANGED <<clock, tables, aborts, proc, mine, current, closing>>

\* Mutant of TakeStage: no compare-and-set.
TakeStageBlind(w, row) ==
    /\ pc[w] = "ready"
    /\ row \in ready[w]
    /\ Len(run) < MaxRuns
    /\ stage' = [stage EXCEPT ![row.stage].state = "PREPARE_TO_RUN",
                              ![row.stage].retriesLeft = row.retriesLeft - 1]
    /\ mine' = [mine EXCEPT ![w] =
          [stage |-> row.stage, retriesLeft |-> row.retriesLeft - 1, run |-> 0]]
    /\ ready' = [ready EXCEPT ![w] = {}]
    /\ GoTo(w, "insertRun")
    /\ UNCHANGED <<clock, message, job, run, aborts, proc, current, closing>>

\* updateStage to PREPARE_TO_RUN succeeds; the retries written are those of
\* the SELECT less one.
TakeStage(w, row) ==
    /\ pc[w] = "ready"
    /\ row \in ready[w]
    /\ Len(run) < MaxRuns
    /\ stage[row.stage].state = "READY"
    /\ CasStage(row.stage, "READY", "PREPARE_TO_RUN", row.retriesLeft - 1)
    /\ mine' = [mine EXCEPT ![w] =
          [stage |-> row.stage, retriesLeft |-> row.retriesLeft - 1, run |-> 0]]
    /\ ready' = [ready EXCEPT ![w] = {}]
    /\ GoTo(w, "insertRun")
    /\ UNCHANGED <<clock, message, job, run, aborts, proc, current, closing>>

\* Another worker was faster: try the next row.
TakeMiss(w, row) ==
    /\ pc[w] = "ready"
    /\ row \in ready[w]
    /\ stage[row.stage].state # "READY"
    /\ ready' = [ready EXCEPT ![w] = @ \ {row}]
    /\ UNCHANGED <<tableVars, proc, mine, current, closing>>

\* pickStageToRun returns null.
NothingReady(w) ==
    /\ pc[w] = "ready"
    /\ ready[w] = {} \/ Len(run) >= MaxRuns
    /\ ready' = [ready EXCEPT ![w] = {}]
    /\ GoTo(w, "current")
    /\ UNCHANGED <<clock, tables, aborts, proc, mine, current, closing>>

\* new RunHelper; storeRun: INSERT_RUN.
InsertRun(w) ==
    /\ pc[w] = "insertRun"
    /\ run' = Append(run, [stage |-> mine[w].stage, worker |-> w, state |-> "PREPARE_TO_RUN"])
    /\ proc' = Append(proc, "none")
    /\ mine' = [mine EXCEPT ![w].run = Len(run')]
    /\ GoTo(w, "start")
    /\ UNCHANGED <<clock, message, job, stage, aborts, ready, current, closing>>

\* RunHelper.start: the process is launched.
Start(w) ==
    /\ pc[w] = "start"
    /\ proc' = [proc EXCEPT ![mine[w].run] = "alive"]
    /\ GoTo(w, "storeRun")
    /\ UNCHANGED <<clock, tables, aborts, ready, mine, current, closing>>

\* Mutant of StoreRun: the second storeRun of a beat is left out.
StoreRunNot(w) ==
    /\ pc[w] = "storeRun"
    /\ GoTo(w, "storeStage")
    /\ UNCHANGED <<clock, tables, aborts, executionVars>>

\* storeRun: UPDATE_RUN to RUNNING.
StoreRun(w) ==
    /\ pc[w] = "storeRun"
    /\ run' = [run EXCEPT ![mine[w].run].state = "RUNNING"]
    /\ GoTo(w, "storeStage")
    /\ UNCHANGED <<clock, message, job, stage, aborts, executionVars>>

\* updateStage from PREPARE_TO_RUN to RUNNING; its result is ignored.
StoreStage(w) ==
    /\ pc[w] = "storeStage"
    /\ CasStage(mine[w].stage, "PREPARE_TO_RUN", "RUNNING", mine[w].retriesLeft)
    /\ mine' = [mine EXCEPT ![w] = NoStage]
    /\ GoTo(w, "current")
    /\ UNCHANGED <<clock, message, job, run, aborts, proc, ready, current, closing>>

------------------------------------------------------------------------------
(* The runs of the worker's host.                                          *)

\* allCurrentRuns: RUNNING runs of workers of this host, with their stage as
\* it is now.
LoadCurrent(w) ==
    /\ pc[w] = "current"
    /\ current' = [current EXCEPT ![w] =
          {[run |-> r, stage |-> run[r].stage, state |-> stage[run[r].stage].state,
            retriesLeft |-> stage[run[r].stage].retriesLeft] :
              r \in {q \in 1..Len(run) :
                        run[q].state = "RUNNING" /\ HostOf[run[q].worker] = HostOf[w]}}]
    /\ GoTo(w, "collect")
    /\ UNCHANGED <<clock, tables, aborts, proc, ready, mine, closing>>

\* Mutant of Verdict: the return code is not looked at.
VerdictAny(r) == "SUCCESS"

\* RunState of a run by its return code.
Verdict(r) == IF proc[r] = "ok" THEN "SUCCESS" ELSE "FAILURE"

\* Mutant of NewState: one retry too many.
NewStateOneMore(row) ==
    CASE Verdict(row.run) = "SUCCESS" -> "SUCCESS"
      [] Verdict(row.run) = "FAILURE" /\ row.retriesLeft >= 0 -> "READY"
      [] OTHER -> "FAILURE"

\* What becomes of the stage of a run that ended.
NewState(row) ==
    CASE Verdict(row.run) = "SUCCESS" -> "SUCCESS"
      [] Verdict(row.run) = "FAILURE" /\ row.retriesLeft > 0 -> "READY"
      [] OTHER -> "FAILURE"

\* There is no rc.log (the run goes to notFinishedRuns).
NotFinished(w, row) ==
    /\ pc[w] = "collect"
    /\ row \in current[w]
    /\ proc[row.run] \in {"alive", "gone"}
    /\ current' = [current EXCEPT ![w] = @ \ {row}]
    /\ UNCHANGED <<tableVars, proc, ready, mine, closing>>

\* rc.log is there and still empty: parseInt throws and the beat is over.
RcLogEmpty(w, row) ==
    /\ pc[w] = "collect"
    /\ row \in current[w]
    /\ proc[row.run] = "writing"
    /\ ForgetExecution(w)
    /\ GoTo(w, "idle")
    /\ UNCHANGED <<clock, tables, aborts, proc>>

\* storeRun: REFRESH_DOWN_TS_RUN with the verdict of rc.log.
StoreResult(w, row) ==
    /\ pc[w] = "collect"
    /\ row \in current[w]
    /\ proc[row.run] \in {"ok", "bad"}
    /\ run' = [run EXCEPT ![row.run].state = Verdict(row.run)]
    /\ closing' = [closing EXCEPT ![w] =
          [stage |-> row.stage, retriesLeft |-> row.retriesLeft, state |-> row.state,
           newState |-> NewState(row)]]
    /\ current' = [current EXCEPT ![w] = @ \ {row}]
    /\ GoTo(w, "closeStage")
    /\ UNCHANGED <<clock, message, job, stage, aborts, proc, ready, mine>>

\* Mutant of CloseStage: compares with another state than the one read.
CloseStageMisses(w) ==
    /\ pc[w] = "closeStage"
    /\ LET c == closing[w] IN CasStage(c.stage, "PREPARE_TO_RUN", c.newState, c.retriesLeft)
    /\ closing' = [closing EXCEPT ![w] = NotClosing]
    /\ GoTo(w, "collect")
    /\ UNCHANGED <<clock, message, job, run, aborts, proc, ready, mine, current>>

\* updateStage from the state of the SELECT to SUCCESS, READY or FAILURE.
CloseStage(w) ==
    /\ pc[w] = "closeStage"
    /\ LET c == closing[w] IN CasStage(c.stage, c.state, c.newState, c.retriesLeft)
    /\ closing' = [closing EXCEPT ![w] = NotClosing]
    /\ GoTo(w, "collect")
    /\ UNCHANGED <<clock, message, job, run, aborts, proc, ready, mine, current>>

\* All runs are looked at; the beat goes on with updateFinishedJobsAndMessages.
EndCollect(w) ==
    /\ pc[w] = "collect"
    /\ current[w] = {}
    /\ GoTo(w, "loadJobs")
    /\ UNCHANGED <<clock, tables, aborts, executionVars>>

ExecutionStep(w) ==
    \/ LoadReady(w)
    \/ \E row \in ready[w] : TakeStage(w, row) \/ TakeMiss(w, row)
    \/ NothingReady(w)
    \/ InsertRun(w)
    \/ Start(w)
    \/ StoreRun(w)
    \/ StoreStage(w)
    \/ LoadCurrent(w)
    \/ \E row \in current[w] :
          NotFinished(w, row) \/ RcLogEmpty(w, row) \/ StoreResult(w, row)
    \/ CloseStage(w)
    \/ EndCollect(w)

\* A crash of the JVM or an exception between two statements (RunHelper.start
\* throws when the template, the directory or the process cannot be made).
ExecutionAborts(w) ==
    /\ pc[w] \in {"pick", "ready", "insertRun", "start", "storeRun", "storeStage",
                  "current", "collect", "closeStage"}
    /\ aborts < MaxAborts
    /\ aborts' = aborts + 1
    /\ ForgetExecution(w)
    /\ GoTo(w, "idle")
    /\ UNCHANGED <<clock, tables, proc>>

------------------------------------------------------------------------------
(* The external processes.                                                 *)

\* run.sh: "echo $? > rc.log" creates the file, then writes it.
ProcessEnds(r) ==
    /\ proc[r] = "alive"
    /\ proc' = [proc EXCEPT ![r] = "writing"]
    /\ UNCHANGED <<tableVars, ready, mine, current, closing>>

ProcessWrites(r) ==
    /\ proc[r] = "writing"
    /\ \E rc \in {"ok", "bad"} : proc' = [proc EXCEPT ![r] = rc]
    /\ UNCHANGED <<tableVars, ready, mine, current, closing>>

\* The process is killed, or its host goes down.
ProcessVanishes(r) ==
    /\ MayVanish
    /\ proc[r] = "alive"
    /\ proc' = [proc EXCEPT ![r] = "gone"]
    /\ UNCHANGED <<tableVars, ready, mine, current, closing>>

ProcessStep(r) == ProcessEnds(r) \/ ProcessWrites(r)

\* Stands for the remainder of the beat and the beginning of the next one,
\* which Completion and MessageExpansion describe.
OtherParts(w) ==
    /\ pc[w] \in {"loadJobs", "idle"}
    /\ GoTo(w, "pick")
    /\ UNCHANGED <<clock, tables, aborts, executionVars>>

Next ==
    \/ \E w \in Workers : ExecutionStep(w) \/ ExecutionAborts(w) \/ OtherParts(w)
    \/ \E r \in 1..Len(run) : ProcessStep(r) \/ ProcessVanishes(r)

Spec == Init /\ [][Next]_vars

\* Every worker's beat goes on, and every process comes to an end.
FairSpec ==
    /\ Spec
    /\ \A w \in Workers : WF_vars(ExecutionStep(w)) /\ WF_vars(OtherParts(w))
    /\ \A r \in 1..MaxRuns + Cardinality(Workers) :
          WF_vars(r \in 1..Len(run) /\ ProcessStep(r))

------------------------------------------------------------------------------
(* Properties.                                                             *)

RunsOf(s) == {r \in 1..Len(run) : run[r].stage = s}

\* A stage never has two processes at work at the same time.
\* (compare-and-set on STAGE_STATE in pickStageToRun and in the collection.)
OneProcessPerStage ==
    \A s \in 1..Len(stage) : \A q, r \in RunsOf(s) :
        proc[q] \in {"alive", "writing"} /\ proc[r] \in {"alive", "writing"} => q = r

\* The database claims no result a process has not delivered: the verdict of
\* a run is that of its rc.log, a stage succeeds by a successful run and
\* fails when its last try did.
ResultsAreReal ==
    /\ \A r \in 1..Len(run) :
        /\ run[r].state = "SUCCESS" => proc[r] = "ok"
        /\ run[r].state = "FAILURE" => proc[r] = "bad"
    /\ \A s \in 1..Len(stage) :
        /\ stage[s].state = "SUCCESS" => \E r \in RunsOf(s) : run[r].state = "SUCCESS"
        /\ stage[s].state = "FAILURE" => /\ \E r \in RunsOf(s) : run[r].state = "FAILURE"
                                         /\ \A r \in RunsOf(s) : proc[r] # "alive"

\* RetryStrategy.maxTries is the number of times a stage is run at most.
RunsWithinMaxTries ==
    \A s \in 1..Len(stage) : Cardinality(RunsOf(s)) <= TemplateOf(s).maxTries

\* Somebody is still going to move the stage on: a worker has it in hand, or
\* its host will find its run among the current ones.
Attended(s) ==
    \/ \E w \in Workers : mine[w].stage = s \/ closing[w].stage = s
    \/ \E r \in RunsOf(s) : run[r].state = "RUNNING"

\* As long as no beat is cut short no stage is left behind half way, also
\* when an unfinished rc.log ends a beat. (the order of storeRun and
\* updateStage around RunHelper.start)
NoOrphanStage ==
    aborts = 0 => \A s \in 1..Len(stage) :
        stage[s].state \in {"PREPARE_TO_RUN", "RUNNING"} => Attended(s)

\* BeatLogic: "Check all processes that finished on host an update ther
\* stages appropriately": a finished process takes its stage out of RUNNING.
FinishedIsCollected ==
    \A r \in 1..MaxRuns :
        (r <= Len(run) /\ proc[r] \in {"ok", "bad"})
            ~> (/\ r <= Len(run)
                /\ stage[run[r].stage].state \notin {"PREPARE_TO_RUN", "RUNNING"})

\* If no beat is cut short and no process vanishes, every stage gets its
\* verdict. (retry and collection in BeatLogic.doLaundryList)
EveryStageEnds ==
    [](aborts = 0 /\ \A r \in 1..Len(run) : proc[r] # "gone")
        => <>(\A s \in 1..Len(stage) : stage[s].state \in {"SUCCESS", "FAILURE"})
==============================================================================
