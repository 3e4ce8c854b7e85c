-------------------------- MODULE StageExecutionProofs --------------------------
(***************************************************************************)
(* The middle of a beat, for any number of hosts, stages and runs, any     *)
(* retries, processes that die without a trace, and beats cut short        *)
(* anywhere, as long as each host has one worker (HostWorkersProofs says   *)
(* when that is so).  The database checks only the state of a stage, and   *)
(* nothing at all when it closes a run; what makes this enough is that a   *)
(* stage in PREPARE_TO_RUN or RUNNING has one owner at a time: the worker  *)
(* that is starting it, then its only open run, which is left to the host  *)
(* of that worker, then the worker that has just closed that run.          *)
(*                                                                         *)
(* ExecutionInv says so.  Where the owner is lost, because a beat is cut   *)
(* short, nobody else takes the stage.                                     *)
(***************************************************************************)
EXTENDS StageExecution, EventTablesProofs

\* The assumption: workers of one host are the same worker.
HostsNotShared == \A v, w \in Workers : HostOf[v] = HostOf[w] => v = w

Starting == {"insertRun", "start", "storeRun", "storeStage"}
InFlight == {"PREPARE_TO_RUN", "RUNNING"}
Open(r) == run[r].state \in InFlight

ReadyRows == [stage : 1..Len(stage), retriesLeft : Nat \ {0}]
HandRows == [stage : 0..Len(stage), retriesLeft : Nat, run : 0..Len(run)]
CurrentRows ==
    [run : 1..Len(run), stage : 1..Len(stage), state : StageState, retriesLeft : Nat]
ClosingRows ==
    [stage : 0..Len(stage), retriesLeft : Nat,
     state : StageState \cup {"none"}, newState : StageState \cup {"none"}]

Shape ==
    /\ TablesOK
    /\ proc \in Seq(ProcState) /\ Len(proc) = Len(run)
    /\ ready \in [Workers -> SUBSET ReadyRows]
    /\ mine \in [Workers -> HandRows]
    /\ current \in [Workers -> SUBSET CurrentRows]
    /\ closing \in [Workers -> ClosingRows]

\* A stage that can be picked has a try left.
TriesLeft ==
    \A s \in 1..Len(stage) :
        stage[s].state \in {"READY", "BLOCKED"} => stage[s].retriesLeft # 0

\* A run is closed with what its process left in rc.log.
ClosedRuns ==
    \A r \in 1..Len(run) :
        /\ run[r].state = "SUCCESS" => proc[r] = "ok"
        /\ run[r].state = "FAILURE" => proc[r] = "bad"

\* An open run keeps its stage in flight, and is its only one.
OpenRuns ==
    /\ \A r \in 1..Len(run) : Open(r) => stage[run[r].stage].state \in InFlight
    /\ \A q, r \in 1..Len(run) :
          Open(q) /\ Open(r) /\ run[q].stage = run[r].stage => q = r

\* A stage is over by the result of a run.
StageResults ==
    \A s \in 1..Len(stage) :
        stage[s].state \in {"SUCCESS", "FAILURE"} =>
            \E r \in 1..Len(run) : run[r].stage = s /\ run[r].state = stage[s].state

\* The worker that is starting a stage: the stage waits for it, and has no
\* open run before its own.
HandHolds(w) ==
    /\ pc[w] \notin Starting => mine[w] = NoStage
    /\ pc[w] \in Starting =>
          mine[w].stage # 0 /\ stage[mine[w].stage].state = "PREPARE_TO_RUN"
    /\ pc[w] = "insertRun" =>
          \A r \in 1..Len(run) : Open(r) => run[r].stage # mine[w].stage
    /\ pc[w] \in Starting \ {"insertRun"} =>
          /\ mine[w].run # 0
          /\ run[mine[w].run].stage = mine[w].stage
          /\ run[mine[w].run].worker = w
          /\ run[mine[w].run].state =
                IF pc[w] = "storeStage" THEN "RUNNING" ELSE "PREPARE_TO_RUN"

\* The worker that has closed a run: its stage is as it was read, without an
\* open run, and gets the state that the result of the run stands for.
ClosingHolds(w) ==
    /\ pc[w] # "closeStage" => closing[w] = NotClosing
    /\ pc[w] = "closeStage" =>
          /\ closing[w].stage # 0
          /\ closing[w].state \in InFlight
          /\ stage[closing[w].stage].state = closing[w].state
          /\ closing[w].newState \in {"SUCCESS", "READY", "FAILURE"}
          /\ closing[w].newState = "READY" => closing[w].retriesLeft # 0
          /\ closing[w].newState # "READY" =>
                \E r \in 1..Len(run) : /\ run[r].stage = closing[w].stage
                                       /\ run[r].state = closing[w].newState
          /\ \A r \in 1..Len(run) : Open(r) => run[r].stage # closing[w].stage

\* A row of allCurrentRuns is not out of date while it is looked at.
RowHolds(w, row) ==
    /\ run[row.run].state = "RUNNING" /\ run[row.run].worker = w
    /\ row.stage = run[row.run].stage
    /\ row.state = stage[row.stage].state
    /\ row.retriesLeft = stage[row.stage].retriesLeft

CurrentHolds(w) == pc[w] \in {"collect", "closeStage"} => \A row \in current[w] : RowHolds(w, row)

\* No stage is in two hands.
OneOwner ==
    \A v, w \in Workers :
        /\ pc[v] \in Starting /\ pc[w] \in Starting /\ mine[v].stage = mine[w].stage => v = w
        /\ pc[v] = "closeStage" /\ pc[w] = "closeStage"
              /\ closing[v].stage = closing[w].stage => v = w
        /\ pc[v] \in Starting /\ pc[w] = "closeStage" => mine[v].stage # closing[w].stage

ExecutionInv ==
    /\ HostsNotShared
    /\ Shape
    /\ TriesLeft /\ ClosedRuns /\ OpenRuns /\ StageResults
    /\ \A w \in Workers : HandHolds(w) /\ ClosingHolds(w) /\ CurrentHolds(w)
    /\ OneOwner
    /\ NoOrphanStage

\* Nothing has run yet.
LEMMA InitSatisfiesInv == HostsNotShared /\ Init => ExecutionInv
<1> SUFFICES ASSUME HostsNotShared, NEW m \in Messages, ExpandedTables({m}, {}),
                    pc = [w \in Workers |-> "pick"], ExecutionInit
             PROVE  ExecutionInv
  BY DEF Init
<1>1. /\ job \in Seq(JobRows) /\ stage \in Seq(StageRows)
      /\ \A s \in 1..Len(stage) :
            stage[s].state \in {"READY", "BLOCKED"} /\ stage[s].retriesLeft # 0
  BY ExpandedRows, FS_Singleton
<1>2. /\ message = [n \in Messages |->
            [state |-> IF n \in {m} THEN "IN_PROCESS" ELSE "none", lock |-> 0]]
      /\ run = <<>> /\ clock = 0 /\ aborts = 0
  BY DEF ExpandedTables
<1>3. TablesOK
  BY <1>1, <1>2, TimeBoundAssumption, AbortBoundAssumption
     DEF TablesOK, JobRows, StageRows, RunRows, MessageState, Phase
<1>4. Len(stage) \in Nat
  BY <1>1
<1>5. Shape
  BY <1>2, <1>3, <1>4 DEF Shape, ExecutionInit, NoStage, NotClosing, HandRows, ClosingRows
<1>6. TriesLeft /\ ClosedRuns /\ OpenRuns /\ StageResults
  BY <1>1, <1>2 DEF TriesLeft, ClosedRuns, OpenRuns, StageResults
<1>7. \A w \in Workers : HandHolds(w) /\ ClosingHolds(w) /\ CurrentHolds(w)
  BY DEF HandHolds, ClosingHolds, CurrentHolds, ExecutionInit, Starting
<1>8. OneOwner
  BY DEF OneOwner, Starting
<1>9. NoOrphanStage
  BY <1>1 DEF NoOrphanStage
<1> QED
  BY <1>5, <1>6, <1>7, <1>8, <1>9 DEF ExecutionInv

------------------------------------------------------------------------------
(* Steps that write no row.                                                *)

\* A worker that reads, gives up a row or leaves its loop, in order or not,
\* owns nothing before or after, unless the beat is cut short.
LEMMA QuietKeepsInv ==
  ASSUME ExecutionInv, NEW w \in Workers, UNCHANGED <<clock, tables, proc>>,
         aborts' \in 0..MaxAborts,
         pc' \in [Workers -> Phase], pc'[w] \notin Starting \cup {"closeStage"},
         \A v \in Workers \ {w} :
            /\ pc'[v] = pc[v] /\ mine'[v] = mine[v] /\ closing'[v] = closing[v]
            /\ current'[v] = current[v],
         mine'[w] = NoStage, closing'[w] = NotClosing,
         ready' \in [Workers -> SUBSET ReadyRows],
         mine' \in [Workers -> HandRows], closing' \in [Workers -> ClosingRows],
         current' \in [Workers -> SUBSET CurrentRows],
         pc'[w] = "collect" => \A row \in current'[w] : RowHolds(w, row),
         aborts' = 0 => aborts = 0 /\ pc[w] \notin Starting \cup {"closeStage"}
  PROVE  ExecutionInv'
<1> USE DEF tables
<1>1. Shape'
  BY DEF ExecutionInv, Shape, TablesOK, ReadyRows, HandRows, CurrentRows, ClosingRows
<1>2. TriesLeft' /\ ClosedRuns' /\ OpenRuns' /\ StageResults'
  BY DEF ExecutionInv, TriesLeft, ClosedRuns, OpenRuns, StageResults, Open
<1>3. ASSUME NEW v \in Workers
      PROVE  (HandHolds(v) /\ ClosingHolds(v) /\ CurrentHolds(v))'
  <2>1. CASE v = w
    BY <2>1 DEF Starting, HandHolds, ClosingHolds, CurrentHolds, RowHolds
  <2>2. CASE v # w
    <3>1. HandHolds(v) /\ ClosingHolds(v) /\ CurrentHolds(v)
      BY DEF ExecutionInv
    <3> QED
      BY <2>2, <3>1 DEF HandHolds, ClosingHolds, CurrentHolds, RowHolds, Open
  <2> QED
    BY <2>1, <2>2
<1>4. OneOwner'
  BY DEF ExecutionInv, OneOwner
<1>5. NoOrphanStage'
  <2> SUFFICES ASSUME aborts' = 0, NEW s \in 1..Len(stage), stage[s].state \in InFlight
               PROVE  Attended(s)'
    BY DEF NoOrphanStage, InFlight
  <2>1. aborts = 0 /\ Attended(s)
    BY DEF ExecutionInv, NoOrphanStage, InFlight
  <2>2. mine[w] = NoStage /\ closing[w] = NotClosing
    BY DEF ExecutionInv, HandHolds, ClosingHolds
  <2> QED
    BY <2>1, <2>2 DEF Attended, RunsOf
<1> QED
  BY <1>1, <1>2, <1>3, <1>4, <1>5 DEF ExecutionInv, HostsNotShared

\* What a worker that owns nothing has in memory.
LEMMA Unoccupied ==
  ASSUME ExecutionInv, NEW w \in Workers, pc[w] \notin Starting \cup {"closeStage"}
  PROVE  mine[w] = NoStage /\ closing[w] = NotClosing
  BY DEF ExecutionInv, HandHolds, ClosingHolds

\* LOAD_READY_STAGES, and the rows another worker has taken.
LEMMA ReadyKeepsInv ==
  ASSUME ExecutionInv, NEW w \in Workers,
         LoadReady(w) \/ (\E row \in ready[w] : TakeMiss(w, row)) \/ NothingReady(w)
  PROVE  ExecutionInv'
<1>1. /\ UNCHANGED <<clock, tables, proc, aborts, mine, closing, current>>
      /\ pc[w] \in {"pick", "ready"} /\ pc' = [pc EXCEPT ![w] = pc'[w]]
      /\ pc'[w] \in {"ready", "current"}
  BY DEF LoadReady, TakeMiss, NothingReady, GoTo, tableVars, ExecutionInv, Shape, TablesOK
<1>2. Shape /\ aborts \in 0..MaxAborts
  BY DEF ExecutionInv, Shape, TablesOK
<1>3. ready' \in [Workers -> SUBSET ReadyRows]
  <2>1. CASE LoadReady(w)
    <3>1. \A s \in 1..Len(stage) : stage[s].state = "READY" =>
            [stage |-> s, retriesLeft |-> stage[s].retriesLeft] \in ReadyRows
      BY <1>2, RowTypes DEF Shape, ExecutionInv, TriesLeft, StageRows, ReadyRows
    <3>2. {[stage |-> s, retriesLeft |-> stage[s].retriesLeft] :
              s \in {t \in 1..Len(stage) : stage[t].state = "READY"}} \subseteq ReadyRows
      BY <3>1
    <3> QED
      BY <1>2, <2>1, <3>2 DEF LoadReady, Shape
  <2>2. CASE ~LoadReady(w)
    BY <1>2, <2>2 DEF TakeMiss, NothingReady, Shape
  <2> QED
    BY <2>1, <2>2
<1>4. mine[w] = NoStage /\ closing[w] = NotClosing
  BY <1>1, Unoccupied DEF Starting
<1>5. /\ pc' \in [Workers -> Phase]
      /\ \A v \in Workers \ {w} : pc'[v] = pc[v]
  BY <1>1, <1>2 DEF Shape, TablesOK, Phase
<1> QED
  BY <1>1, <1>2, <1>3, <1>4, <1>5, QuietKeepsInv DEF Shape, Starting

\* allCurrentRuns finds the open runs of this very worker, as it is the only
\* one of its host, each with a stage in flight.
LEMMA LoadCurrentKeepsInv ==
  ASSUME ExecutionInv, NEW w \in Workers, LoadCurrent(w)
  PROVE  ExecutionInv'
<1>1. /\ UNCHANGED <<clock, tables, proc, aborts, mine, closing, ready>>
      /\ pc[w] = "current" /\ pc' = [pc EXCEPT ![w] = "collect"]
  BY DEF LoadCurrent, GoTo
<1>2. Shape /\ aborts \in 0..MaxAborts
  BY DEF ExecutionInv, Shape, TablesOK
<1> DEFINE Mine == {q \in 1..Len(run) :
                       run[q].state = "RUNNING" /\ HostOf[run[q].worker] = HostOf[w]}
           Row(r) == [run |-> r, stage |-> run[r].stage, state |-> stage[run[r].stage].state,
                      retriesLeft |-> stage[run[r].stage].retriesLeft]
<1>3. ASSUME NEW r \in Mine
      PROVE  Row(r) \in CurrentRows /\ RowHolds(w, Row(r))
  <2>1. /\ run[r].stage \in 1..Len(stage) /\ run[r].worker \in Workers
        /\ stage[run[r].stage] \in StageRows
    BY <1>2, RunTypes, RowTypes DEF Shape
  <2>2. run[r].worker = w
    BY <2>1 DEF ExecutionInv, HostsNotShared
  <2> QED
    BY <2>1, <2>2 DEF StageRows, CurrentRows, RowHolds
<1>4. current' = [current EXCEPT ![w] = {Row(r) : r \in Mine}]
  BY DEF LoadCurrent
<1> HIDE DEF Row, Mine
<1>5. /\ current' \in [Workers -> SUBSET CurrentRows]
      /\ \A row \in current'[w] : RowHolds(w, row)
      /\ \A v \in Workers \ {w} : current'[v] = current[v]
  BY <1>2, <1>3, <1>4 DEF Shape
<1>6. mine[w] = NoStage /\ closing[w] = NotClosing
  BY <1>1, Unoccupied DEF Starting
<1>7. /\ pc' \in [Workers -> Phase] /\ pc'[w] = "collect"
      /\ \A v \in Workers \ {w} : pc'[v] = pc[v]
  BY <1>1, <1>2 DEF Shape, TablesOK, Phase
<1> QED
  BY <1>1, <1>2, <1>5, <1>6, <1>7, QuietKeepsInv DEF Shape, Starting

\* Runs that are not finished, an rc.log that is still empty, the end of a
\* beat, the rest of it, and a beat that is cut short.
LEMMA LeaveKeepsInv ==
  ASSUME ExecutionInv, NEW w \in Workers,
         \/ \E row \in current[w] : NotFinished(w, row) \/ RcLogEmpty(w, row)
         \/ EndCollect(w) \/ OtherParts(w) \/ ExecutionAborts(w)
  PROVE  ExecutionInv'
<1>1. Shape /\ aborts \in 0..MaxAborts /\ MaxAborts \in Nat
  BY AbortBoundAssumption DEF ExecutionInv, Shape, TablesOK
<1>2. /\ UNCHANGED <<clock, tables, proc>> /\ aborts' \in 0..MaxAborts
      /\ aborts' = 0 => aborts = 0 /\ pc[w] \notin Starting \cup {"closeStage"}
  BY <1>1 DEF NotFinished, RcLogEmpty, EndCollect, OtherParts, ExecutionAborts, tableVars,
              executionVars, Starting
<1>3. /\ pc' \in [Workers -> Phase]
      /\ pc'[w] \notin Starting \cup {"closeStage"}
      /\ pc'[w] = "collect" => pc[w] = "collect"
      /\ \A v \in Workers \ {w} : pc'[v] = pc[v]
  BY <1>1 DEF NotFinished, RcLogEmpty, EndCollect, OtherParts, ExecutionAborts, tableVars,
              GoTo, Shape, TablesOK, Phase, Starting
<1>4. ForgetExecution(w) \/ pc[w] \notin Starting \cup {"closeStage"}
  BY DEF NotFinished, RcLogEmpty, EndCollect, OtherParts, ExecutionAborts, Starting
<1>5. \/ ForgetExecution(w)
      \/ UNCHANGED <<ready, mine, closing>> /\ current' = [current EXCEPT ![w] = current'[w]]
         /\ current'[w] \subseteq current[w]
  BY <1>1 DEF NotFinished, RcLogEmpty, EndCollect, OtherParts, ExecutionAborts,
              executionVars, Shape
<1>6. /\ ready' \in [Workers -> SUBSET ReadyRows]
      /\ mine' \in [Workers -> HandRows] /\ closing' \in [Workers -> ClosingRows]
      /\ current' \in [Workers -> SUBSET CurrentRows]
      /\ \A v \in Workers \ {w} : mine'[v] = mine[v] /\ closing'[v] = closing[v]
                                  /\ current'[v] = current[v]
      /\ mine'[w] = NoStage /\ closing'[w] = NotClosing
      /\ current'[w] \subseteq current[w]
  <2>1. CASE ForgetExecution(w)
    <3>1. NoStage \in HandRows /\ NotClosing \in ClosingRows
      BY <1>1, RowTypes DEF Shape, NoStage, NotClosing, HandRows, ClosingRows, TablesOK, RunRows
    <3> QED
      BY <1>1, <2>1, <3>1 DEF ForgetExecution, Shape
  <2>2. CASE ~ForgetExecution(w)
    BY <1>1, <1>4, <1>5, <2>2, Unoccupied DEF Shape
  <2> QED
    BY <2>1, <2>2
<1>7. pc'[w] = "collect" => \A row \in current'[w] : RowHolds(w, row)
  BY <1>3, <1>6 DEF ExecutionInv, CurrentHolds
<1> QED
  BY <1>2, <1>3, <1>6, <1>7, QuietKeepsInv

------------------------------------------------------------------------------
(* The processes.                                                          *)

\* Only the process of an open run changes.
LEMMA ProcessKeepsInv ==
  ASSUME ExecutionInv, NEW r \in 1..Len(run), NEW new \in ProcState,
         proc' = [proc EXCEPT ![r] = new], run[r].state \notin {"SUCCESS", "FAILURE"},
         UNCHANGED <<tables, clock, aborts, ready, mine, current, closing>>,
         \/ UNCHANGED pc
         \/ \E w \in Workers : pc[w] = "start" /\ pc' = [pc EXCEPT ![w] = "storeRun"]
  PROVE  ExecutionInv'
<1> USE DEF tables
<1>1. pc' \in [Workers -> Phase]
      /\ \A w \in Workers :
            \/ pc'[w] = pc[w]
            \/ pc[w] = "start" /\ pc'[w] = "storeRun"
  BY DEF ExecutionInv, Shape, TablesOK, Phase
<1>2. Shape'
  <2>1. proc' \in Seq(ProcState) /\ Len(proc') = Len(run)
    BY DEF ExecutionInv, Shape
  <2> QED
    BY <1>1, <2>1 DEF ExecutionInv, Shape, TablesOK, ReadyRows, HandRows, CurrentRows,
                      ClosingRows
<1>3. ClosedRuns'
  BY DEF ExecutionInv, Shape, ClosedRuns
<1>4. TriesLeft' /\ OpenRuns' /\ StageResults'
  BY DEF ExecutionInv, TriesLeft, OpenRuns, StageResults, Open
<1>5. ASSUME NEW w \in Workers
      PROVE  (HandHolds(w) /\ ClosingHolds(w) /\ CurrentHolds(w))'
  <2>1. HandHolds(w) /\ ClosingHolds(w) /\ CurrentHolds(w)
    BY DEF ExecutionInv
  <2> QED
    BY <1>1, <2>1 DEF HandHolds, ClosingHolds, CurrentHolds, RowHolds, Open, Starting
<1>6. OneOwner'
  BY <1>1 DEF ExecutionInv, OneOwner, Starting
<1>7. NoOrphanStage'
  BY DEF ExecutionInv, NoOrphanStage, Attended, RunsOf
<1> QED
  BY <1>2, <1>3, <1>4, <1>5, <1>6, <1>7 DEF ExecutionInv, HostsNotShared

\* RunHelper.start, and what the process does afterwards.
LEMMA ProcessStepsKeepInv ==
  ASSUME ExecutionInv,
         \/ \E w \in Workers : Start(w)
         \/ \E r \in 1..Len(run) : ProcessStep(r) \/ ProcessVanishes(r)
  PROVE  ExecutionInv'
<1>1. ASSUME NEW w \in Workers, Start(w)
      PROVE  ExecutionInv'
  <2>1. /\ HandHolds(w) /\ mine[w] \in HandRows /\ Len(run) \in Nat
    BY DEF ExecutionInv, Shape, TablesOK
  <2>2. /\ mine[w].run \in 1..Len(run) /\ run[mine[w].run].state = "PREPARE_TO_RUN"
    BY <1>1, <2>1 DEF HandHolds, HandRows, Start, Starting
  <2>3. "alive" \in ProcState
    BY DEF ProcState
  <2> QED
    BY <1>1, <2>2, <2>3, ProcessKeepsInv DEF Start, GoTo, tables
<1>2. ASSUME NEW r \in 1..Len(run), ProcessStep(r) \/ ProcessVanishes(r)
      PROVE  ExecutionInv'
  <2>1. run[r].state \notin {"SUCCESS", "FAILURE"}
    BY <1>2 DEF ProcessStep, ProcessEnds, ProcessWrites, ProcessVanishes, ExecutionInv, ClosedRuns
  <2>2. \E new \in ProcState : proc' = [proc EXCEPT ![r] = new]
    BY <1>2 DEF ProcessStep, ProcessEnds, ProcessWrites, ProcessVanishes, ProcState
  <2>3. UNCHANGED <<tables, clock, aborts, ready, mine, current, closing, pc>>
    BY <1>2 DEF ProcessStep, ProcessEnds, ProcessWrites, ProcessVanishes, tableVars
  <2> QED
    BY <2>1, <2>2, <2>3, ProcessKeepsInv
<1> QED
  BY <1>1, <1>2

------------------------------------------------------------------------------
(* Steps that write a stage or a run.                                      *)

\* The shape of the tables after a write to a stage.
LEMMA StageWriteShape ==
  ASSUME Shape, stage' \in Seq(StageRows), Len(stage') = Len(stage),
         UNCHANGED <<clock, message, job, run, aborts, proc>>,
         pc' \in [Workers -> Phase], ready' \in [Workers -> SUBSET ReadyRows],
         mine' \in [Workers -> HandRows], closing' \in [Workers -> ClosingRows],
         UNCHANGED current
  PROVE  Shape'
<1>1. /\ StageRows' = StageRows /\ RunRows' = RunRows /\ ReadyRows' = ReadyRows
      /\ HandRows' = HandRows /\ CurrentRows' = CurrentRows /\ ClosingRows' = ClosingRows
  BY DEF StageRows, RunRows, ReadyRows, HandRows, CurrentRows, ClosingRows
<1>2. TablesOK'
  BY <1>1, RowTypes DEF Shape, TablesOK, StageRows, RunRows
<1> QED
  BY <1>1, <1>2 DEF Shape

\* A stage is READY only when nobody owns it: who wins the compare-and-set is
\* its owner.
LEMMA TakeStageKeepsInv ==
  ASSUME ExecutionInv, NEW w \in Workers, NEW row \in ready[w], TakeStage(w, row)
  PROVE  ExecutionInv'
<1> DEFINE s == row.stage
<1>1. Shape /\ TablesOK /\ row \in ReadyRows /\ s \in 1..Len(stage) /\ Len(stage) \in Nat
      /\ row.retriesLeft - 1 \in Nat /\ row.retriesLeft \in Nat
  BY RowTypes DEF ExecutionInv, Shape, ReadyRows
<1>2. /\ stage[s].state = "READY" /\ pc[w] = "ready"
      /\ UNCHANGED <<clock, message, job, run, aborts, proc, current, closing>>
  BY DEF TakeStage
<1>3. /\ stage' \in Seq(StageRows) /\ Len(stage') = Len(stage)
      /\ \A t \in 1..Len(stage) : t # s => stage'[t] = stage[t]
      /\ stage'[s].state = "PREPARE_TO_RUN"
  BY <1>1, <1>2, CasStageWrites DEF TakeStage, StageState
<1>4. /\ pc' \in [Workers -> Phase] /\ pc'[w] = "insertRun"
      /\ mine' \in [Workers -> HandRows] /\ mine'[w].stage = s
      /\ ready' \in [Workers -> SUBSET ReadyRows]
      /\ \A v \in Workers \ {w} : pc'[v] = pc[v] /\ mine'[v] = mine[v]
  <2>1. [stage |-> s, retriesLeft |-> row.retriesLeft - 1, run |-> 0] \in HandRows
    BY <1>1, RowTypes DEF HandRows, Shape, TablesOK
  <2> QED
    BY <1>1, <2>1 DEF TakeStage, GoTo, Shape, TablesOK, Phase
<1>5. Shape'
  <2>1. closing' \in [Workers -> ClosingRows]
    BY <1>1, <1>2 DEF Shape
  <2> QED
    BY <1>1, <1>2, <1>3, <1>4, <2>1, StageWriteShape
<1>6. \A r \in 1..Len(run) : Open(r) => run[r].stage # s
  BY <1>2 DEF ExecutionInv, OpenRuns, InFlight
<1>7. \A v \in Workers : /\ pc[v] \in Starting => mine[v].stage # s
                         /\ pc[v] = "closeStage" => closing[v].stage # s
  BY <1>2 DEF ExecutionInv, HandHolds, ClosingHolds, InFlight
<1>8. TriesLeft' /\ ClosedRuns' /\ OpenRuns' /\ StageResults'
  <2>1. TriesLeft'
    BY <1>3 DEF ExecutionInv, TriesLeft
  <2>2. ClosedRuns'
    BY <1>2 DEF ExecutionInv, ClosedRuns
  <2>3. \A r \in 1..Len(run) : run[r].stage \in 1..Len(stage)
    BY <1>1, RunTypes
  <2>4. OpenRuns'
    BY <1>2, <1>3, <1>6, <2>3 DEF ExecutionInv, OpenRuns, Open
  <2>5. StageResults'
    BY <1>2, <1>3 DEF ExecutionInv, StageResults
  <2> QED
    BY <2>1, <2>2, <2>4, <2>5
<1>9. ASSUME NEW v \in Workers
      PROVE  (HandHolds(v) /\ ClosingHolds(v) /\ CurrentHolds(v))'
  <2>1. HandHolds(v) /\ ClosingHolds(v) /\ CurrentHolds(v) /\ mine[v] \in HandRows
        /\ closing[v] \in ClosingRows /\ current[v] \subseteq CurrentRows
    BY <1>1 DEF ExecutionInv, Shape
  <2>2. HandHolds(v)'
    <3>1. CASE v = w
      BY <1>1, <1>2, <1>3, <1>4, <1>6, <3>1 DEF HandHolds, Open, Starting
    <3>2. CASE v # w
      BY <1>2, <1>3, <1>4, <1>7, <2>1, <3>2 DEF HandHolds, HandRows, Open, Starting
    <3> QED
      BY <3>1, <3>2
  <2>3. ClosingHolds(v)'
    <3>1. pc'[v] = "closeStage" <=> pc[v] = "closeStage"
      BY <1>2, <1>4
    <3> QED
      BY <1>2, <1>3, <1>7, <2>1, <3>1 DEF ClosingHolds, ClosingRows, Open
  <2>4. CurrentHolds(v)'
    <3> SUFFICES ASSUME pc'[v] \in {"collect", "closeStage"}, NEW r \in current[v]
                 PROVE  RowHolds(v, r)'
      BY <1>2 DEF CurrentHolds
    <3>1. RowHolds(v, r) /\ r \in CurrentRows
      BY <1>2, <1>4, <2>1 DEF CurrentHolds
    <3>2. r.run \in 1..Len(run) /\ r.stage \in 1..Len(stage) /\ r.stage # s
      BY <1>6, <3>1 DEF CurrentRows, RowHolds, Open, InFlight
    <3> QED
      BY <1>2, <1>3, <3>1, <3>2 DEF RowHolds
  <2> QED
    BY <2>2, <2>3, <2>4
<1>10. OneOwner'
  BY <1>2, <1>4, <1>7 DEF ExecutionInv, OneOwner, Starting
<1>11. NoOrphanStage'
  <2> SUFFICES ASSUME aborts = 0, NEW t \in 1..Len(stage), stage'[t].state \in InFlight
               PROVE  Attended(t)'
    BY <1>2, <1>3 DEF NoOrphanStage, InFlight
  <2>1. CASE t = s
    BY <1>4, <2>1 DEF Attended
  <2>2. CASE t # s
    <3>1. Attended(t)
      BY <1>3, <2>2 DEF ExecutionInv, NoOrphanStage, InFlight
    <3>2. mine[w] = NoStage
      BY <1>2, Unoccupied DEF Starting
    <3> QED
      BY <1>2, <1>4, <3>1, <3>2 DEF Attended, RunsOf, NoStage
  <2> QED
    BY <2>1, <2>2
<1> QED
  BY <1>5, <1>8, <1>9, <1>10, <1>11 DEF ExecutionInv, HostsNotShared

\* INSERT_RUN: the first open run of the stage in hand, which no worker that
\* closes a run has.
LEMMA InsertRunKeepsInv ==
  ASSUME ExecutionInv, NEW w \in Workers, InsertRun(w)
  PROVE  ExecutionInv'
<1> DEFINE s == mine[w].stage
           n == Len(run) + 1
           new == [stage |-> s, worker |-> w, state |-> "PREPARE_TO_RUN"]
<1>1. /\ Shape /\ TablesOK /\ run \in Seq(RunRows) /\ Len(run) \in Nat /\ Len(stage) \in Nat
      /\ mine[w] \in HandRows /\ pc[w] = "insertRun"
  BY RowTypes DEF ExecutionInv, Shape, InsertRun
<1>2. /\ s \in 1..Len(stage) /\ stage[s].state = "PREPARE_TO_RUN"
      /\ \A r \in 1..Len(run) : Open(r) => run[r].stage # s
  BY <1>1 DEF ExecutionInv, HandHolds, Starting, HandRows
<1>3. new \in RunRows
  BY <1>2 DEF RunRows, RunState
<1>4. /\ run' \in Seq(RunRows) /\ Len(run') = n /\ run'[n] = new
      /\ \A r \in 1..Len(run) : run'[r] = run[r]
  BY <1>1, <1>3 DEF InsertRun
<1>5. /\ proc' \in Seq(ProcState) /\ Len(proc') = n
      /\ \A r \in 1..Len(run) : proc'[r] = proc[r]
  BY <1>1 DEF InsertRun, Shape, ProcState
<1>6. /\ UNCHANGED <<clock, message, job, stage, aborts, ready, current, closing>>
      /\ pc' = [pc EXCEPT ![w] = "start"]
      /\ mine' = [mine EXCEPT ![w] = [mine[w] EXCEPT !.run = n]]
  BY <1>1, <1>4 DEF InsertRun, GoTo
<1>7. /\ pc' \in [Workers -> Phase] /\ pc'[w] = "start"
      /\ mine'[w] = [mine[w] EXCEPT !.run = n]
      /\ mine'[w].stage = s /\ mine'[w].run = n
      /\ mine'[w] \in [stage : 0..Len(stage), retriesLeft : Nat, run : 0..n]
      /\ \A v \in Workers \ {w} : pc'[v] = pc[v] /\ mine'[v] = mine[v]
      /\ \A v \in Workers : mine'[v].stage = mine[v].stage
  <2> DEFINE hand == [mine[w] EXCEPT !.run = n]
  <2>1. /\ hand.stage = s /\ hand.run = n
        /\ hand \in [stage : 0..Len(stage), retriesLeft : Nat, run : 0..n]
    BY <1>1 DEF HandRows
  <2>2. mine \in [Workers -> HandRows] /\ pc \in [Workers -> Phase] /\ "start" \in Phase
    BY <1>1 DEF Shape, TablesOK, Phase
  <2> HIDE DEF hand
  <2>3. mine' = [mine EXCEPT ![w] = hand]
    BY <1>6 DEF hand
  <2>4. /\ mine'[w] = hand /\ \A v \in Workers \ {w} : mine'[v] = mine[v]
        /\ pc' \in [Workers -> Phase] /\ pc'[w] = "start"
        /\ \A v \in Workers \ {w} : pc'[v] = pc[v]
    BY <1>6, <2>2, <2>3
  <2>5. \A v \in Workers : mine'[v].stage = mine[v].stage
    BY <2>1, <2>4
  <2> QED
    BY <2>1, <2>4, <2>5 DEF hand
<1>8. Shape'
  <2>1. /\ StageRows' = StageRows /\ RunRows' = RunRows /\ ReadyRows' = ReadyRows
        /\ ClosingRows' = ClosingRows
    BY <1>6 DEF StageRows, RunRows, ReadyRows, ClosingRows
  <2>2. TablesOK'
    BY <1>1, <1>4, <1>6, <1>7, <2>1 DEF TablesOK, StageRows, RunRows
  <2>3. HandRows \subseteq HandRows' /\ CurrentRows \subseteq CurrentRows'
    BY <1>1, <1>4, <1>6 DEF HandRows, CurrentRows
  <2>4. mine' \in [Workers -> HandRows']
    <3>1. mine'[w] \in HandRows'
      BY <1>4, <1>6, <1>7 DEF HandRows
    <3>2. \A v \in Workers \ {w} : mine'[v] \in HandRows'
      BY <1>1, <1>7, <2>3 DEF Shape
    <3> QED
      BY <1>1, <1>6, <3>1, <3>2 DEF Shape
  <2>5. current' \in [Workers -> SUBSET CurrentRows']
    BY <1>1, <1>6, <2>3 DEF Shape
  <2> QED
    BY <1>1, <1>4, <1>5, <1>6, <2>1, <2>2, <2>4, <2>5 DEF Shape
<1>9. 1..Len(run') = 1..Len(run) \cup {n} /\ n \notin 1..Len(run)
  BY <1>1, <1>4
<1>10. TriesLeft' /\ ClosedRuns' /\ OpenRuns' /\ StageResults'
  <2>1. TriesLeft'
    BY <1>6 DEF ExecutionInv, TriesLeft
  <2>2. ClosedRuns'
    BY <1>4, <1>5, <1>9 DEF ExecutionInv, ClosedRuns
  <2>3. OpenRuns'
    BY <1>2, <1>4, <1>6, <1>9 DEF ExecutionInv, OpenRuns, Open, InFlight
  <2>4. StageResults'
    BY <1>4, <1>6, <1>9 DEF ExecutionInv, StageResults
  <2> QED
    BY <2>1, <2>2, <2>3, <2>4
<1>11. ASSUME NEW v \in Workers
       PROVE  (HandHolds(v) /\ ClosingHolds(v) /\ CurrentHolds(v))'
  <2>1. HandHolds(v) /\ ClosingHolds(v) /\ CurrentHolds(v) /\ mine[v] \in HandRows
        /\ current[v] \subseteq CurrentRows
    BY <1>1 DEF ExecutionInv, Shape
  <2>2. HandHolds(v)'
    <3>1. CASE v = w
      BY <1>1, <1>2, <1>4, <1>6, <1>7, <3>1 DEF HandHolds, Starting
    <3>2. CASE v # w
      <4>1. pc[v] \in Starting => mine[v].stage # s
        BY <1>1, <3>2 DEF ExecutionInv, OneOwner, Starting
      <4> QED
        BY <1>4, <1>6, <1>7, <1>9, <2>1, <3>2, <4>1 DEF HandHolds, HandRows, Open, Starting
    <3> QED
      BY <3>1, <3>2
  <2>3. ClosingHolds(v)'
    <3>1. pc[v] = "closeStage" => s # closing[v].stage
      BY <1>1 DEF ExecutionInv, OneOwner, Starting
    <3>2. pc'[v] = "closeStage" <=> pc[v] = "closeStage"
      BY <1>1, <1>7
    <3> QED
      BY <1>4, <1>6, <1>9, <2>1, <3>1, <3>2 DEF ClosingHolds, Open
  <2>4. CurrentHolds(v)'
    <3>1. pc'[v] \in {"collect", "closeStage"} => pc[v] \in {"collect", "closeStage"}
      BY <1>7
    <3> QED
      BY <1>4, <1>6, <2>1, <3>1 DEF CurrentHolds, RowHolds, CurrentRows
  <2> QED
    BY <2>2, <2>3, <2>4
<1>12. OneOwner'
  BY <1>1, <1>6, <1>7 DEF ExecutionInv, OneOwner, Starting
<1>13. NoOrphanStage'
  <2> SUFFICES ASSUME aborts = 0, NEW t \in 1..Len(stage), stage[t].state \in InFlight
               PROVE  Attended(t)'
    BY <1>6 DEF NoOrphanStage, InFlight
  <2>1. Attended(t)
    BY DEF ExecutionInv, NoOrphanStage, InFlight
  <2> QED
    BY <1>4, <1>6, <1>7, <1>9, <2>1 DEF Attended, RunsOf
<1> QED
  BY <1>8, <1>10, <1>11, <1>12, <1>13 DEF ExecutionInv, HostsNotShared

\* The shape of the tables after a write to a run.
LEMMA RunWriteShape ==
  ASSUME Shape, run' \in Seq(RunRows), Len(run') = Len(run),
         UNCHANGED <<clock, message, job, stage, aborts, proc>>,
         pc' \in [Workers -> Phase], UNCHANGED <<ready, mine>>,
         current' \in [Workers -> SUBSET CurrentRows], closing' \in [Workers -> ClosingRows]
  PROVE  Shape'
<1>1. /\ StageRows' = StageRows /\ RunRows' = RunRows /\ ReadyRows' = ReadyRows
      /\ HandRows' = HandRows /\ CurrentRows' = CurrentRows /\ ClosingRows' = ClosingRows
  BY DEF StageRows, RunRows, ReadyRows, HandRows, CurrentRows, ClosingRows
<1>2. TablesOK'
  BY <1>1, RowTypes DEF Shape, TablesOK, StageRows, RunRows
<1> QED
  BY <1>1, <1>2 DEF Shape

\* UPDATE_RUN: the run stays open, and from here on the host attends to it.
LEMMA StoreRunKeepsInv ==
  ASSUME ExecutionInv, NEW w \in Workers, StoreRun(w)
  PROVE  ExecutionInv'
<1> DEFINE i == mine[w].run
           row == [run[i] EXCEPT !.state = "RUNNING"]
<1>1. /\ Shape /\ TablesOK /\ run \in Seq(RunRows) /\ Len(run) \in Nat
      /\ mine[w] \in HandRows /\ pc[w] = "storeRun"
  BY RowTypes DEF ExecutionInv, Shape, StoreRun
<1>2. /\ i \in 1..Len(run) /\ run[i].state = "PREPARE_TO_RUN" /\ run[i].worker = w
      /\ run[i].stage = mine[w].stage /\ run[i] \in RunRows
  BY <1>1, RunTypes DEF ExecutionInv, HandHolds, Starting, HandRows
<1>3. /\ row \in RunRows /\ row.stage = run[i].stage /\ row.worker = w /\ row.state = "RUNNING"
  BY <1>2 DEF RunRows, RunState
<1>4. run' = [run EXCEPT ![i] = row]
  BY DEF StoreRun
<1>5. /\ UNCHANGED <<clock, message, job, stage, aborts, proc, ready, mine, current, closing>>
      /\ pc' = [pc EXCEPT ![w] = "storeStage"]
  BY DEF StoreRun, GoTo, executionVars
<1> HIDE DEF row
<1>6. /\ run' \in Seq(RunRows) /\ Len(run') = Len(run) /\ run'[i] = row
      /\ \A r \in 1..Len(run) : r # i => run'[r] = run[r]
  BY <1>1, <1>2, <1>3, <1>4, UpdateRow
<1>7. /\ pc' \in [Workers -> Phase] /\ pc'[w] = "storeStage"
      /\ \A v \in Workers \ {w} : pc'[v] = pc[v]
  BY <1>1, <1>5 DEF Shape, TablesOK, Phase
<1>8. \A r \in 1..Len(run) : /\ run'[r].stage = run[r].stage /\ run'[r].worker = run[r].worker
                             /\ Open(r)' <=> Open(r)
                             /\ r # i => run'[r].state = run[r].state
                             /\ run[r].state # "PREPARE_TO_RUN" => run'[r].state = run[r].state
  BY <1>2, <1>3, <1>6 DEF Open, InFlight
<1>9. Shape'
  BY <1>1, <1>5, <1>6, <1>7, RunWriteShape DEF Shape
<1>10. TriesLeft' /\ ClosedRuns' /\ OpenRuns' /\ StageResults'
  <2>1. TriesLeft'
    BY <1>5 DEF ExecutionInv, TriesLeft
  <2>2. ClosedRuns'
    BY <1>3, <1>5, <1>6 DEF ExecutionInv, ClosedRuns
  <2>3. OpenRuns'
    BY <1>5, <1>6, <1>8 DEF ExecutionInv, OpenRuns
  <2>4. StageResults'
    BY <1>5, <1>6, <1>8 DEF ExecutionInv, StageResults
  <2> QED
    BY <2>1, <2>2, <2>3, <2>4
<1>11. ASSUME NEW v \in Workers
       PROVE  (HandHolds(v) /\ ClosingHolds(v) /\ CurrentHolds(v))'
  <2>1. HandHolds(v) /\ ClosingHolds(v) /\ CurrentHolds(v) /\ mine[v] \in HandRows
        /\ current[v] \subseteq CurrentRows
    BY <1>1 DEF ExecutionInv, Shape
  <2>2. HandHolds(v)'
    <3>1. CASE v = w
      BY <1>1, <1>2, <1>3, <1>5, <1>6, <1>7, <2>1, <3>1 DEF HandHolds, Starting
    <3>2. CASE v # w
      <4>1. pc[v] \in Starting \ {"insertRun"} => mine[v].run \in 1..Len(run) \ {i}
        BY <1>1, <1>2, <2>1, <3>2 DEF HandHolds, HandRows
      <4> QED
        BY <1>5, <1>6, <1>7, <1>8, <2>1, <3>2, <4>1 DEF HandHolds, Starting
    <3> QED
      BY <3>1, <3>2
  <2>3. ClosingHolds(v)'
    <3>1. pc'[v] = "closeStage" <=> pc[v] = "closeStage"
      BY <1>1, <1>7
    <3> QED
      BY <1>5, <1>6, <1>8, <2>1, <3>1 DEF ClosingHolds
  <2>4. CurrentHolds(v)'
    <3>1. pc'[v] \in {"collect", "closeStage"} => pc[v] \in {"collect", "closeStage"}
      BY <1>7
    <3> QED
      BY <1>5, <1>8, <2>1, <3>1 DEF CurrentHolds, RowHolds, CurrentRows
  <2> QED
    BY <2>2, <2>3, <2>4
<1>12. OneOwner'
  BY <1>1, <1>5, <1>7 DEF ExecutionInv, OneOwner, Starting
<1>13. NoOrphanStage'
  <2> SUFFICES ASSUME aborts = 0, NEW t \in 1..Len(stage), stage[t].state \in InFlight
               PROVE  Attended(t)'
    BY <1>5 DEF NoOrphanStage, InFlight
  <2>1. Attended(t)
    BY DEF ExecutionInv, NoOrphanStage, InFlight
  <2> QED
    BY <1>5, <1>6, <1>8, <2>1 DEF Attended, RunsOf
<1> QED
  BY <1>9, <1>10, <1>11, <1>12, <1>13 DEF ExecutionInv, HostsNotShared

\* StoreStage: only the worker that is starting the stage gets here with it.
LEMMA StoreStageKeepsInv ==
  ASSUME ExecutionInv, NEW w \in Workers, StoreStage(w)
  PROVE  ExecutionInv'
<1> DEFINE s == mine[w].stage
           i == mine[w].run
<1>1. /\ Shape /\ TablesOK /\ Len(stage) \in Nat /\ Len(run) \in Nat
      /\ mine[w] \in HandRows /\ mine[w].retriesLeft \in Nat /\ pc[w] = "storeStage"
  BY RowTypes DEF ExecutionInv, Shape, StoreStage, HandRows
<1>2. /\ s \in 1..Len(stage) /\ stage[s].state = "PREPARE_TO_RUN"
      /\ i \in 1..Len(run) /\ run[i].stage = s /\ run[i].worker = w /\ run[i].state = "RUNNING"
  BY <1>1 DEF ExecutionInv, HandHolds, Starting, HandRows
<1>3. /\ stage' \in Seq(StageRows) /\ Len(stage') = Len(stage)
      /\ \A t \in 1..Len(stage) : t # s => stage'[t] = stage[t]
      /\ stage'[s].state = "RUNNING"
  <2>1. CasStage(s, "PREPARE_TO_RUN", "RUNNING", mine[w].retriesLeft)
    BY DEF StoreStage
  <2>2. "RUNNING" \in StageState
    BY DEF StageState
  <2> QED
    BY <1>1, <1>2, <2>1, <2>2, CasStageWrites
<1>4. /\ UNCHANGED <<clock, message, job, run, aborts, proc, ready, current, closing>>
      /\ pc' = [pc EXCEPT ![w] = "current"] /\ mine' = [mine EXCEPT ![w] = NoStage]
  BY DEF StoreStage, GoTo
<1>5. /\ pc' \in [Workers -> Phase] /\ pc'[w] = "current"
      /\ mine' \in [Workers -> HandRows] /\ mine'[w] = NoStage
      /\ \A v \in Workers \ {w} : pc'[v] = pc[v] /\ mine'[v] = mine[v]
  <2>1. NoStage \in HandRows
    BY <1>1 DEF NoStage, HandRows
  <2> QED
    BY <1>1, <1>4, <2>1 DEF Shape, TablesOK, Phase
<1>6. Shape'
  BY <1>1, <1>3, <1>4, <1>5, StageWriteShape DEF Shape
<1>7. \A r \in 1..Len(run) : Open(r) /\ run[r].stage = s => r = i
  BY <1>2 DEF ExecutionInv, OpenRuns, Open, InFlight
<1>8. \A v \in Workers : /\ v # w /\ pc[v] \in Starting => mine[v].stage # s
                         /\ pc[v] = "closeStage" => closing[v].stage # s
  BY <1>1 DEF ExecutionInv, OneOwner, Starting
<1>9. TriesLeft' /\ ClosedRuns' /\ OpenRuns' /\ StageResults'
  <2>1. TriesLeft'
    BY <1>3 DEF ExecutionInv, TriesLeft
  <2>2. ClosedRuns'
    BY <1>4 DEF ExecutionInv, ClosedRuns
  <2>3. \A r \in 1..Len(run) : run[r].stage \in 1..Len(stage)
    BY <1>1, RunTypes
  <2>4. OpenRuns'
    BY <1>3, <1>4, <2>3 DEF ExecutionInv, OpenRuns, Open, InFlight
  <2>5. StageResults'
    BY <1>3, <1>4 DEF ExecutionInv, StageResults
  <2> QED
    BY <2>1, <2>2, <2>4, <2>5
<1>10. ASSUME NEW v \in Workers
       PROVE  (HandHolds(v) /\ ClosingHolds(v) /\ CurrentHolds(v))'
  <2>1. HandHolds(v) /\ ClosingHolds(v) /\ CurrentHolds(v) /\ mine[v] \in HandRows
        /\ closing[v] \in ClosingRows /\ current[v] \subseteq CurrentRows
    BY <1>1 DEF ExecutionInv, Shape
  <2>2. HandHolds(v)'
    <3>1. CASE v = w
      BY <1>5, <3>1 DEF HandHolds, Starting
    <3>2. CASE v # w
      BY <1>3, <1>4, <1>5, <1>8, <2>1, <3>2 DEF HandHolds, HandRows, Open, Starting
    <3> QED
      BY <3>1, <3>2
  <2>3. ClosingHolds(v)'
    <3>1. pc'[v] = "closeStage" <=> pc[v] = "closeStage"
      BY <1>1, <1>5
    <3> QED
      BY <1>3, <1>4, <1>8, <2>1, <3>1 DEF ClosingHolds, ClosingRows, Open
  <2>4. CurrentHolds(v)'
    <3> SUFFICES ASSUME pc'[v] \in {"collect", "closeStage"}, NEW r \in current[v]
                 PROVE  RowHolds(v, r)'
      BY <1>4 DEF CurrentHolds
    <3>1. v # w /\ pc[v] \in {"collect", "closeStage"}
      BY <1>5
    <3>2. RowHolds(v, r) /\ r \in CurrentRows
      BY <2>1, <3>1 DEF CurrentHolds
    <3>3. r.run \in 1..Len(run) /\ r.stage \in 1..Len(stage) /\ r.stage # s
      BY <1>2, <1>7, <3>1, <3>2 DEF CurrentRows, RowHolds, Open, InFlight
    <3> QED
      BY <1>3, <1>4, <3>2, <3>3 DEF RowHolds
  <2> QED
    BY <2>2, <2>3, <2>4
<1>11. OneOwner'
  BY <1>4, <1>5 DEF ExecutionInv, OneOwner, Starting
<1>12. NoOrphanStage'
  <2> SUFFICES ASSUME aborts = 0, NEW t \in 1..Len(stage), stage'[t].state \in InFlight
               PROVE  Attended(t)'
    BY <1>3, <1>4 DEF NoOrphanStage, InFlight
  <2>1. CASE t = s
    BY <1>2, <1>4, <2>1 DEF Attended, RunsOf
  <2>2. CASE t # s
    <3>1. Attended(t)
      BY <1>3, <2>2 DEF ExecutionInv, NoOrphanStage, InFlight
    <3> QED
      BY <1>4, <1>5, <2>2, <3>1 DEF Attended, RunsOf
  <2> QED
    BY <2>1, <2>2
<1> QED
  BY <1>6, <1>9, <1>10, <1>11, <1>12 DEF ExecutionInv, HostsNotShared

\* The verdict of rc.log: the run was the stage's only open one, and its
\* stage is now with the worker that closed it.
LEMMA StoreResultKeepsInv ==
  ASSUME ExecutionInv, NEW w \in Workers, NEW row \in current[w], StoreResult(w, row)
  PROVE  ExecutionInv'
<1> DEFINE i == row.run
           s == row.stage
           result == [run[i] EXCEPT !.state = Verdict(i)]
           c == [stage |-> s, retriesLeft |-> row.retriesLeft, state |-> row.state,
                 newState |-> NewState(row)]
<1>1. /\ Shape /\ TablesOK /\ run \in Seq(RunRows) /\ Len(run) \in Nat
      /\ row \in CurrentRows /\ pc[w] = "collect" /\ proc[i] \in {"ok", "bad"}
  BY RowTypes DEF ExecutionInv, Shape, StoreResult
<1>2. /\ i \in 1..Len(run) /\ s \in 1..Len(stage) /\ run[i] \in RunRows
      /\ run[i].state = "RUNNING" /\ run[i].worker = w /\ run[i].stage = s
      /\ row.state = stage[s].state /\ row.state \in InFlight
      /\ row.retriesLeft = stage[s].retriesLeft /\ row.retriesLeft \in Nat
  <2>1. RowHolds(w, row)
    BY <1>1 DEF ExecutionInv, CurrentHolds
  <2>2. i \in 1..Len(run) /\ s \in 1..Len(stage) /\ row.retriesLeft \in Nat
    BY <1>1 DEF CurrentRows
  <2>3. run[i] \in RunRows
    BY <1>1, <2>2, RunTypes
  <2> QED
    BY <2>1, <2>2, <2>3 DEF RowHolds, ExecutionInv, OpenRuns, Open, InFlight
<1>3. /\ Verdict(i) \in {"SUCCESS", "FAILURE"}
      /\ Verdict(i) = "SUCCESS" => proc[i] = "ok"
      /\ Verdict(i) = "FAILURE" => proc[i] = "bad"
      /\ NewState(row) \in {"SUCCESS", "READY", "FAILURE"}
      /\ NewState(row) = "READY" => row.retriesLeft # 0
      /\ NewState(row) # "READY" => NewState(row) = Verdict(i)
  <2>1. /\ Verdict(i) \in {"SUCCESS", "FAILURE"}
        /\ Verdict(i) = "SUCCESS" => proc[i] = "ok"
        /\ Verdict(i) = "FAILURE" => proc[i] = "bad"
    BY <1>1 DEF Verdict
  <2> QED
    BY <1>2, <2>1 DEF NewState
<1>4. /\ result \in RunRows /\ result.stage = s /\ result.worker = w
      /\ result.state = Verdict(i)
  BY <1>2, <1>3 DEF RunRows, RunState
<1>5. c \in ClosingRows
  BY <1>2, <1>3 DEF ClosingRows, StageState, InFlight
<1>6. /\ run' = [run EXCEPT ![i] = result] /\ closing' = [closing EXCEPT ![w] = c]
      /\ current' = [current EXCEPT ![w] = @ \ {row}]
      /\ pc' = [pc EXCEPT ![w] = "closeStage"]
      /\ UNCHANGED <<clock, message, job, stage, aborts, proc, ready, mine>>
  BY DEF StoreResult, GoTo
<1>7. c.stage = s /\ c.state = row.state /\ c.newState = NewState(row)
      /\ c.retriesLeft = row.retriesLeft
  OBVIOUS
<1> HIDE DEF result, c
<1>8. /\ run' \in Seq(RunRows) /\ Len(run') = Len(run) /\ run'[i] = result
      /\ \A r \in 1..Len(run) : r # i => run'[r] = run[r]
  BY <1>1, <1>2, <1>4, <1>6, UpdateRow
<1>9. /\ pc' \in [Workers -> Phase] /\ pc'[w] = "closeStage"
      /\ closing' \in [Workers -> ClosingRows] /\ closing'[w] = c
      /\ current' \in [Workers -> SUBSET CurrentRows] /\ current'[w] = current[w] \ {row}
      /\ \A v \in Workers \ {w} :
            pc'[v] = pc[v] /\ closing'[v] = closing[v] /\ current'[v] = current[v]
  BY <1>1, <1>5, <1>6 DEF Shape, TablesOK, Phase
<1>10. \A r \in 1..Len(run) : run'[r].stage = run[r].stage
                              /\ (Open(r)' <=> Open(r) /\ r # i)
  BY <1>2, <1>3, <1>4, <1>8 DEF Open, InFlight
<1>11. \A r \in 1..Len(run) : Open(r) /\ run[r].stage = s => r = i
  BY <1>2 DEF ExecutionInv, OpenRuns, Open, InFlight
<1>12. Shape'
  BY <1>1, <1>6, <1>8, <1>9, RunWriteShape
<1>13. TriesLeft' /\ ClosedRuns' /\ OpenRuns' /\ StageResults'
  <2>1. TriesLeft'
    BY <1>6 DEF ExecutionInv, TriesLeft
  <2>2. ClosedRuns'
    BY <1>3, <1>4, <1>6, <1>8 DEF ExecutionInv, ClosedRuns
  <2>3. OpenRuns'
    BY <1>6, <1>8, <1>10 DEF ExecutionInv, OpenRuns
  <2>4. StageResults'
    BY <1>2, <1>6, <1>8 DEF ExecutionInv, StageResults
  <2> QED
    BY <2>1, <2>2, <2>3, <2>4
<1>14. \A v \in Workers : pc[v] \in Starting => mine[v].stage # s
  <2> SUFFICES ASSUME NEW v \in Workers, pc[v] \in Starting, mine[v].stage = s
               PROVE  FALSE
    OBVIOUS
  <2>1. HandHolds(v) /\ mine[v] \in HandRows /\ v # w
    BY <1>1 DEF ExecutionInv, Shape, Starting
  <2>2. CASE pc[v] = "insertRun"
    BY <1>2, <2>1, <2>2 DEF HandHolds, Open, InFlight
  <2>3. CASE pc[v] \in Starting \ {"insertRun"}
    <3>1. /\ mine[v].run \in 1..Len(run) /\ run[mine[v].run].stage = s
          /\ run[mine[v].run].worker = v /\ Open(mine[v].run)
      BY <1>1, <2>1, <2>3 DEF HandHolds, HandRows, Open, InFlight
    <3> QED
      BY <1>2, <1>11, <2>1, <3>1
  <2> QED
    BY <2>2, <2>3
<1>15. \A v \in Workers : pc[v] = "closeStage" => closing[v].stage # s
  BY <1>2 DEF ExecutionInv, ClosingHolds, Open, InFlight
<1>16. ASSUME NEW v \in Workers
       PROVE  (HandHolds(v) /\ ClosingHolds(v) /\ CurrentHolds(v))'
  <2>1. HandHolds(v) /\ ClosingHolds(v) /\ CurrentHolds(v) /\ mine[v] \in HandRows
        /\ current[v] \subseteq CurrentRows
    BY <1>1 DEF ExecutionInv, Shape
  <2>2. HandHolds(v)'
    <3>1. CASE v = w
      BY <1>1, <1>6, <1>9, <2>1, <3>1 DEF HandHolds, Starting
    <3>2. CASE v # w
      <4>1. pc[v] \in Starting \ {"insertRun"} => mine[v].run \in 1..Len(run) \ {i}
        BY <1>1, <1>2, <2>1, <3>2 DEF HandHolds, HandRows
      <4> QED
        BY <1>6, <1>8, <1>9, <1>10, <2>1, <3>2, <4>1 DEF HandHolds, Starting
    <3> QED
      BY <3>1, <3>2
  <2>3. ClosingHolds(v)'
    <3>1. CASE v = w
      <4>1. \A r \in 1..Len(run) : Open(r)' => run'[r].stage # s
        BY <1>10, <1>11
      <4>2. NewState(row) # "READY" =>
              \E r \in 1..Len(run) : run'[r].stage = s /\ run'[r].state = NewState(row)
        BY <1>2, <1>3, <1>4, <1>8
      <4> QED
        BY <1>2, <1>3, <1>6, <1>7, <1>8, <1>9, <3>1, <4>1, <4>2 DEF ClosingHolds
    <3>2. CASE v # w
      <4>1. closing[v].newState \in {"SUCCESS", "FAILURE"} =>
              \A r \in 1..Len(run) : run[r].state = closing[v].newState => run'[r] = run[r]
        BY <1>2, <1>8
      <4> QED
        BY <1>6, <1>8, <1>9, <1>10, <2>1, <3>2, <4>1 DEF ClosingHolds
    <3> QED
      BY <3>1, <3>2
  <2>4. CurrentHolds(v)'
    <3> SUFFICES ASSUME pc'[v] \in {"collect", "closeStage"}, NEW r \in current'[v]
                 PROVE  RowHolds(v, r)'
      BY DEF CurrentHolds
    <3>1. r \in current[v] /\ pc[v] \in {"collect", "closeStage"}
      BY <1>1, <1>9
    <3>2. RowHolds(v, r) /\ r \in CurrentRows
      BY <2>1, <3>1 DEF CurrentHolds
    <3>3. r.run # i
      <4>1. CASE v = w
        <5>1. r.run = i => r = row
          <6>1. /\ r = [run |-> r.run, stage |-> r.stage, state |-> r.state,
                        retriesLeft |-> r.retriesLeft]
                /\ row = [run |-> row.run, stage |-> row.stage, state |-> row.state,
                          retriesLeft |-> row.retriesLeft]
            BY <1>1, <3>2 DEF CurrentRows
          <6> QED
            BY <1>2, <3>2, <6>1 DEF RowHolds
        <5> QED
          BY <1>9, <4>1, <5>1
      <4>2. CASE v # w
        BY <1>2, <3>2, <4>2 DEF RowHolds
      <4> QED
        BY <4>1, <4>2
    <3>4. r.run \in 1..Len(run)
      BY <3>2 DEF CurrentRows
    <3> QED
      BY <1>6, <1>8, <3>2, <3>3, <3>4 DEF RowHolds
  <2> QED
    BY <2>2, <2>3, <2>4
<1>17. OneOwner'
  <2>1. closing'[w].stage = s
    BY <1>7, <1>9
  <2> QED
    BY <1>1, <1>6, <1>9, <1>14, <1>15, <2>1 DEF ExecutionInv, OneOwner, Starting
<1>18. NoOrphanStage'
  <2> SUFFICES ASSUME aborts = 0, NEW t \in 1..Len(stage), stage[t].state \in InFlight
               PROVE  Attended(t)'
    BY <1>6 DEF NoOrphanStage, InFlight
  <2>1. CASE t = s
    BY <1>7, <1>9, <2>1 DEF Attended
  <2>2. CASE t # s
    <3>1. Attended(t)
      BY DEF ExecutionInv, NoOrphanStage, InFlight
    <3>2. closing[w] = NotClosing
      BY <1>1, Unoccupied DEF Starting
    <3>3. \A r \in RunsOf(t) : r # i /\ r \in RunsOf(t)' /\ run'[r] = run[r]
      BY <1>2, <1>8, <2>2 DEF RunsOf
    <3> QED
      BY <1>6, <1>9, <3>1, <3>2, <3>3 DEF Attended, NotClosing
  <2> QED
    BY <2>1, <2>2
<1> QED
  BY <1>12, <1>13, <1>16, <1>17, <1>18 DEF ExecutionInv, HostsNotShared

\* The stage is still as it was read, so the compare-and-set succeeds.
LEMMA CloseStageKeepsInv ==
  ASSUME ExecutionInv, NEW w \in Workers, CloseStage(w)
  PROVE  ExecutionInv'
<1> DEFINE s == closing[w].stage
           new == closing[w].newState
<1>1. /\ Shape /\ TablesOK /\ Len(stage) \in Nat
      /\ closing[w] \in ClosingRows /\ closing[w].retriesLeft \in Nat
      /\ pc[w] = "closeStage" /\ ClosingHolds(w)
  BY RowTypes DEF ExecutionInv, Shape, CloseStage, ClosingRows
<1>2. /\ s \in 1..Len(stage) /\ stage[s].state = closing[w].state /\ stage[s].state \in InFlight
      /\ new \in {"SUCCESS", "READY", "FAILURE"}
      /\ new = "READY" => closing[w].retriesLeft # 0
      /\ new # "READY" => \E r \in 1..Len(run) : run[r].stage = s /\ run[r].state = new
      /\ \A r \in 1..Len(run) : Open(r) => run[r].stage # s
  BY <1>1 DEF ClosingHolds, ClosingRows
<1>3. /\ stage' \in Seq(StageRows) /\ Len(stage') = Len(stage)
      /\ \A t \in 1..Len(stage) : t # s => stage'[t] = stage[t]
      /\ stage'[s].state = new /\ stage'[s].retriesLeft = closing[w].retriesLeft
  <2>1. CasStage(s, closing[w].state, new, closing[w].retriesLeft)
    BY DEF CloseStage
  <2>2. new \in StageState
    BY <1>2 DEF StageState
  <2> QED
    BY <1>1, <1>2, <2>1, <2>2, CasStageWrites
<1>4. /\ UNCHANGED <<clock, message, job, run, aborts, proc, ready, mine, current>>
      /\ pc' = [pc EXCEPT ![w] = "collect"] /\ closing' = [closing EXCEPT ![w] = NotClosing]
  BY DEF CloseStage, GoTo
<1>5. /\ pc' \in [Workers -> Phase] /\ pc'[w] = "collect"
      /\ closing' \in [Workers -> ClosingRows] /\ closing'[w] = NotClosing
      /\ \A v \in Workers \ {w} : pc'[v] = pc[v] /\ closing'[v] = closing[v]
  <2>1. NotClosing \in ClosingRows
    BY <1>1 DEF NotClosing, ClosingRows
  <2> QED
    BY <1>1, <1>4, <2>1 DEF Shape, TablesOK, Phase
<1>6. Shape'
  BY <1>1, <1>3, <1>4, <1>5, StageWriteShape DEF Shape
<1>7. \A v \in Workers : /\ pc[v] \in Starting => mine[v].stage # s
                         /\ v # w /\ pc[v] = "closeStage" => closing[v].stage # s
  BY <1>1 DEF ExecutionInv, OneOwner, Starting
<1>8. TriesLeft' /\ ClosedRuns' /\ OpenRuns' /\ StageResults'
  <2>1. TriesLeft'
    BY <1>2, <1>3 DEF ExecutionInv, TriesLeft
  <2>2. ClosedRuns'
    BY <1>4 DEF ExecutionInv, ClosedRuns
  <2>3. \A r \in 1..Len(run) : run[r].stage \in 1..Len(stage)
    BY <1>1, RunTypes
  <2>4. OpenRuns'
    BY <1>2, <1>3, <1>4, <2>3 DEF ExecutionInv, OpenRuns, Open
  <2>5. StageResults'
    BY <1>2, <1>3, <1>4 DEF ExecutionInv, StageResults
  <2> QED
    BY <2>1, <2>2, <2>4, <2>5
<1>9. ASSUME NEW v \in Workers
      PROVE  (HandHolds(v) /\ ClosingHolds(v) /\ CurrentHolds(v))'
  <2>1. HandHolds(v) /\ ClosingHolds(v) /\ CurrentHolds(v) /\ mine[v] \in HandRows
        /\ closing[v] \in ClosingRows /\ current[v] \subseteq CurrentRows
    BY <1>1 DEF ExecutionInv, Shape
  <2>2. HandHolds(v)'
    <3>1. /\ pc'[v] \in Starting <=> pc[v] \in Starting
          /\ pc'[v] \in Starting => pc'[v] = pc[v]
      BY <1>1, <1>5 DEF Starting
    <3> QED
      BY <1>3, <1>4, <1>7, <2>1, <3>1 DEF HandHolds, HandRows, Open, Starting
  <2>3. ClosingHolds(v)'
    <3>1. CASE v = w
      BY <1>5, <3>1 DEF ClosingHolds
    <3>2. CASE v # w
      BY <1>3, <1>4, <1>5, <1>7, <2>1, <3>2 DEF ClosingHolds, ClosingRows, Open
    <3> QED
      BY <3>1, <3>2
  <2>4. CurrentHolds(v)'
    <3> SUFFICES ASSUME pc'[v] \in {"collect", "closeStage"}, NEW r \in current[v]
                 PROVE  RowHolds(v, r)'
      BY <1>4 DEF CurrentHolds
    <3>1. pc[v] \in {"collect", "closeStage"}
      BY <1>1, <1>5
    <3>2. RowHolds(v, r) /\ r \in CurrentRows
      BY <2>1, <3>1 DEF CurrentHolds
    <3>3. r.run \in 1..Len(run) /\ r.stage \in 1..Len(stage) /\ r.stage # s
      BY <1>2, <3>2 DEF CurrentRows, RowHolds, Open, InFlight
    <3> QED
      BY <1>3, <1>4, <3>2, <3>3 DEF RowHolds
  <2> QED
    BY <2>2, <2>3, <2>4
<1>10. OneOwner'
  BY <1>1, <1>4, <1>5 DEF ExecutionInv, OneOwner, Starting
<1>11. NoOrphanStage'
  <2> SUFFICES ASSUME aborts = 0, NEW t \in 1..Len(stage), stage'[t].state \in InFlight
               PROVE  Attended(t)'
    BY <1>3, <1>4 DEF NoOrphanStage, InFlight
  <2>1. t # s
    BY <1>2, <1>3 DEF InFlight
  <2>2. Attended(t)
    BY <1>3, <2>1 DEF ExecutionInv, NoOrphanStage, InFlight
  <2> QED
    BY <1>4, <1>5, <2>1, <2>2 DEF Attended, RunsOf
<1> QED
  BY <1>6, <1>8, <1>9, <1>10, <1>11 DEF ExecutionInv, HostsNotShared

------------------------------------------------------------------------------
(* The theorems.                                                           *)

\* Every step of the system keeps the invariant.
LEMMA NextKeepsInv ==
  ASSUME ExecutionInv, [Next]_vars
  PROVE  ExecutionInv'
<1>1. CASE UNCHANGED vars
  <2> USE <1>1 DEF vars, tableVars, tables, executionVars
  <2>1. Shape'
    BY DEF ExecutionInv, Shape, TablesOK, ReadyRows, HandRows, CurrentRows, ClosingRows
  <2>2. TriesLeft' /\ ClosedRuns' /\ OpenRuns' /\ StageResults' /\ OneOwner'
    BY DEF ExecutionInv, TriesLeft, ClosedRuns, OpenRuns, StageResults, Open, OneOwner
  <2>3. \A w \in Workers : (HandHolds(w) /\ ClosingHolds(w) /\ CurrentHolds(w))'
    BY DEF ExecutionInv, HandHolds, ClosingHolds, CurrentHolds, RowHolds, Open
  <2>4. NoOrphanStage'
    BY DEF ExecutionInv, NoOrphanStage, Attended, RunsOf
  <2> QED
    BY <2>1, <2>2, <2>3, <2>4 DEF ExecutionInv, HostsNotShared
<1>2. ASSUME NEW w \in Workers,
             \/ LoadReady(w) \/ (\E row \in ready[w] : TakeMiss(w, row)) \/ NothingReady(w)
             \/ LoadCurrent(w)
             \/ \E row \in current[w] : NotFinished(w, row) \/ RcLogEmpty(w, row)
             \/ EndCollect(w) \/ OtherParts(w) \/ ExecutionAborts(w)
      PROVE  ExecutionInv'
  BY <1>2, ReadyKeepsInv, LoadCurrentKeepsInv, LeaveKeepsInv
<1>3. ASSUME \/ \E w \in Workers : Start(w)
             \/ \E r \in 1..Len(run) : ProcessStep(r) \/ ProcessVanishes(r)
      PROVE  ExecutionInv'
  BY <1>3, ProcessStepsKeepInv
<1>4. ASSUME NEW w \in Workers,
             \/ \E row \in ready[w] : TakeStage(w, row)
             \/ InsertRun(w) \/ StoreRun(w) \/ StoreStage(w)
      PROVE  ExecutionInv'
  BY <1>4, TakeStageKeepsInv, InsertRunKeepsInv, StoreRunKeepsInv, StoreStageKeepsInv
<1>5. ASSUME NEW w \in Workers,
             (\E row \in current[w] : StoreResult(w, row)) \/ CloseStage(w)
      PROVE  ExecutionInv'
  BY <1>5, StoreResultKeepsInv, CloseStageKeepsInv
<1> QED
  BY <1>1, <1>2, <1>3, <1>4, <1>5 DEF Next, ExecutionStep

\* ExecutionInv holds in every reachable state.
LEMMA InvAlways == HostsNotShared /\ Spec => []ExecutionInv
  BY InitSatisfiesInv, NextKeepsInv, PTL DEF Spec

\* With one worker per host, for all other constants: the tables and what
\* workers have in memory are well formed.
THEOREM TypeCorrect == HostsNotShared /\ Spec => []TypeOK
<1>1. ExecutionInv => TypeOK
  BY DEF ExecutionInv, Shape, TypeOK, ExecutionOK, ReadyRows, HandRows, CurrentRows,
         ClosingRows
<1> QED
  BY <1>1, InvAlways, PTL

\* With one worker per host a stage never has two processes at work, however
\* often it is retried and wherever beats end. (pickStageToRun and the
\* collection of finished runs)
THEOREM OneProcessAlways == HostsNotShared /\ Spec => []OneProcessPerStage
<1>1. ExecutionInv => OneProcessPerStage
  <2> SUFFICES ASSUME ExecutionInv, NEW s \in 1..Len(stage), NEW q \in RunsOf(s),
                      NEW r \in RunsOf(s), proc[q] \in {"alive", "writing"},
                      proc[r] \in {"alive", "writing"}
               PROVE  q = r
    BY DEF OneProcessPerStage
  <2>1. q \in 1..Len(run) /\ r \in 1..Len(run) /\ run[q].stage = s /\ run[r].stage = s
    BY DEF RunsOf
  <2>2. run[q] \in RunRows /\ run[r] \in RunRows
    BY <2>1, RunTypes DEF ExecutionInv, Shape
  <2>3. Open(q) /\ Open(r)
    BY <2>1, <2>2 DEF RunRows, RunState, Open, InFlight, ExecutionInv, ClosedRuns
  <2> QED
    BY <2>1, <2>3 DEF ExecutionInv, OpenRuns
<1> QED
  BY <1>1, InvAlways, PTL

\* With one worker per host no run and no stage has a result that no process
\* has delivered. (rc.log, RunHelper.updateRunState, BeatLogic.doLaundryList)
THEOREM ResultsAlwaysReal == HostsNotShared /\ Spec => []ResultsAreReal
<1>1. ExecutionInv => ResultsAreReal
  <2> SUFFICES ASSUME ExecutionInv
               PROVE  ResultsAreReal
    OBVIOUS
  <2>1. \A r \in 1..Len(run) : /\ run[r].state = "SUCCESS" => proc[r] = "ok"
                               /\ run[r].state = "FAILURE" => proc[r] = "bad"
    BY DEF ExecutionInv, ClosedRuns
  <2>2. ASSUME NEW s \in 1..Len(stage), stage[s].state \in {"SUCCESS", "FAILURE"}
        PROVE  \E r \in RunsOf(s) : run[r].state = stage[s].state
    BY <2>2 DEF ExecutionInv, StageResults, RunsOf
  <2>3. ASSUME NEW s \in 1..Len(stage), stage[s].state = "FAILURE", NEW r \in RunsOf(s)
        PROVE  proc[r] # "alive"
    <3>1. r \in 1..Len(run) /\ run[r].stage = s /\ run[r] \in RunRows
      BY RunTypes DEF RunsOf, ExecutionInv, Shape
    <3>2. ~Open(r)
      BY <2>3, <3>1 DEF ExecutionInv, OpenRuns, InFlight
    <3> QED
      BY <2>1, <3>1, <3>2 DEF Open, InFlight, RunRows, RunState
  <2> QED
    BY <2>1, <2>2, <2>3 DEF ResultsAreReal
<1> QED
  BY <1>1, InvAlways, PTL

\* With one worker per host and no beat cut short, a stage in flight always
\* has somebody who will move it on. (storeRun and updateStage around
\* RunHelper.start)
THEOREM NeverOrphaned == HostsNotShared /\ Spec => []NoOrphanStage
  BY InvAlways, PTL DEF ExecutionInv
==============================================================================
