--------------------------- MODULE ExpansionProofs ---------------------------
(***************************************************************************)
(* The optimistic lock of processEmittedMessages, for any number of        *)
(* workers and messages, any templates and lock duration, late workers and *)
(* crashes included: LOCK_TS of a message only advances, and of the        *)
(* workers expanding a message at most one can still commit it.            *)
(*                                                                         *)
(* ExpansionInv is inductive.  The heart of it: a row of a batch has a     *)
(* lock older than the SELECT that returned it (PastLocks), so a claim     *)
(* sets a lock later than every lock set before, and two workers that      *)
(* claimed the same message did so after SELECTs of different times        *)
(* (DistinctReads).  CompleteInv and OnceInv add to it what is needed of   *)
(* the rows: see the parts below.                                          *)
(***************************************************************************)
EXTENDS MessageExpansion, SequenceTheorems, TLAPS

USE TemplateOK, LockDurationAssumption, TimeBoundAssumption,
    AbortBoundAssumption, ExpansionAssumption

\* Nothing is posted and nobody has read anything yet.
LEMMA InitSatisfiesInv == Init => ExpansionInv
<1> SUFFICES ASSUME Init
             PROVE  ExpansionInv
  OBVIOUS
<1> USE DEF Init, TablesInit, TablesClean, ExpansionInit, NotExpanding
<1>1. TablesOK
  BY DEF TablesOK, Phase, MessageState
<1>2. late \in BOOLEAN
  OBVIOUS
<1>3. ExpansionOK
  BY <1>2 DEF ExpansionOK
<1>4. HandOK /\ OwnLock /\ PastLocks /\ DistinctReads
  BY DEF HandOK, OwnLock, PastLocks, DistinctReads
<1> QED
  BY <1>1, <1>3, <1>4 DEF ExpansionInv, TypeOK

\* A message that is posted was in nobody's batch or hands.
LEMMA EmitKeepsInv ==
  ASSUME NEW m \in Messages, ExpansionInv, Emit(m)
  PROVE  ExpansionInv'
<1> USE DEF Emit, expansionVars
<1>1. TypeOK'
  BY DEF ExpansionInv, TypeOK, TablesOK, ExpansionOK, MessageState
<1>2. \A n \in Messages : message[n].state # "none" => message'[n] = message[n]
  BY DEF ExpansionInv, TypeOK, TablesOK
<1>3. message'[m].state # "none"
  BY DEF ExpansionInv, TypeOK, TablesOK
<1>4. HandOK'
  BY <1>2 DEF ExpansionInv, HandOK
<1>5. OwnLock'
  BY <1>2 DEF ExpansionInv, HandOK, OwnLock, NewLock
<1>6. PastLocks'
  BY <1>2 DEF ExpansionInv, TypeOK, ExpansionOK, PastLocks
<1>7. DistinctReads'
  BY DEF ExpansionInv, DistinctReads
<1> QED
  BY <1>1, <1>4, <1>5, <1>6, <1>7 DEF ExpansionInv

\* Time passes for everybody.
LEMMA TickKeepsInv ==
  ASSUME ExpansionInv, Tick
  PROVE  ExpansionInv'
<1> USE DEF Tick, tables, expansionVars
<1>1. TypeOK'
  BY DEF ExpansionInv, TypeOK, TablesOK, ExpansionOK
<1>2. HandOK' /\ OwnLock' /\ PastLocks' /\ DistinctReads'
  BY DEF ExpansionInv, HandOK, OwnLock, NewLock, PastLocks, DistinctReads
<1> QED
  BY <1>1, <1>2 DEF ExpansionInv

\* The SELECT returns only rows whose lock has expired.
LEMMA PickKeepsInv ==
  ASSUME NEW w \in Workers, ExpansionInv, Pick(w)
  PROVE  ExpansionInv'
<1> USE DEF Pick, tables, GoTo
<1>1. TypeOK'
  BY DEF ExpansionInv, TypeOK, TablesOK, ExpansionOK, Phase
<1>2. /\ \A v \in Workers : pc'[v] = "expand" => v # w /\ pc[v] = "expand"
      /\ \A v \in Workers : v # w => readAt'[v] = readAt[v] /\ batch'[v] = batch[v]
  BY DEF ExpansionInv, TypeOK, TablesOK, ExpansionOK
<1>3. HandOK'
  BY <1>2 DEF ExpansionInv, HandOK
<1>4. OwnLock'
  BY <1>2 DEF ExpansionInv, OwnLock, NewLock
<1>5. \A row \in batch'[w] : /\ message[row.msg].state # "none"
                             /\ row.lock < readAt'[w]
                             /\ row.lock <= message[row.msg].lock
  BY DEF ExpansionInv, TypeOK, TablesOK, ExpansionOK
<1>6. PastLocks'
  BY <1>2, <1>5 DEF ExpansionInv, PastLocks
<1>7. DistinctReads'
  BY <1>2 DEF ExpansionInv, DistinctReads
<1> QED
  BY <1>1, <1>3, <1>4, <1>6, <1>7 DEF ExpansionInv

\* A claim moves the lock beyond the time of the worker's SELECT, which is
\* beyond the lock it found, which is beyond the SELECT of any other worker
\* still expanding the message.
LEMMA ClaimKeepsInv ==
  ASSUME NEW w \in Workers, NEW row \in batch[w], ExpansionInv, Claim(w, row)
  PROVE  ExpansionInv' /\ message[row.msg].lock <= message'[row.msg].lock
<1> DEFINE m == row.msg
<1> USE DEF Claim, GoTo, CasMessage, NotExpanding
<1>1. /\ m \in Messages /\ row.lock \in Nat /\ row.lock = message[m].lock
      /\ readAt[w] \in Nat /\ row.lock < readAt[w]
      /\ message[m].state # "none" /\ pc[w] = "claim"
  BY DEF ExpansionInv, TypeOK, ExpansionOK, PastLocks
<1>2. NewLock(w) \in Nat /\ row.lock < NewLock(w)
  BY <1>1 DEF NewLock
<1>3. TypeOK'
  <2>1. message' \in [Messages -> [state : MessageState \cup {"none"}, lock : Nat]]
    BY <1>1, <1>2 DEF ExpansionInv, TypeOK, TablesOK, MessageState
  <2>2. pc' \in [Workers -> Phase]
    BY DEF ExpansionInv, TypeOK, TablesOK, Phase
  <2>3. ExpansionOK'
    BY <1>1 DEF ExpansionInv, TypeOK, ExpansionOK
  <2> QED
    BY <2>1, <2>2, <2>3 DEF ExpansionInv, TypeOK, TablesOK
<1>4. /\ message'[m] = [state |-> "EMITTED", lock |-> NewLock(w)]
      /\ \A n \in Messages : n # m => message'[n] = message[n]
  BY <1>1 DEF ExpansionInv, TypeOK, TablesOK
<1>5. /\ pc'[w] = "expand" /\ at'[w].msg = m /\ at'[w].tmpl = 0
      /\ \A v \in Workers : v # w => pc'[v] = pc[v] /\ at'[v] = at[v]
  BY DEF ExpansionInv, TypeOK, TablesOK, ExpansionOK
<1>6. \A n \in Messages : /\ message'[n].lock \in Nat /\ message[n].lock \in Nat
                          /\ message[n].lock <= message'[n].lock
                          /\ message[n].state # "none" => message'[n].state # "none"
  BY <1>1, <1>2, <1>4 DEF ExpansionInv, TypeOK, TablesOK
<1>7. HandOK'
  BY <1>1, <1>4, <1>5, <1>6 DEF ExpansionInv, HandOK
<1>8. OwnLock'
  <2> SUFFICES ASSUME NEW v \in Workers, pc'[v] = "expand"
               PROVE  NewLock(v) <= message'[at'[v].msg].lock
    BY DEF OwnLock, NewLock
  <2>1. CASE v = w
    BY <1>2, <1>4, <1>5, <2>1
  <2>2. CASE v # w
    <3>1. /\ at[v].msg \in Messages /\ at'[v] = at[v]
          /\ NewLock(v) <= message[at[v].msg].lock /\ NewLock(v) \in Nat
      BY <1>5, <2>2 DEF ExpansionInv, TypeOK, ExpansionOK, HandOK, OwnLock, NewLock
    <3> QED
      BY <1>6, <3>1
  <2> QED
    BY <2>1, <2>2
<1>9. PastLocks'
  <2> SUFFICES ASSUME NEW v \in Workers, NEW r \in batch'[v]
               PROVE  /\ message'[r.msg].state # "none"
                      /\ r.lock < readAt[v]
                      /\ r.lock <= message'[r.msg].lock
    BY DEF PastLocks
  <2>1. r \in batch[v]
    BY DEF ExpansionInv, TypeOK, ExpansionOK
  <2>2. r.msg \in Messages /\ r.lock \in Nat
    BY <2>1 DEF ExpansionInv, TypeOK, ExpansionOK
  <2> QED
    BY <1>6, <2>1, <2>2 DEF ExpansionInv, PastLocks
<1>10. DistinctReads'
  <2>1. ASSUME NEW v \in Workers, v # w, pc[v] = "expand", at[v].msg = m
        PROVE  readAt[v] < readAt[w]
    BY <1>1, <2>1 DEF ExpansionInv, TypeOK, ExpansionOK, OwnLock, NewLock
  <2>2. \A v \in Workers : readAt[v] \in Nat
    BY DEF ExpansionInv, TypeOK, ExpansionOK
  <2> QED
    BY <1>1, <1>5, <2>1, <2>2 DEF ExpansionInv, DistinctReads
<1> QED
  BY <1>1, <1>3, <1>6, <1>7, <1>8, <1>9, <1>10 DEF ExpansionInv

\* A lost claim only shortens the batch.
LEMMA ClaimMissKeepsInv ==
  ASSUME NEW w \in Workers, NEW row \in batch[w], ExpansionInv, ClaimMiss(w, row)
  PROVE  ExpansionInv'
<1> USE DEF ClaimMiss, tableVars, tables
<1>1. TypeOK'
  BY DEF ExpansionInv, TypeOK, TablesOK, ExpansionOK
<1>2. \A v \in Workers : batch'[v] \subseteq batch[v]
  BY DEF ExpansionInv, TypeOK, ExpansionOK
<1>3. HandOK' /\ OwnLock' /\ PastLocks' /\ DistinctReads'
  BY <1>2 DEF ExpansionInv, HandOK, OwnLock, NewLock, PastLocks, DistinctReads
<1> QED
  BY <1>1, <1>3 DEF ExpansionInv

\* A worker that leaves the loop, in order or by an exception or a crash,
\* takes its batch and its message out of the picture.
LEMMA LeaveKeepsInv ==
  ASSUME NEW w \in Workers, ExpansionInv, ForgetExpansion(w),
         pc' = [pc EXCEPT ![w] = "idle"] \/ pc' = [pc EXCEPT ![w] = "pick"],
         aborts' \in 0..MaxAborts,
         UNCHANGED <<clock, tables>>
  PROVE  ExpansionInv'
<1> USE DEF ForgetExpansion, NotExpanding, tables
<1>1. TypeOK'
  <2>1. TablesOK'
    BY DEF ExpansionInv, TypeOK, TablesOK, Phase
  <2>2. ExpansionOK'
    BY DEF ExpansionInv, TypeOK, ExpansionOK
  <2> QED
    BY <2>1, <2>2 DEF TypeOK
<1>2. /\ pc'[w] # "expand" /\ batch'[w] = {}
      /\ \A v \in Workers : v # w =>
            /\ pc'[v] = pc[v] /\ at'[v] = at[v]
            /\ readAt'[v] = readAt[v] /\ batch'[v] = batch[v]
  BY DEF ExpansionInv, TypeOK, TablesOK, ExpansionOK
<1>3. HandOK'
  BY <1>2 DEF ExpansionInv, HandOK
<1>4. OwnLock'
  BY <1>2 DEF ExpansionInv, OwnLock, NewLock
<1>5. PastLocks'
  BY <1>2 DEF ExpansionInv, PastLocks
<1>6. DistinctReads'
  BY <1>2 DEF ExpansionInv, DistinctReads
<1> QED
  BY <1>1, <1>3, <1>4, <1>5, <1>6 DEF ExpansionInv

\* The stage rows stay typed when the job table grows.
LEMMA StageTypeGrows ==
  ASSUME NEW n \in Nat, NEW rows \in Seq([job : 1..n, name : Nat, state : StageState,
                                           retriesLeft : Nat])
  PROVE  rows \in Seq([job : 1..(n + 1), name : Nat, state : StageState, retriesLeft : Nat])
<1>1. [job : 1..n, name : Nat, state : StageState, retriesLeft : Nat]
        \subseteq [job : 1..(n + 1), name : Nat, state : StageState, retriesLeft : Nat]
  OBVIOUS
<1> QED
  BY <1>1, SeqMonotonic

\* The run rows stay typed when the stage table grows.
LEMMA RunTypeGrows ==
  ASSUME NEW n \in Nat, NEW rows \in Seq([stage : 1..n, worker : Workers, state : RunState])
  PROVE  rows \in Seq([stage : 1..(n + 1), worker : Workers, state : RunState])
<1>1. [stage : 1..n, worker : Workers, state : RunState]
        \subseteq [stage : 1..(n + 1), worker : Workers, state : RunState]
  OBVIOUS
<1> QED
  BY <1>1, SeqMonotonic

\* INSERT_JOB: the new row is the job in hand.
LEMMA InsertJobKeepsInv ==
  ASSUME NEW w \in Workers, ExpansionInv, InsertJob(w)
  PROVE  ExpansionInv'
<1> USE DEF InsertJob
<1>1. /\ pc[w] = "expand" /\ at[w].msg \in Messages /\ job \in Seq([msg : Messages,
         tmpl : Nat, responsible : BOOLEAN, state : JobState])
  BY DEF ExpansionInv, TypeOK, TablesOK, HandOK
<1>2. PICK i \in Remaining(w) :
        /\ job' = Append(job, JobRow(at[w].msg, i))
        /\ at' = [at EXCEPT ![w] =
              [msg |-> at[w].msg, tmpl |-> i, job |-> Len(job'), done |-> 0]]
  OBVIOUS
<1>3. i \in 1..Len(Template[at[w].msg]) /\ Len(Template[at[w].msg]) \in Nat
  BY <1>1, <1>2 DEF Remaining, Selected
<1>4. Template[at[w].msg][i] \in JobTemplate
  BY <1>1, <1>3
<1>5. JobRow(at[w].msg, i) \in [msg : Messages, tmpl : Nat, responsible : BOOLEAN,
                                state : JobState]
  <2>1. Template[at[w].msg][i].responsible \in BOOLEAN /\ i \in Nat /\ at[w].msg \in Messages
    BY <1>1, <1>3, <1>4 DEF JobTemplate
  <2>2. QED
    BY <2>1, SMTT(30) DEF JobRow, JobState
<1>6. /\ job' \in Seq([msg : Messages, tmpl : Nat, responsible : BOOLEAN, state : JobState])
      /\ Len(job') = Len(job) + 1 /\ Len(job) \in Nat
  BY <1>1, <1>2, <1>5
<1>7. stage' \in Seq([job : 1..Len(job'), name : Nat, state : StageState, retriesLeft : Nat])
  BY <1>6, StageTypeGrows DEF ExpansionInv, TypeOK, TablesOK
<1>8. /\ at'[w].msg = at[w].msg /\ at'[w].tmpl = i
      /\ at'[w].job = Len(job') /\ at'[w].done = 0
      /\ \A v \in Workers : v # w => at'[v] = at[v]
      /\ at' \in [Workers -> [msg : Messages \cup {NoMessage}, tmpl : Nat,
                              job : Nat, done : Nat]]
  BY <1>2, <1>3, <1>6 DEF ExpansionInv, TypeOK, ExpansionOK
<1>9. TypeOK'
  BY <1>6, <1>7, <1>8 DEF ExpansionInv, TypeOK, TablesOK, ExpansionOK
<1>10. HandOK'
  <2> SUFFICES ASSUME NEW v \in Workers, pc[v] = "expand"
               PROVE  /\ at'[v].msg \in Messages
                      /\ message[at'[v].msg].state # "none"
                      /\ at'[v].tmpl # 0 =>
                            /\ at'[v].tmpl \in 1..Len(Template[at'[v].msg])
                            /\ at'[v].job \in 1..Len(job')
                            /\ at'[v].done <= Len(StageTemplates(at'[v].msg, at'[v].tmpl))
    BY DEF HandOK
  <2>1. CASE v = w
    <3>1. Len(StageTemplates(at[w].msg, i)) \in Nat
      BY <1>4 DEF StageTemplates, JobTemplate
    <3> QED
      BY <1>1, <1>3, <1>6, <1>8, <2>1, <3>1 DEF ExpansionInv, HandOK
  <2>2. CASE v # w
    BY <1>6, <1>8, <2>2 DEF ExpansionInv, HandOK
  <2> QED
    BY <2>1, <2>2
<1>11. \A v \in Workers : at'[v].msg = at[v].msg
  BY <1>8
<1>12. OwnLock' /\ PastLocks' /\ DistinctReads'
  BY <1>11 DEF ExpansionInv, OwnLock, NewLock, PastLocks, DistinctReads
<1> QED
  BY <1>9, <1>10, <1>12 DEF ExpansionInv

\* INSERT_STAGE: the new row is the next stage of the job in hand.
LEMMA InsertStageKeepsInv ==
  ASSUME NEW w \in Workers, ExpansionInv, InsertStage(w)
  PROVE  ExpansionInv'
<1> DEFINE m == at[w].msg
           i == at[w].tmpl
           k == at[w].done + 1
<1> USE DEF InsertStage
<1>1. /\ m \in Messages /\ i \in 1..Len(Template[m]) /\ at[w].job \in 1..Len(job)
      /\ at[w].done \in Nat
      /\ at[w].done <= Len(StageTemplates(m, i)) /\ at[w].done # Len(StageTemplates(m, i))
  BY DEF ExpansionInv, TypeOK, ExpansionOK, HandOK, JobComplete
<1>2. StageTemplates(m, i) \in Seq(StageTemplate) /\ Len(StageTemplates(m, i)) \in Nat
  <2>1. Template[m] \in Seq(JobTemplate)
    BY <1>1
  <2>2. Template[m][i] \in JobTemplate
    BY <1>1, <2>1
  <2> QED
    BY <2>2 DEF JobTemplate, StageTemplates
<1>3. k \in 1..Len(StageTemplates(m, i)) /\ StageTemplates(m, i)[k] \in StageTemplate
  BY <1>1, <1>2
<1>4. StageRow(at[w].job, m, i, k) \in [job : 1..Len(job), name : Nat, state : StageState,
                                        retriesLeft : Nat]
  BY <1>1, <1>3 DEF StageRow, StageTemplate, StageState
<1>5. stage' \in Seq([job : 1..Len(job), name : Nat, state : StageState, retriesLeft : Nat])
  BY <1>4 DEF ExpansionInv, TypeOK, TablesOK
<1>6. Len(stage') = Len(stage) + 1 /\ Len(stage) \in Nat
  BY <1>4 DEF ExpansionInv, TypeOK, TablesOK
<1>7. run' \in Seq([stage : 1..Len(stage'), worker : Workers, state : RunState])
  BY <1>6, RunTypeGrows DEF ExpansionInv, TypeOK, TablesOK
<1>8. at' \in [Workers -> [msg : Messages \cup {NoMessage}, tmpl : Nat,
                           job : Nat, done : Nat]]
  <2> DEFINE Hands == [msg : Messages \cup {NoMessage}, tmpl : Nat, job : Nat, done : Nat]
  <2>1. at \in [Workers -> Hands] /\ k \in Nat
    BY <1>1 DEF ExpansionInv, TypeOK, ExpansionOK
  <2>2. [at[w] EXCEPT !.done = k] \in Hands
    BY <2>1
  <2>3. at' = [at EXCEPT ![w] = [at[w] EXCEPT !.done = k]]
    OBVIOUS
  <2> HIDE DEF Hands
  <2>4. at' \in [Workers -> Hands]
    BY <2>1, <2>2, <2>3
  <2> QED
    BY <2>4 DEF Hands
<1>9. /\ at'[w].msg = m /\ at'[w].tmpl = i /\ at'[w].job = at[w].job /\ at'[w].done = k
      /\ \A v \in Workers : v # w => at'[v] = at[v]
  BY <1>1 DEF ExpansionInv, TypeOK, ExpansionOK
<1>10. TypeOK'
  BY <1>5, <1>7, <1>8 DEF ExpansionInv, TypeOK, TablesOK, ExpansionOK
<1>11. HandOK'
  BY <1>1, <1>3, <1>9 DEF ExpansionInv, HandOK
<1>12. \A v \in Workers : at'[v].msg = at[v].msg
  BY <1>9
<1>13. OwnLock' /\ PastLocks' /\ DistinctReads'
  BY <1>12 DEF ExpansionInv, OwnLock, NewLock, PastLocks, DistinctReads
<1> QED
  BY <1>10, <1>11, <1>13 DEF ExpansionInv

\* The commit writes the lock it has found.
LEMMA CommitKeepsInv ==
  ASSUME NEW w \in Workers, ExpansionInv, Commit(w)
  PROVE  ExpansionInv' /\ \A n \in Messages : message'[n].lock = message[n].lock
<1> DEFINE m == at[w].msg
<1> USE DEF Commit, GoTo, CasMessage, NotExpanding
<1>1. /\ m \in Messages /\ message[m].lock = NewLock(w) /\ NewLock(w) \in Nat
      /\ pc[w] = "expand"
  BY DEF ExpansionInv, TypeOK, TablesOK, HandOK
<1>2. \A n \in Messages : /\ message'[n].lock = message[n].lock
                          /\ message[n].state # "none" => message'[n].state # "none"
  BY <1>1 DEF ExpansionInv, TypeOK, TablesOK
<1>3. TypeOK'
  <2>1. message' \in [Messages -> [state : MessageState \cup {"none"}, lock : Nat]]
    BY <1>1 DEF ExpansionInv, TypeOK, TablesOK, MessageState
  <2>2. pc' \in [Workers -> Phase]
    BY DEF ExpansionInv, TypeOK, TablesOK, Phase
  <2>3. ExpansionOK'
    BY DEF ExpansionInv, TypeOK, ExpansionOK
  <2> QED
    BY <2>1, <2>2, <2>3 DEF ExpansionInv, TypeOK, TablesOK
<1>4. /\ pc'[w] # "expand"
      /\ \A v \in Workers : v # w => pc'[v] = pc[v] /\ at'[v] = at[v]
  BY DEF ExpansionInv, TypeOK, TablesOK, ExpansionOK
<1>5. HandOK'
  BY <1>2, <1>4 DEF ExpansionInv, HandOK
<1>6. OwnLock'
  BY <1>2, <1>4 DEF ExpansionInv, HandOK, OwnLock, NewLock
<1>7. PastLocks'
  <2>1. \A v \in Workers : \A row \in batch[v] : row.msg \in Messages
    BY DEF ExpansionInv, TypeOK, ExpansionOK
  <2> QED
    BY <1>2, <2>1 DEF ExpansionInv, PastLocks
<1>8. DistinctReads'
  BY <1>4 DEF ExpansionInv, DistinctReads
<1> QED
  BY <1>2, <1>3, <1>5, <1>6, <1>7, <1>8 DEF ExpansionInv

\* The rest of the beat does not touch the messages.
LEMMA RestKeepsInv ==
  ASSUME NEW w \in Workers, ExpansionInv, RestOfBeat(w)
  PROVE  ExpansionInv'
<1> USE DEF RestOfBeat, GoTo, tables, expansionVars
<1>1. TypeOK'
  BY DEF ExpansionInv, TypeOK, TablesOK, ExpansionOK, Phase
<1>2. \A v \in Workers : pc'[v] = "expand" => pc[v] = "expand"
  BY DEF ExpansionInv, TypeOK, TablesOK
<1>3. HandOK' /\ OwnLock' /\ PastLocks' /\ DistinctReads'
  BY <1>2 DEF ExpansionInv, HandOK, OwnLock, NewLock, PastLocks, DistinctReads
<1> QED
  BY <1>1, <1>3 DEF ExpansionInv

\* A step of any worker keeps the invariant.
LEMMA WorkerKeepsInv ==
  ASSUME NEW w \in Workers, ExpansionInv,
         ExpansionStep(w) \/ ExpansionAborts(w) \/ RestOfBeat(w)
  PROVE  ExpansionInv'
<1>1. CASE TemplateMissing(w) \/ CommitFails(w) \/ EndExpansion(w) \/ ExpansionAborts(w)
  <2>1. aborts' \in 0..MaxAborts
    BY <1>1 DEF TemplateMissing, CommitFails, EndExpansion, ExpansionAborts,
                ExpansionInv, TypeOK, TablesOK
  <2>2. /\ ForgetExpansion(w)
        /\ pc' = [pc EXCEPT ![w] = "idle"] \/ pc' = [pc EXCEPT ![w] = "pick"]
        /\ UNCHANGED <<clock, tables>>
    BY <1>1 DEF TemplateMissing, CommitFails, EndExpansion, ExpansionAborts, GoTo
  <2> QED
    BY <2>1, <2>2, LeaveKeepsInv
<1> QED
  BY <1>1, PickKeepsInv, ClaimKeepsInv, ClaimMissKeepsInv, InsertJobKeepsInv,
     InsertStageKeepsInv, CommitKeepsInv, RestKeepsInv DEF ExpansionStep

\* No step of a worker moves a lock back.
LEMMA WorkerAdvancesLocks ==
  ASSUME NEW w \in Workers, ExpansionInv,
         ExpansionStep(w) \/ ExpansionAborts(w) \/ RestOfBeat(w)
  PROVE  \A n \in Messages : message'[n].lock >= message[n].lock
<1>1. \A n \in Messages : message[n].lock \in Nat
  BY DEF ExpansionInv, TypeOK, TablesOK
<1>2. ASSUME NEW row \in batch[w], Claim(w, row)
      PROVE  \A n \in Messages : message'[n].lock >= message[n].lock
  <2>1. message[row.msg].lock <= message'[row.msg].lock
    BY <1>2, ClaimKeepsInv
  <2>2. row.msg \in Messages /\ message'[row.msg].lock \in Nat
    BY <1>2 DEF Claim, CasMessage, NewLock, ExpansionInv, TypeOK, TablesOK, ExpansionOK
  <2>3. \A n \in Messages : n # row.msg => message'[n] = message[n]
    BY <1>2 DEF Claim, CasMessage, ExpansionInv, TypeOK, TablesOK
  <2> QED
    BY <1>1, <2>1, <2>2, <2>3
<1>3. CASE Commit(w)
  BY <1>1, <1>3, CommitKeepsInv
<1>4. CASE UNCHANGED message
  BY <1>1, <1>4
<1>5. \/ \E row \in batch[w] : Claim(w, row)
      \/ Commit(w)
      \/ UNCHANGED message
  BY DEF ExpansionStep, ExpansionAborts, RestOfBeat, Pick, ClaimMiss, TemplateMissing,
         InsertJob, InsertStage, CommitFails, EndExpansion, tableVars, tables
<1> QED
  BY <1>2, <1>3, <1>4, <1>5

\* The invariant is inductive.
LEMMA StepKeepsInv ==
  ASSUME ExpansionInv, [Next]_vars
  PROVE  ExpansionInv'
<1>1. CASE UNCHANGED vars
  BY <1>1 DEF vars, tableVars, tables, expansionVars, ExpansionInv, TypeOK, TablesOK,
              ExpansionOK, HandOK, OwnLock, NewLock, PastLocks, DistinctReads
<1> QED
  BY <1>1, EmitKeepsInv, TickKeepsInv, WorkerKeepsInv DEF Next

\* Every reachable state satisfies the invariant, its types included.
THEOREM ExpansionInvariant == Spec => []ExpansionInv
  BY InitSatisfiesInv, StepKeepsInv, PTL DEF Spec

\* The tables and what workers remember of them keep their types.
THEOREM ExpansionTypes == Spec => []TypeOK
  BY ExpansionInvariant, PTL DEF ExpansionInv

\* Of all workers expanding a message at most one can still commit it, for
\* all constants: their SELECTs, and so their locks, have different times.
THEOREM AtMostOneHolder == Spec => []OneHolder
<1>1. ExpansionInv => OneHolder
  <2> SUFFICES ASSUME ExpansionInv, NEW m \in Messages, NEW v \in Workers, NEW w \in Workers,
                      Holds(v, m), Holds(w, m)
               PROVE  v = w
    BY DEF OneHolder
  <2>1. readAt[v] \in Nat /\ readAt[w] \in Nat /\ NewLock(v) = NewLock(w)
    BY DEF ExpansionInv, TypeOK, ExpansionOK, Holds
  <2>2. readAt[v] = readAt[w]
    BY <2>1 DEF NewLock
  <2> QED
    BY <2>2 DEF ExpansionInv, DistinctReads, Holds, Expanding
<1> QED
  BY <1>1, ExpansionInvariant, PTL

\* LOCK_TS of a posted message never goes back, for all constants; nor does
\* the clock, so that the condition of LockAdvances takes nothing away.
THEOREM LocksAdvance == Spec => [][clock' >= clock]_vars /\ LockAdvances
<1>1. ASSUME ExpansionInv, [Next]_vars
      PROVE  \A m \in Messages :
                message[m].state # "none" => message'[m].lock >= message[m].lock
  <2>1. \A m \in Messages : message[m].lock \in Nat
    BY <1>1 DEF ExpansionInv, TypeOK, TablesOK
  <2>2. CASE \E m \in Messages : Emit(m)
    BY <1>1, <2>1, <2>2 DEF Emit, ExpansionInv, TypeOK, TablesOK
  <2>3. CASE Tick \/ UNCHANGED vars
    BY <2>1, <2>3 DEF Tick, vars, tableVars, tables
  <2> QED
    BY <1>1, <2>2, <2>3, WorkerAdvancesLocks DEF Next
<1>2. ASSUME ExpansionInv, [Next]_vars
      PROVE  clock' >= clock
  <2>1. clock \in Nat
    BY <1>2 DEF ExpansionInv, TypeOK, TablesOK
  <2>2. clock' = clock \/ clock' = clock + 1
    BY <1>2 DEF Next, Emit, Tick, ExpansionStep, ExpansionAborts, RestOfBeat, Pick, Claim,
       ClaimMiss, TemplateMissing, InsertJob, InsertStage, Commit, CommitFails, EndExpansion,
       vars, tableVars, tables
  <2> QED
    BY <2>1, <2>2
<1> QED
  BY <1>1, <1>2, ExpansionInvariant, PTL DEF Spec, LockAdvances

------------------------------------------------------------------------------
(* The whole expansion: a message that was committed has been expanded     *)
(* completely, however late its worker is, whoever else expands it at the  *)
(* same time and whatever half-made rows cut-off beats have left behind.   *)

\* The tables are typed row by row.
LEMMA RowTypes ==
  ASSUME ExpansionInv
  PROVE  /\ Len(job) \in Nat /\ Len(stage) \in Nat
         /\ job \in Seq([msg : Messages, tmpl : Nat, responsible : BOOLEAN, state : JobState])
         /\ \A s \in 1..Len(stage) : stage[s].job \in 1..Len(job)
<1> DEFINE Rows == [job : 1..Len(job), name : Nat, state : StageState, retriesLeft : Nat]
<1>1. stage \in Seq(Rows)
  BY DEF ExpansionInv, TypeOK, TablesOK
<1>2. \A row \in Rows : row.job \in 1..Len(job)
  OBVIOUS
<1> HIDE DEF Rows
<1>3. Len(stage) \in Nat /\ \A s \in 1..Len(stage) : stage[s] \in Rows
  BY <1>1
<1>4. job \in Seq([msg : Messages, tmpl : Nat, responsible : BOOLEAN, state : JobState])
  BY DEF ExpansionInv, TypeOK, TablesOK
<1> QED
  BY <1>2, <1>3, <1>4

\* The number of stages of a template is a natural number.
LEMMA StageCount ==
  ASSUME NEW m \in Messages, NEW i \in 1..Len(Template[m])
  PROVE  Len(StageTemplates(m, i)) \in Nat
<1>1. Template[m] \in Seq(JobTemplate)
  BY TemplateOK
<1>2. Template[m][i] \in JobTemplate
  BY <1>1
<1> QED
  BY <1>2 DEF JobTemplate, StageTemplates

\* INSERT_JOB: the new row has no stages, the others are as they were.
LEMMA InsertJobRows ==
  ASSUME NEW w \in Workers, ExpansionInv, InsertJob(w), NEW n, n = Len(job) + 1
  PROVE  /\ Len(job') = n
         /\ at'[w].msg = at[w].msg /\ at'[w].job = n /\ at'[w].done = 0
         /\ at'[w].tmpl \in Remaining(w)
         /\ \A k \in Remaining(w) : at'[w].tmpl <= k
         /\ \A v \in Workers : v # w => at'[v] = at[v]
         /\ job'[n].msg = at[w].msg /\ job'[n].tmpl = at'[w].tmpl
         /\ StageNames(n)' = {}
         /\ \A j \in 1..Len(job) : job'[j] = job[j] /\ StageNames(j)' = StageNames(j)
<1>1. PICK i \in Remaining(w) :
        /\ \A k \in Remaining(w) : i <= k
        /\ job' = Append(job, JobRow(at[w].msg, i))
        /\ at' = [at EXCEPT ![w] =
              [msg |-> at[w].msg, tmpl |-> i, job |-> Len(job'), done |-> 0]]
  BY DEF InsertJob
<1>2. /\ Len(job') = n /\ job'[n] = JobRow(at[w].msg, i)
      /\ \A j \in 1..Len(job) : job'[j] = job[j]
  BY <1>1, RowTypes
<1>3. stage' = stage
  BY DEF InsertJob
<1>4. \A j : StageNames(j)' = StageNames(j)
  BY <1>3 DEF StageNames, StagesOf
<1>5. StagesOf(n) = {}
  BY RowTypes DEF StagesOf
<1>6. StageNames(n) = {}
  BY <1>5 DEF StageNames
<1>7. /\ at'[w] = [msg |-> at[w].msg, tmpl |-> i, job |-> n, done |-> 0]
      /\ \A v \in Workers : v # w => at'[v] = at[v]
  BY <1>1, <1>2 DEF ExpansionInv, TypeOK, ExpansionOK
<1>8. job'[n].msg = at[w].msg /\ job'[n].tmpl = i
  BY <1>2 DEF JobRow
<1> QED
  BY <1>1, <1>2, <1>4, <1>6, <1>7, <1>8

\* INSERT_STAGE: only the job in hand gets another stage, and it was not
\* complete.
LEMMA InsertStageRows ==
  ASSUME NEW w \in Workers, ExpansionInv, HandRows, InsertStage(w), NEW n, n = at[w].job
  PROVE  /\ at[w].tmpl # 0 /\ pc[w] = "expand"
         /\ at'[w].msg = at[w].msg /\ at'[w].tmpl = at[w].tmpl /\ at'[w].job = n
         /\ at'[w].done = at[w].done + 1
         /\ \A v \in Workers : v # w => at'[v] = at[v]
         /\ StageNames(n)' = 1..(at[w].done + 1)
         /\ \A j : j # n => StageNames(j)' = StageNames(j)
         /\ ~Complete(n)
<1> DEFINE row == StageRow(n, at[w].msg, at[w].tmpl, at[w].done + 1)
           new == Len(stage) + 1
<1>1. /\ pc[w] = "expand" /\ at[w].tmpl # 0
      /\ at[w].done # Len(StageTemplates(at[w].msg, at[w].tmpl))
  BY DEF InsertStage, JobComplete
<1>2. /\ at[w].done \in Nat /\ at[w].msg \in Messages
      /\ at[w].tmpl \in 1..Len(Template[at[w].msg])
  BY <1>1 DEF ExpansionInv, TypeOK, ExpansionOK, HandOK
<1>3. /\ at'[w].msg = at[w].msg /\ at'[w].tmpl = at[w].tmpl /\ at'[w].job = n
      /\ at'[w].done = at[w].done + 1
      /\ \A v \in Workers : v # w => at'[v] = at[v]
  BY DEF InsertStage, ExpansionInv, TypeOK, ExpansionOK
<1>4. row.job = n /\ row.name = at[w].done + 1
  BY DEF StageRow
<1>5. stage' = Append(stage, row)
  BY DEF InsertStage
<1> HIDE DEF row
<1>6. /\ Len(stage') = new /\ Len(stage) \in Nat /\ stage'[new] = row
      /\ \A s \in 1..Len(stage) : stage'[s] = stage[s]
  BY <1>5, RowTypes DEF ExpansionInv, TypeOK, TablesOK
<1>7. \A j : j # n => StagesOf(j)' = StagesOf(j)
  BY <1>4, <1>6 DEF StagesOf
<1>8. StagesOf(n)' = StagesOf(n) \cup {new}
  BY <1>4, <1>6 DEF StagesOf
<1>9. \A j : j # n => StageNames(j)' = StageNames(j)
  <2> SUFFICES ASSUME NEW j, j # n
               PROVE  StageNames(j)' = StageNames(j)
    OBVIOUS
  <2>1. \A s \in StagesOf(j) : stage'[s] = stage[s]
    BY <1>6 DEF StagesOf
  <2>2. StageNames(j)' = {stage'[s].name : s \in StagesOf(j)}
    BY <1>7 DEF StageNames
  <2> QED
    BY <2>1, <2>2 DEF StageNames
<1>10. n \in JobRows(at[w].msg, at[w].tmpl) /\ StageNames(n) = 1..at[w].done
  BY <1>1 DEF HandRows
<1>11. StageNames(n)' = 1..(at[w].done + 1)
  <2>1. StageNames(n)' = StageNames(n) \cup {at[w].done + 1}
    BY <1>4, <1>6, <1>8 DEF StageNames, StagesOf
  <2>2. 1..(at[w].done + 1) = (1..at[w].done) \cup {at[w].done + 1}
    BY <1>2
  <2> QED
    BY <1>10, <2>1, <2>2
<1>12. ~Complete(n)
  <2>1. job[n].msg = at[w].msg /\ job[n].tmpl = at[w].tmpl
    BY <1>10 DEF JobRows, JobsOf
  <2>2. \A x, y \in Nat : 1..x = 1..y => x = y
    OBVIOUS
  <2> QED
    BY <1>1, <1>2, <1>10, <2>1, <2>2, StageCount DEF Complete
<1> QED
  BY <1>1, <1>3, <1>9, <1>11, <1>12

\* What a step must not do to the rows: take a job away, change it, or add a
\* stage to a complete one.
RowsKept ==
    \A j \in 1..Len(job) :
        /\ j \in 1..Len(job') /\ job'[j] = job[j]
        /\ Complete(j) => StageNames(j)' = StageNames(j)

\* Kept rows keep what is expanded.
LEMMA ExpandedStays ==
  ASSUME RowsKept, NEW m \in Messages, NEW i, Expanded(m, i)
  PROVE  Expanded(m, i)'
<1>1. PICK j \in JobRows(m, i) : Complete(j)
  BY DEF Expanded
<1>2. /\ j \in 1..Len(job) /\ job[j].msg = m /\ job[j].tmpl = i
  BY DEF JobRows, JobsOf
<1>3. j \in 1..Len(job') /\ job'[j] = job[j] /\ StageNames(j)' = StageNames(j)
  BY <1>1, <1>2 DEF RowsKept
<1>4. Complete(j)'
  BY <1>1, <1>3 DEF Complete, StageTemplates
<1>5. j \in JobRows(m, i)'
  BY <1>2, <1>3 DEF JobRows, JobsOf
<1> QED
  BY <1>4, <1>5 DEF Expanded

\* When the job in hand is complete, all templates up to its own are through.
LEMMA HandThrough ==
  ASSUME CompleteInv, NEW w \in Workers, pc[w] = "expand", JobComplete(w),
         NEW i \in Selected(at[w].msg) \ Remaining(w)
  PROVE  Expanded(at[w].msg, i)
<1>1. at[w].msg \in Messages /\ at[w].tmpl \in Nat /\ i \in Nat \ {0} /\ i <= at[w].tmpl
  BY DEF CompleteInv, ExpansionInv, TypeOK, ExpansionOK, HandOK, Remaining, Selected
<1>2. CASE i < at[w].tmpl
  BY <1>2 DEF CompleteInv, DoneBefore
<1>3. CASE i = at[w].tmpl
  <2>1. /\ at[w].job \in JobRows(at[w].msg, i)
        /\ StageNames(at[w].job) = 1..Len(StageTemplates(at[w].msg, i))
    BY <1>1, <1>3 DEF CompleteInv, HandRows, JobComplete
  <2>2. Complete(at[w].job)
    BY <2>1 DEF Complete, JobRows, JobsOf
  <2> QED
    BY <2>1, <2>2 DEF Expanded
<1> QED
  BY <1>1, <1>2, <1>3

\* Steps that insert nothing: hands are only emptied, and unless it is the
\* commit nothing gets IN_PROCESS.
LEMMA QuietKeepsCompleteInv ==
  ASSUME CompleteInv, ExpansionInv', UNCHANGED <<job, stage>>,
         \A v \in Workers : pc'[v] = "expand" =>
            at'[v].tmpl = 0 \/ (pc[v] = "expand" /\ at'[v] = at[v]),
         \A m \in Messages : message'[m].state = "IN_PROCESS" =>
            message[m].state = "IN_PROCESS" \/ \A i \in Selected(m) : Expanded(m, i)
  PROVE  CompleteInv'
<1>1. RowsKept
  BY DEF RowsKept, StageNames, StagesOf
<1>2. HandRows'
  BY DEF CompleteInv, HandRows, JobRows, JobsOf, StageNames, StagesOf
<1>3. DistinctHands'
  BY DEF CompleteInv, DistinctHands
<1>4. \A v \in Workers : pc'[v] = "expand" => at'[v].msg \in Messages
  BY DEF ExpansionInv, HandOK
<1>5. DoneBefore'
  <2> SUFFICES ASSUME NEW v \in Workers, pc'[v] = "expand",
                      NEW i \in Selected(at'[v].msg), i < at'[v].tmpl, 
                      NEW m \in Messages, m = at'[v].msg
               PROVE  Expanded(m, i)'
    BY <1>4 DEF DoneBefore, Selected
  <2>1. at'[v].tmpl # 0
    BY DEF Selected
  <2>2. Expanded(m, i)
    BY <2>1 DEF CompleteInv, DoneBefore
  <2> QED
    BY <1>1, <2>2, ExpandedStays
<1>6. CommittedIsComplete'
  <2> SUFFICES ASSUME NEW m \in Messages, message'[m].state = "IN_PROCESS",
                      NEW i \in Selected(m)
               PROVE  Expanded(m, i)'
    BY DEF CommittedIsComplete, Selected
  <2>1. Expanded(m, i)
    BY DEF CompleteInv, CommittedIsComplete
  <2> QED
    BY <1>1, <2>1, ExpandedStays
<1> QED
  BY <1>2, <1>3, <1>5, <1>6 DEF CompleteInv

\* INSERT_JOB starts on the first template that is not through.
LEMMA InsertJobKeepsCompleteInv ==
  ASSUME NEW w \in Workers, CompleteInv, ExpansionInv', InsertJob(w)
  PROVE  CompleteInv'
<1>0. PICK n : n = Len(job) + 1
  OBVIOUS
<1>1. ExpansionInv /\ \A v \in Workers : pc'[v] = "expand" => at'[v].msg \in Messages
  BY DEF CompleteInv, ExpansionInv, HandOK
<1>2. /\ Len(job') = n
      /\ at'[w].msg = at[w].msg /\ at'[w].job = n /\ at'[w].done = 0
      /\ at'[w].tmpl \in Remaining(w)
      /\ \A k \in Remaining(w) : at'[w].tmpl <= k
      /\ \A v \in Workers : v # w => at'[v] = at[v]
      /\ job'[n].msg = at[w].msg /\ job'[n].tmpl = at'[w].tmpl
      /\ StageNames(n)' = {}
      /\ \A j \in 1..Len(job) : job'[j] = job[j] /\ StageNames(j)' = StageNames(j)
  BY <1>1, <1>0, InsertJobRows
<1>3. /\ n = Len(job) + 1 /\ Len(job) \in Nat
      /\ pc' = pc /\ message' = message /\ pc[w] = "expand" /\ JobComplete(w)
  BY <1>1, <1>0, RowTypes DEF InsertJob
<1>4. RowsKept
  BY <1>2, <1>3 DEF RowsKept
<1>5. \A v \in Workers : v # w /\ pc[v] = "expand" /\ at[v].tmpl # 0 =>
         /\ at[v].job \in 1..Len(job)
         /\ job[at[v].job].msg = at[v].msg /\ job[at[v].job].tmpl = at[v].tmpl
         /\ StageNames(at[v].job) = 1..at[v].done
  BY DEF CompleteInv, HandRows, JobRows, JobsOf
<1>6. HandRows'
  <2> SUFFICES ASSUME NEW v \in Workers, pc'[v] = "expand", at'[v].tmpl # 0,
                      NEW j, j = at'[v].job
               PROVE  /\ j \in 1..Len(job')
                      /\ job'[j].msg = at'[v].msg /\ job'[j].tmpl = at'[v].tmpl
                      /\ StageNames(j)' = 1..at'[v].done
    BY DEF HandRows, JobRows, JobsOf, StageNames, StagesOf
  <2>1. CASE v = w
    <3>1. 1..0 = {}
      OBVIOUS
    <3>2. j = n /\ StageNames(j)' = StageNames(n)'
      BY <1>2, <2>1 DEF StageNames, StagesOf
    <3>3. j \in 1..Len(job')
      BY <1>2, <1>3, <3>2
    <3>4. StageNames(j)' = {} /\ at'[v].done = 0
      BY <1>2, <2>1, <3>2
    <3> QED
      BY <1>2, <2>1, <3>1, <3>2, <3>3, <3>4
  <2>2. CASE v # w
    BY <1>2, <1>3, <1>5, <2>2 DEF JobRows, JobsOf
  <2> QED
    BY <2>1, <2>2
<1>7. DistinctHands'
  BY <1>2, <1>3, <1>5 DEF CompleteInv, DistinctHands
<1>8. DoneBefore'
  <2> SUFFICES ASSUME NEW v \in Workers, pc'[v] = "expand",
                      NEW m \in Messages, m = at'[v].msg,
                      NEW i \in Selected(m), i < at'[v].tmpl
               PROVE  Expanded(m, i)'
    BY <1>1 DEF DoneBefore, Selected
  <2>1. CASE v = w
    <3>1. at'[w].tmpl \in Nat /\ i \in Nat /\ m = at[w].msg
      BY <1>2, <2>1 DEF Remaining, Selected
    <3>2. i \notin Remaining(w)
      BY <1>2, <2>1, <3>1
    <3> QED
      BY <1>3, <1>4, <3>1, <3>2, HandThrough, ExpandedStays
  <2>2. CASE v # w
    BY <1>2, <1>3, <1>4, <2>2, ExpandedStays DEF CompleteInv, DoneBefore
  <2> QED
    BY <2>1, <2>2
<1>9. CommittedIsComplete'
  <2> SUFFICES ASSUME NEW m \in Messages, message[m].state = "IN_PROCESS",
                      NEW i \in Selected(m)
               PROVE  Expanded(m, i)'
    BY <1>3 DEF CommittedIsComplete, Selected
  <2> QED
    BY <1>4, ExpandedStays DEF CompleteInv, CommittedIsComplete
<1> QED
  BY <1>6, <1>7, <1>8, <1>9 DEF CompleteInv

\* INSERT_STAGE adds to the worker's own job, which was not complete.
LEMMA InsertStageKeepsCompleteInv ==
  ASSUME NEW w \in Workers, CompleteInv, ExpansionInv', InsertStage(w)
  PROVE  CompleteInv'
<1> DEFINE n == at[w].job
<1>1. /\ ExpansionInv /\ HandRows
      /\ \A v \in Workers : pc'[v] = "expand" => at'[v].msg \in Messages
  BY DEF CompleteInv, ExpansionInv, HandOK
<1>2. /\ at[w].tmpl # 0 /\ pc[w] = "expand"
      /\ at'[w].msg = at[w].msg /\ at'[w].tmpl = at[w].tmpl /\ at'[w].job = n
      /\ at'[w].done = at[w].done + 1
      /\ \A v \in Workers : v # w => at'[v] = at[v]
  BY <1>1, InsertStageRows
<1>3. PICK own : own = n
  OBVIOUS
<1>4. /\ StageNames(own)' = 1..(at[w].done + 1)
      /\ \A j : j # own => StageNames(j)' = StageNames(j)
      /\ ~Complete(own)
  BY <1>1, <1>3, InsertStageRows
<1>5. pc' = pc /\ message' = message /\ job' = job
  BY DEF InsertStage
<1>6. RowsKept
  BY <1>4, <1>5 DEF RowsKept
<1>7. HandRows'
  <2> SUFFICES ASSUME NEW v \in Workers, pc'[v] = "expand", at'[v].tmpl # 0,
                      NEW j, j = at'[v].job
               PROVE  /\ j \in 1..Len(job')
                      /\ job'[j].msg = at'[v].msg /\ job'[j].tmpl = at'[v].tmpl
                      /\ StageNames(j)' = 1..at'[v].done
    BY DEF HandRows, JobRows, JobsOf, StageNames, StagesOf
  <2>1. CASE v = w
    BY <1>1, <1>2, <1>3, <1>4, <1>5, <2>1 DEF HandRows, JobRows, JobsOf
  <2>2. CASE v # w
    <3>1. j # own
      BY <1>2, <1>3, <1>5, <2>2 DEF CompleteInv, DistinctHands
    <3> QED
      BY <1>1, <1>2, <1>4, <1>5, <2>2, <3>1 DEF HandRows, JobRows, JobsOf
  <2> QED
    BY <2>1, <2>2
<1>8. DistinctHands'
  BY <1>2, <1>5 DEF CompleteInv, DistinctHands
<1>9. DoneBefore'
  <2> SUFFICES ASSUME NEW v \in Workers, pc'[v] = "expand",
                      NEW m \in Messages, m = at'[v].msg,
                      NEW i \in Selected(m), i < at'[v].tmpl
               PROVE  Expanded(m, i)'
    BY <1>1 DEF DoneBefore, Selected
  <2>1. pc[v] = "expand" /\ at'[v].msg = at[v].msg /\ at'[v].tmpl = at[v].tmpl
    BY <1>2, <1>5
  <2> QED
    BY <1>6, <2>1, ExpandedStays DEF CompleteInv, DoneBefore
<1>10. CommittedIsComplete'
  <2> SUFFICES ASSUME NEW m \in Messages, message[m].state = "IN_PROCESS",
                      NEW i \in Selected(m)
               PROVE  Expanded(m, i)'
    BY <1>5 DEF CommittedIsComplete, Selected
  <2> QED
    BY <1>6, ExpandedStays DEF CompleteInv, CommittedIsComplete
<1> QED
  BY <1>7, <1>8, <1>9, <1>10 DEF CompleteInv

\* The commit comes when no template is left and the last job is complete.
LEMMA CommitKeepsCompleteInv ==
  ASSUME NEW w \in Workers, CompleteInv, ExpansionInv', Commit(w)
  PROVE  CompleteInv'
<1>1. /\ pc[w] = "expand" /\ JobComplete(w) /\ Remaining(w) = {}
      /\ UNCHANGED <<job, stage>>
  BY DEF Commit
<1>2. \A i \in Selected(at[w].msg) : Expanded(at[w].msg, i)
  BY <1>1, HandThrough
<1>3. \A m \in Messages : m # at[w].msg => message'[m] = message[m]
  BY DEF Commit, CasMessage, CompleteInv, ExpansionInv, TypeOK, TablesOK
<1>4. \A v \in Workers : pc'[v] = "expand" => pc[v] = "expand" /\ at'[v] = at[v]
  BY DEF Commit, GoTo, CompleteInv, ExpansionInv, TypeOK, TablesOK, ExpansionOK
<1> QED
  BY <1>1, <1>2, <1>3, <1>4, QuietKeepsCompleteInv

\* The other steps insert nothing and commit nothing.
LEMMA OthersKeepCompleteInv ==
  ASSUME CompleteInv, ExpansionInv',
         \/ UNCHANGED vars
         \/ Tick
         \/ \E m \in Messages : Emit(m)
         \/ \E w \in Workers :
               \/ Pick(w) \/ TemplateMissing(w) \/ CommitFails(w) \/ EndExpansion(w)
               \/ ExpansionAborts(w) \/ RestOfBeat(w)
               \/ \E row \in batch[w] : Claim(w, row) \/ ClaimMiss(w, row)
  PROVE  CompleteInv'
<1>1. TypeOK
  BY DEF CompleteInv, ExpansionInv
<1>2. CASE UNCHANGED vars \/ Tick
  BY <1>2, QuietKeepsCompleteInv DEF vars, tableVars, tables, expansionVars, Tick
<1>3. CASE \E m \in Messages : Emit(m)
  <2>1. /\ UNCHANGED <<job, stage, pc, at>>
        /\ \A m \in Messages : message'[m].state = "IN_PROCESS" =>
              message[m].state = "IN_PROCESS"
    BY <1>1, <1>3 DEF Emit, expansionVars, TypeOK, TablesOK
  <2> QED
    BY <2>1, QuietKeepsCompleteInv
<1>4. ASSUME NEW w \in Workers,
             \/ Pick(w) \/ TemplateMissing(w) \/ CommitFails(w) \/ EndExpansion(w)
             \/ ExpansionAborts(w) \/ RestOfBeat(w)
             \/ \E row \in batch[w] : ClaimMiss(w, row)
      PROVE  CompleteInv'
  <2>1. UNCHANGED <<message, job, stage>>
    BY <1>4 DEF Pick, TemplateMissing, CommitFails, EndExpansion, ExpansionAborts,
                RestOfBeat, ClaimMiss, tableVars, tables
  <2>2. \A v \in Workers : pc'[v] = "expand" => pc[v] = "expand" /\ at'[v] = at[v]
    BY <1>1, <1>4 DEF Pick, TemplateMissing, CommitFails, EndExpansion, ExpansionAborts,
                RestOfBeat, ClaimMiss, tableVars, GoTo, ForgetExpansion, expansionVars,
                TypeOK, TablesOK, ExpansionOK
  <2> QED
    BY <2>1, <2>2, QuietKeepsCompleteInv
<1>5. ASSUME NEW w \in Workers, NEW row \in batch[w], Claim(w, row)
      PROVE  CompleteInv'
  <2>1. /\ UNCHANGED <<job, stage>>
        /\ \A m \in Messages : message'[m].state = "IN_PROCESS" =>
              message[m].state = "IN_PROCESS"
    BY <1>1, <1>5 DEF Claim, CasMessage, TypeOK, TablesOK
  <2>2. at'[w].tmpl = 0
    BY <1>1, <1>5 DEF Claim, NotExpanding, TypeOK, ExpansionOK
  <2>3. \A v \in Workers : v # w => pc'[v] = pc[v] /\ at'[v] = at[v]
    BY <1>1, <1>5 DEF Claim, GoTo, TypeOK, TablesOK, ExpansionOK
  <2> QED
    BY <2>1, <2>2, <2>3, QuietKeepsCompleteInv
<1> QED
  BY <1>2, <1>3, <1>4, <1>5

\* The strengthened invariant holds in every reachable state.
LEMMA CompleteInvariant == Spec => []CompleteInv
<1>1. Init => CompleteInv
  <2> SUFFICES ASSUME Init
               PROVE  CompleteInv
    OBVIOUS
  <2>1. \A w \in Workers : pc[w] # "expand"
    BY DEF Init, TablesInit, TablesClean
  <2>2. \A m \in Messages : message[m].state # "IN_PROCESS"
    BY DEF Init, TablesInit, TablesClean
  <2> QED
    BY <2>1, <2>2, InitSatisfiesInv
       DEF CompleteInv, HandRows, DistinctHands, DoneBefore, CommittedIsComplete
<1>2. ASSUME CompleteInv, [Next]_vars
      PROVE  CompleteInv'
  <2>1. ExpansionInv'
    BY <1>2, StepKeepsInv DEF CompleteInv
  <2> QED
    BY <1>2, <2>1, InsertJobKeepsCompleteInv, InsertStageKeepsCompleteInv,
       CommitKeepsCompleteInv, OthersKeepCompleteInv DEF Next, ExpansionStep
<1> QED
  BY <1>1, <1>2, PTL DEF Spec

\* No message leaves EMITTED without a complete job for each of its
\* templates, for all constants: also when locks expire under slow workers,
\* when several expand the message at once, and after crashes.
THEOREM CommitsAreComplete == Spec => []CommittedIsComplete
  BY CompleteInvariant, PTL DEF CompleteInv

------------------------------------------------------------------------------
(* Expanded once: while nobody is slower than the locks it takes, a        *)
(* message in hand has the lock of the one worker that expands it          *)
(* (OwnMessage), and everybody who read it before finds another lock than  *)
(* the one it has in memory (StaleRows).  So nothing that is in hand or    *)
(* committed can be claimed, and the job rows are those of one pass over   *)
(* the templates (JobsOnce).                                               *)

\* Steps that move no lock, and give nobody a lock or a row to wait for.
LEMMA QuietKeepsLocks ==
  ASSUME ExpansionInv, LocksInTime, UNCHANGED <<clock, message, late>>,
         \A v \in Workers :
            /\ batch'[v] \subseteq batch[v]
            /\ pc'[v] \in {"claim", "expand"} =>
                  pc[v] \in {"claim", "expand"} /\ readAt'[v] = readAt[v]
            /\ pc'[v] = "expand" => pc[v] = "expand" /\ at'[v].msg = at[v].msg
  PROVE  LocksInTime'
<1>1. InTime'
  BY DEF LocksInTime, InTime, NewLock
<1>2. OwnMessage'
  BY DEF LocksInTime, OwnMessage, NewLock
<1>3. \A m : InHand(m)' => InHand(m)
  BY DEF InHand, Expanding
<1>4. StaleRows'
  BY <1>3 DEF LocksInTime, StaleRows
<1> QED
  BY <1>1, <1>2, <1>4 DEF LocksInTime

\* A message that is posted is in nobody's batch.
LEMMA EmitKeepsLocks ==
  ASSUME NEW m \in Messages, ExpansionInv, LocksInTime, Emit(m)
  PROVE  LocksInTime'
<1> USE DEF Emit, expansionVars
<1>1. \A n \in Messages : message[n].state # "none" => message'[n] = message[n]
  BY DEF ExpansionInv, TypeOK, TablesOK
<1>2. InTime'
  BY DEF LocksInTime, InTime, NewLock
<1>3. OwnMessage'
  BY <1>1 DEF LocksInTime, OwnMessage, NewLock, ExpansionInv, HandOK
<1>4. \A w \in Workers : \A row \in batch[w] :
         row.msg \in Messages /\ message[row.msg].state # "none"
  BY DEF ExpansionInv, TypeOK, ExpansionOK, PastLocks
<1>5. StaleRows'
  BY <1>1, <1>4 DEF LocksInTime, StaleRows, InHand, Expanding
<1> QED
  BY <1>2, <1>3, <1>5 DEF LocksInTime

\* The clock passes nobody's lock without making that worker late.
LEMMA TickKeepsLocks ==
  ASSUME ExpansionInv, LocksInTime, Tick
  PROVE  LocksInTime'
<1> USE DEF Tick, tables
<1>1. \A w \in Workers : clock \in Nat /\ NewLock(w) \in Nat
  BY LockDurationAssumption, TimeBoundAssumption
     DEF ExpansionInv, TypeOK, TablesOK, ExpansionOK, NewLock
<1>2. InTime'
  <2> SUFFICES ASSUME ~late', NEW w \in Workers, pc[w] \in {"claim", "expand"}
               PROVE  clock + 1 <= NewLock(w)
    BY DEF InTime, NewLock
  <2>1. ~(clock >= NewLock(w))
    BY DEF Overrun
  <2> QED
    BY <1>1, <2>1
<1>3. OwnMessage' /\ StaleRows'
  BY DEF LocksInTime, OwnMessage, StaleRows, InHand, Expanding, NewLock
<1> QED
  BY <1>2, <1>3 DEF LocksInTime

\* The SELECT returns no message that is in hand: its lock is not over.
LEMMA PickKeepsLocks ==
  ASSUME NEW w \in Workers, ExpansionInv, LocksInTime, Pick(w)
  PROVE  LocksInTime'
<1> USE DEF Pick, tables, GoTo
<1>1. /\ clock \in Nat /\ readAt'[w] = clock
      /\ \A v \in Workers : pc'[v] = "expand" => v # w /\ pc[v] = "expand"
      /\ \A v \in Workers : v # w =>
            pc'[v] = pc[v] /\ readAt'[v] = readAt[v] /\ batch'[v] = batch[v]
  BY DEF ExpansionInv, TypeOK, TablesOK, ExpansionOK
<1>2. InTime'
  <2>1. clock <= clock + LockDuration
    BY <1>1, LockDurationAssumption
  <2> QED
    BY <1>1, <2>1 DEF LocksInTime, InTime, NewLock
<1>3. OwnMessage'
  BY <1>1 DEF LocksInTime, OwnMessage, NewLock
<1>4. \A m : InHand(m)' => InHand(m)
  BY <1>1 DEF InHand, Expanding
<1>5. \A row \in batch'[w] : /\ row.msg \in Messages /\ row.lock < clock
                             /\ message[row.msg].state = "EMITTED"
                             /\ message[row.msg].lock = row.lock
  BY DEF ExpansionInv, TypeOK, TablesOK, ExpansionOK
<1>6. ASSUME ~late, NEW row \in batch'[w]
      PROVE  ~InHand(row.msg)
  <2>1. SUFFICES ASSUME NEW v \in Workers, pc[v] = "expand", at[v].msg = row.msg
                 PROVE  FALSE
    BY DEF InHand, Expanding
  <2>2. clock <= NewLock(v) /\ message[row.msg].lock = NewLock(v) /\ NewLock(v) \in Nat
    BY <1>6, <2>1, LockDurationAssumption
       DEF LocksInTime, InTime, OwnMessage, NewLock, ExpansionInv, TypeOK, ExpansionOK
  <2>3. message[row.msg].lock \in Nat
    BY <2>2
  <2> QED
    BY <1>1, <1>5, <2>2, <2>3
<1>7. StaleRows'
  <2> SUFFICES ASSUME ~late, NEW v \in Workers, NEW row \in batch'[v],
                      InHand(row.msg)' \/ message[row.msg].state # "EMITTED"
               PROVE  row.lock < message[row.msg].lock
    BY DEF StaleRows
  <2>1. CASE v = w
    BY <1>4, <1>5, <1>6, <2>1
  <2>2. CASE v # w
    BY <1>1, <1>4, <2>2 DEF LocksInTime, StaleRows
  <2> QED
    BY <2>1, <2>2
<1> QED
  BY <1>2, <1>3, <1>7 DEF LocksInTime

\* Nobody can claim what is in hand or committed.
LEMMA ClaimIsFirst ==
  ASSUME NEW w \in Workers, NEW row \in batch[w], ExpansionInv, LocksInTime, Claim(w, row),
         ~late
  PROVE  /\ row.msg \in Messages
         /\ message[row.msg].state = "EMITTED"
         /\ ~InHand(row.msg)
<1>1. /\ row.msg \in Messages /\ row.lock = message[row.msg].lock /\ row.lock \in Nat
  BY DEF Claim, CasMessage, ExpansionInv, TypeOK, ExpansionOK
<1> QED
  BY <1>1 DEF LocksInTime, StaleRows

\* A claim leaves all other readers of the message with an older lock.
LEMMA ClaimKeepsLocks ==
  ASSUME NEW w \in Workers, NEW row \in batch[w], ExpansionInv, LocksInTime, Claim(w, row)
  PROVE  LocksInTime'
<1> DEFINE m == row.msg
<1> USE DEF Claim, GoTo, CasMessage, NotExpanding
<1>1. /\ m \in Messages /\ row.lock \in Nat /\ row.lock = message[m].lock
      /\ readAt[w] \in Nat /\ row.lock < readAt[w] /\ pc[w] = "claim"
      /\ NewLock(w) \in Nat /\ row.lock < NewLock(w)
  BY LockDurationAssumption DEF ExpansionInv, TypeOK, ExpansionOK, PastLocks, NewLock
<1>2. /\ message'[m] = [state |-> "EMITTED", lock |-> NewLock(w)]
      /\ \A n \in Messages : n # m => message'[n] = message[n]
  BY <1>1 DEF ExpansionInv, TypeOK, TablesOK
<1>3. /\ pc'[w] = "expand" /\ at'[w].msg = m
      /\ \A v \in Workers : v # w => pc'[v] = pc[v] /\ at'[v] = at[v]
      /\ \A v \in Workers : batch'[v] \subseteq batch[v]
      /\ UNCHANGED <<clock, late, readAt>>
  BY DEF ExpansionInv, TypeOK, TablesOK, ExpansionOK
<1>4. InTime'
  BY <1>1, <1>3 DEF LocksInTime, InTime, NewLock
<1>5. OwnMessage'
  <2> SUFFICES ASSUME ~late, NEW v \in Workers, pc'[v] = "expand"
               PROVE  /\ message'[at'[v].msg].state = "EMITTED"
                      /\ message'[at'[v].msg].lock = NewLock(v)
    BY <1>3 DEF OwnMessage, NewLock
  <2>1. CASE v = w
    BY <1>2, <1>3, <2>1
  <2>2. CASE v # w
    <3>1. pc[v] = "expand" /\ at'[v] = at[v] /\ at[v].msg \in Messages
      BY <1>3, <2>2 DEF ExpansionInv, HandOK
    <3>2. at[v].msg # m
      BY <3>1, ClaimIsFirst DEF InHand, Expanding
    <3> QED
      BY <1>2, <3>1, <3>2 DEF LocksInTime, OwnMessage
  <2> QED
    BY <2>1, <2>2
<1>6. StaleRows'
  <2> SUFFICES ASSUME ~late, NEW v \in Workers, NEW r \in batch[v],
                      InHand(r.msg)' \/ message'[r.msg].state # "EMITTED"
               PROVE  r.lock < message'[r.msg].lock
    BY <1>3 DEF StaleRows
  <2>1. r.msg \in Messages /\ r.lock \in Nat /\ r.lock <= message[r.msg].lock
    BY DEF ExpansionInv, TypeOK, ExpansionOK, PastLocks
  <2>2. CASE r.msg = m
    BY <1>1, <1>2, <2>1, <2>2
  <2>3. CASE r.msg # m
    <3>1. InHand(r.msg)' => InHand(r.msg)
      BY <1>3, <2>3 DEF InHand, Expanding
    <3> QED
      BY <1>2, <2>1, <2>3, <3>1 DEF LocksInTime, StaleRows
  <2> QED
    BY <2>2, <2>3
<1> QED
  BY <1>4, <1>5, <1>6 DEF LocksInTime

\* Two workers in time never have one message in hand.
LEMMA OneHand ==
  ASSUME ExpansionInv, LocksInTime, ~late,
         NEW v \in Workers, NEW w \in Workers,
         pc[v] = "expand", pc[w] = "expand", at[v].msg = at[w].msg
  PROVE  v = w
<1>1. NewLock(v) = NewLock(w)
  BY DEF LocksInTime, OwnMessage
<1>2. readAt[v] \in Nat /\ readAt[w] \in Nat
  BY DEF ExpansionInv, TypeOK, ExpansionOK
<1>3. readAt[v] = readAt[w]
  BY <1>1, <1>2 DEF NewLock
<1> QED
  BY <1>3 DEF ExpansionInv, DistinctReads

\* The commit takes the message out of the only hand it was in.
LEMMA CommitKeepsLocks ==
  ASSUME NEW w \in Workers, ExpansionInv, LocksInTime, Commit(w)
  PROVE  LocksInTime'
<1> DEFINE m == at[w].msg
<1> USE DEF Commit, GoTo, CasMessage, NotExpanding
<1>1. m \in Messages /\ message[m].lock = NewLock(w) /\ pc[w] = "expand"
  BY DEF ExpansionInv, HandOK
<1>2. /\ message'[m] = [state |-> "IN_PROCESS", lock |-> message[m].lock]
      /\ \A n \in Messages : n # m => message'[n] = message[n]
  BY <1>1 DEF ExpansionInv, TypeOK, TablesOK
<1>3. /\ pc'[w] = "claim"
      /\ \A v \in Workers : v # w => pc'[v] = pc[v] /\ at'[v] = at[v]
      /\ UNCHANGED <<clock, late, readAt, batch>>
  BY DEF ExpansionInv, TypeOK, TablesOK, ExpansionOK
<1>4. InTime'
  BY <1>1, <1>3 DEF LocksInTime, InTime, NewLock
<1>5. OwnMessage'
  <2> SUFFICES ASSUME ~late, NEW v \in Workers, pc'[v] = "expand"
               PROVE  /\ message'[at'[v].msg].state = "EMITTED"
                      /\ message'[at'[v].msg].lock = NewLock(v)
    BY <1>3 DEF OwnMessage, NewLock
  <2>1. v # w /\ pc[v] = "expand" /\ at'[v] = at[v] /\ at[v].msg \in Messages
    BY <1>3 DEF ExpansionInv, HandOK
  <2>2. at[v].msg # m
    BY <1>1, <2>1, OneHand
  <2> QED
    BY <1>2, <2>1, <2>2 DEF LocksInTime, OwnMessage
<1>6. \A n \in Messages : message'[n].lock = message[n].lock
  BY <1>2
<1>7. InHand(m)
  BY <1>1 DEF InHand, Expanding
<1>8. StaleRows'
  <2> SUFFICES ASSUME ~late, NEW v \in Workers, NEW r \in batch[v],
                      InHand(r.msg)' \/ message'[r.msg].state # "EMITTED"
               PROVE  r.lock < message'[r.msg].lock
    BY <1>3 DEF StaleRows
  <2>1. r.msg \in Messages
    BY DEF ExpansionInv, TypeOK, ExpansionOK
  <2>2. InHand(r.msg)' => InHand(r.msg)
    BY <1>3 DEF InHand, Expanding
  <2> QED
    BY <1>2, <1>6, <1>7, <2>1, <2>2 DEF LocksInTime, StaleRows
<1> QED
  BY <1>4, <1>5, <1>8 DEF LocksInTime

\* Jobs of selected templates share no template's responsibility.
LEMMA OneResponsibleSelected ==
  ASSUME NEW m \in Messages, NEW i \in Selected(m), NEW k \in Selected(m),
         Template[m][i].responsible, Template[m][k].responsible
  PROVE  i = k
<1>1. i \in Nat /\ k \in Nat /\ i >= 1 /\ k >= 1
  BY DEF Selected
<1>2. i < k => i \in 1..(k - 1)
  BY <1>1
<1>3. k < i => k \in 1..(i - 1)
  BY <1>1
<1> QED
  BY <1>1, <1>2, <1>3 DEF Selected

\* Steps that insert nothing and take no expansion away, unless it is one
\* that is cut short, or of a message without jobs.
LEMMA QuietKeepsRows ==
  ASSUME ExpansionInv, RowsOnce, UNCHANGED <<job, stage>>,
         late => late', aborts' = 0 => aborts = 0,
         \A v \in Workers : pc'[v] = "expand" =>
            \/ pc[v] = "expand" /\ at'[v] = at[v]
            \/ aborts = 0 /\ ~late => JobsOf(at'[v].msg) = {},
         aborts' = 0 /\ ~late' => \A m \in Messages :
            message'[m].state \in {"none", "EMITTED"} /\ ~InHand(m)' =>
               \/ message[m].state \in {"none", "EMITTED"} /\ ~InHand(m)
               \/ JobsOf(m) = {}
  PROVE  RowsOnce'
<1>1. JobsSelected'
  BY DEF RowsOnce, JobsSelected, Selected
<1>2. StagesOnce'
  BY DEF RowsOnce, StagesOnce, StagesOf
<1>3. \A m : JobsOf(m)' = JobsOf(m)
  BY DEF JobsOf
<1>4. JobsOnce'
  <2> SUFFICES ASSUME aborts' = 0, ~late', NEW m \in Messages
               PROVE  /\ \A i, j \in JobsOf(m) : job[i].tmpl = job[j].tmpl => i = j
                      /\ message'[m].state \in {"none", "EMITTED"} /\ ~InHand(m)'
                            => JobsOf(m) = {}
                      /\ \A w \in Workers : Expanding(w, m)' =>
                            \A j \in JobsOf(m) : job[j].tmpl <= at'[w].tmpl
    BY <1>3 DEF JobsOnce
  <2>1. aborts = 0 /\ ~late
    OBVIOUS
  <2>2. ASSUME NEW w \in Workers, Expanding(w, m)', NEW j \in JobsOf(m)
        PROVE  job[j].tmpl <= at'[w].tmpl
    <3>1. pc[w] = "expand" /\ at'[w] = at[w] /\ at[w].msg = m
      BY <2>1, <2>2 DEF Expanding
    <3> QED
      BY <2>1, <2>2, <3>1 DEF RowsOnce, JobsOnce, Expanding
  <2> QED
    BY <2>1, <2>2 DEF RowsOnce, JobsOnce
<1> QED
  BY <1>1, <1>2, <1>4 DEF RowsOnce

\* INSERT_JOB: the first job for its template.
LEMMA InsertJobKeepsRows ==
  ASSUME NEW w \in Workers, ExpansionInv, LocksInTime, RowsOnce, InsertJob(w)
  PROVE  RowsOnce'
<1>0. PICK n : n = Len(job) + 1
  OBVIOUS
<1>1. /\ Len(job') = n
      /\ at'[w].msg = at[w].msg
      /\ at'[w].tmpl \in Remaining(w)
      /\ \A v \in Workers : v # w => at'[v] = at[v]
      /\ \A j \in 1..Len(job) : job'[j] = job[j]
  BY <1>0, InsertJobRows
<1>2. /\ pc[w] = "expand" /\ at[w].msg \in Messages \ Undefined
      /\ UNCHANGED <<message, stage, pc, aborts, late>>
  BY DEF InsertJob, ExpansionInv, HandOK
<1>3. /\ at'[w].tmpl \in Selected(at[w].msg)
      /\ at'[w].tmpl \in Nat /\ at[w].tmpl \in Nat /\ at[w].tmpl < at'[w].tmpl
  BY <1>1, <1>2 DEF Remaining, Selected, ExpansionInv, TypeOK, ExpansionOK
<1>4. job'[n] = JobRow(at[w].msg, at'[w].tmpl)
  <2>1. PICK i \in Remaining(w) :
        /\ job' = Append(job, JobRow(at[w].msg, i))
        /\ at' = [at EXCEPT ![w] =
              [msg |-> at[w].msg, tmpl |-> i, job |-> Len(job'), done |-> 0]]
    BY DEF InsertJob
  <2>2. at'[w].tmpl = i
    BY <2>1 DEF ExpansionInv, TypeOK, ExpansionOK
  <2>3. job'[n] = JobRow(at[w].msg, i)
    BY <1>0, <2>1, RowTypes
  <2> QED
    BY <2>2, <2>3
<1>5. /\ job'[n].msg = at[w].msg /\ job'[n].tmpl = at'[w].tmpl
      /\ job'[n].responsible = Template[at[w].msg][at'[w].tmpl].responsible
  BY <1>4 DEF JobRow
<1>6. Len(job) \in Nat /\ n = Len(job) + 1
  BY <1>0, RowTypes
<1>7. JobsSelected'
  <2> SUFFICES ASSUME NEW j \in 1..Len(job')
               PROVE  /\ job'[j].msg \notin Undefined
                      /\ job'[j].tmpl \in Selected(job'[j].msg)
                      /\ job'[j].responsible =
                            Template[job'[j].msg][job'[j].tmpl].responsible
    BY DEF JobsSelected, Selected
  <2>1. CASE j = n
    BY <1>2, <1>3, <1>5, <2>1
  <2>2. CASE j # n
    <3>1. j \in 1..Len(job)
      BY <1>1, <1>6, <2>2
    <3> QED
      BY <1>1, <3>1 DEF RowsOnce, JobsSelected
  <2> QED
    BY <2>1, <2>2
<1>8. StagesOnce'
  <2>1. \A j : StagesOf(j)' = StagesOf(j)
    BY <1>2 DEF StagesOf
  <2>2. StagesOf(n) = {}
    BY <1>6, RowTypes DEF StagesOf
  <2> SUFFICES ASSUME NEW j \in 1..Len(job'), NEW s \in StagesOf(j), NEW t \in StagesOf(j),
                      stage[s].name = stage[t].name
               PROVE  s = t
    BY <1>2, <2>1 DEF StagesOnce
  <2>3. j \in 1..Len(job)
    BY <1>1, <1>6, <2>2
  <2> QED
    BY <2>3 DEF RowsOnce, StagesOnce
<1>9. JobsOnce'
  <2> SUFFICES ASSUME aborts = 0, ~late, NEW m \in Messages
               PROVE  /\ \A i, j \in JobsOf(m)' : job'[i].tmpl = job'[j].tmpl => i = j
                      /\ message[m].state \in {"none", "EMITTED"} /\ ~InHand(m)'
                            => JobsOf(m)' = {}
                      /\ \A v \in Workers : Expanding(v, m)' =>
                            \A j \in JobsOf(m)' : job'[j].tmpl <= at'[v].tmpl
    BY <1>2 DEF JobsOnce
  <2>1. CASE m = at[w].msg
    <3>1. \A j \in JobsOf(m)' : j = n \/ (j \in JobsOf(m) /\ job'[j] = job[j])
      BY <1>1, <1>6 DEF JobsOf
    <3>2. \A j \in JobsOf(m) : job[j].tmpl \in Nat /\ job[j].tmpl <= at[w].tmpl
      BY <1>2, <2>1 DEF RowsOnce, JobsOnce, JobsSelected, Expanding, JobsOf, Selected
    <3>3. \A i, j \in JobsOf(m)' : job'[i].tmpl = job'[j].tmpl => i = j
      BY <1>3, <1>5, <3>1, <3>2 DEF RowsOnce, JobsOnce
    <3>4. InHand(m)'
      BY <1>1, <1>2, <2>1 DEF InHand, Expanding
    <3>5. \A v \in Workers : Expanding(v, m)' => v = w
      <4> SUFFICES ASSUME NEW v \in Workers, v # w, pc[v] = "expand", at[v].msg = m
                   PROVE  FALSE
        BY <1>1, <1>2 DEF Expanding
      <4> QED
        BY <1>2, <2>1, OneHand
    <3>6. \A j \in JobsOf(m)' : job'[j].tmpl <= at'[w].tmpl
      BY <1>3, <1>5, <3>1, <3>2
    <3> QED
      BY <3>3, <3>4, <3>5, <3>6
  <2>2. CASE m # at[w].msg
    <3>1. JobsOf(m)' = JobsOf(m) /\ \A j \in JobsOf(m) : job'[j] = job[j]
      BY <1>1, <1>5, <1>6, <2>2 DEF JobsOf
    <3>2. \A v \in Workers : at'[v].msg = m \/ at[v].msg = m => at'[v] = at[v]
      BY <1>1, <2>2
    <3>3. pc' = pc /\ message' = message
      BY <1>2
    <3>7. InHand(m) => InHand(m)'
      BY <3>2, <3>3 DEF InHand, Expanding
    <3>4. \A i, j \in JobsOf(m) : job[i].tmpl = job[j].tmpl => i = j
      BY DEF RowsOnce, JobsOnce
    <3>5. message[m].state \in {"none", "EMITTED"} /\ ~InHand(m) => JobsOf(m) = {}
      BY DEF RowsOnce, JobsOnce
    <3>6. \A v \in Workers : Expanding(v, m)' => \A j \in JobsOf(m) : job[j].tmpl <= at'[v].tmpl
      <4> SUFFICES ASSUME NEW v \in Workers, pc[v] = "expand", at'[v].msg = m,
                          NEW j \in JobsOf(m)
                   PROVE  job[j].tmpl <= at'[v].tmpl
        BY <3>3 DEF Expanding
      <4>1. at'[v] = at[v] /\ Expanding(v, m)
        BY <3>2 DEF Expanding
      <4> QED
        BY <4>1 DEF RowsOnce, JobsOnce
    <3> QED
      BY <3>1, <3>3, <3>4, <3>5, <3>6, <3>7
  <2> QED
    BY <2>1, <2>2
<1> QED
  BY <1>7, <1>8, <1>9 DEF RowsOnce

\* INSERT_STAGE: a stage the job in hand has no row for yet.
LEMMA InsertStageKeepsRows ==
  ASSUME NEW w \in Workers, CompleteInv, RowsOnce, InsertStage(w)
  PROVE  RowsOnce'
<1>1. ExpansionInv /\ HandRows
  BY DEF CompleteInv
<1>2. PICK n : n = at[w].job
  OBVIOUS
<1>3. /\ at[w].tmpl # 0 /\ pc[w] = "expand"
      /\ at'[w].msg = at[w].msg /\ at'[w].tmpl = at[w].tmpl
      /\ \A v \in Workers : v # w => at'[v] = at[v]
  BY <1>1, InsertStageRows
<1>4. UNCHANGED <<message, job, pc, aborts, late>>
  BY DEF InsertStage
<1>5. PICK row : /\ row = StageRow(n, at[w].msg, at[w].tmpl, at[w].done + 1)
                 /\ stage' = Append(stage, row)
                 /\ row.job = n /\ row.name = at[w].done + 1
  BY <1>2 DEF InsertStage, StageRow
<1>6. /\ Len(stage) \in Nat /\ Len(stage') = Len(stage) + 1
      /\ stage'[Len(stage) + 1] = row
      /\ \A s \in 1..Len(stage) : stage'[s] = stage[s]
  BY <1>1, <1>5 DEF ExpansionInv, TypeOK, TablesOK
<1>7. /\ at[w].done \in Nat
      /\ \A s \in StagesOf(n) : stage[s].name \in 1..at[w].done
  BY <1>1, <1>2, <1>3 DEF HandRows, StageNames, ExpansionInv, TypeOK, ExpansionOK
<1>8. JobsSelected'
  BY <1>4 DEF RowsOnce, JobsSelected, Selected
<1>9. StagesOnce'
  <2> SUFFICES ASSUME NEW j \in 1..Len(job), NEW s \in StagesOf(j)', NEW t \in StagesOf(j)',
                      stage'[s].name = stage'[t].name
               PROVE  s = t
    BY <1>4 DEF StagesOnce
  <2>1. \A x \in StagesOf(j)' :
           \/ x = Len(stage) + 1 /\ j = n /\ stage'[x].name = at[w].done + 1
           \/ x \in StagesOf(j) /\ stage'[x] = stage[x]
    BY <1>5, <1>6 DEF StagesOf
  <2>2. \A x, y \in StagesOf(j) : stage[x].name = stage[y].name => x = y
    BY DEF RowsOnce, StagesOnce
  <2> QED
    BY <1>7, <2>1, <2>2
<1>10. JobsOnce'
  <2>1. \A m : JobsOf(m)' = JobsOf(m)
    BY <1>4 DEF JobsOf
  <2>2. \A v \in Workers : at'[v].msg = at[v].msg /\ at'[v].tmpl = at[v].tmpl
    BY <1>3
  <2>3. \A m, v : v \in Workers => (Expanding(v, m)' <=> Expanding(v, m))
    BY <1>4, <2>2 DEF Expanding
  <2>4. \A m : InHand(m)' <=> InHand(m)
    BY <2>3 DEF InHand
  <2> QED
    BY <1>4, <2>1, <2>2, <2>3, <2>4 DEF RowsOnce, JobsOnce
<1> QED
  BY <1>8, <1>9, <1>10 DEF RowsOnce

\* A claim is the first one: the message has no jobs.
LEMMA ClaimKeepsRows ==
  ASSUME NEW w \in Workers, NEW row \in batch[w], ExpansionInv, LocksInTime, RowsOnce,
         Claim(w, row)
  PROVE  RowsOnce'
<1> DEFINE m == row.msg
<1>1. /\ m \in Messages /\ message[m].state # "none"
      /\ UNCHANGED <<job, stage, aborts, late>>
      /\ pc'[w] = "expand" /\ at'[w].msg = m /\ pc[w] = "claim"
      /\ \A v \in Workers : v # w => pc'[v] = pc[v] /\ at'[v] = at[v]
      /\ \A n \in Messages : n # m => message'[n] = message[n]
  BY DEF Claim, CasMessage, GoTo, NotExpanding, ExpansionInv, TypeOK, TablesOK,
         ExpansionOK, PastLocks
<1>2. ASSUME aborts = 0, ~late
      PROVE  JobsOf(m) = {}
  BY <1>1, <1>2, ClaimIsFirst DEF RowsOnce, JobsOnce
<1>3. InHand(m)'
  BY <1>1 DEF InHand, Expanding
<1>4. \A n : InHand(n) => InHand(n)'
  <2> SUFFICES ASSUME NEW n, NEW v \in Workers, pc[v] = "expand", at[v].msg = n
               PROVE  pc'[v] = "expand" /\ at'[v].msg = n
    BY DEF InHand, Expanding
  <2> QED
    BY <1>1
<1>5. \A v \in Workers : pc'[v] = "expand" =>
         \/ pc[v] = "expand" /\ at'[v] = at[v]
         \/ aborts = 0 /\ ~late => JobsOf(at'[v].msg) = {}
  BY <1>1, <1>2
<1>6. \A n \in Messages :
         message'[n].state \in {"none", "EMITTED"} /\ ~InHand(n)' =>
            message[n].state \in {"none", "EMITTED"} /\ ~InHand(n)
  BY <1>1, <1>3, <1>4
<1> QED
  BY <1>1, <1>5, <1>6, QuietKeepsRows

\* After the commit the message is no longer EMITTED.
LEMMA CommitKeepsRows ==
  ASSUME NEW w \in Workers, ExpansionInv, RowsOnce, Commit(w)
  PROVE  RowsOnce'
<1>1. /\ UNCHANGED <<job, stage, aborts, late>>
      /\ at[w].msg \in Messages /\ pc[w] = "expand" /\ pc'[w] = "claim"
      /\ message'[at[w].msg].state = "IN_PROCESS"
      /\ \A v \in Workers : v # w => pc'[v] = pc[v] /\ at'[v] = at[v]
      /\ \A n \in Messages : n # at[w].msg => message'[n] = message[n]
  BY DEF Commit, CasMessage, GoTo, ExpansionInv, TypeOK, TablesOK, ExpansionOK, HandOK
<1>2. \A v \in Workers : pc'[v] = "expand" => pc[v] = "expand" /\ at'[v] = at[v]
  BY <1>1
<1>3. ASSUME NEW n \in Messages, message'[n].state \in {"none", "EMITTED"}, ~InHand(n)'
      PROVE  message[n].state \in {"none", "EMITTED"} /\ ~InHand(n)
  <2>1. n # at[w].msg
    BY <1>1, <1>3
  <2>2. SUFFICES ASSUME NEW v \in Workers, pc[v] = "expand", at[v].msg = n
                 PROVE  InHand(n)'
    BY <1>1, <1>3, <2>1 DEF InHand, Expanding
  <2>3. pc'[v] = "expand" /\ at'[v].msg = n
    BY <1>1, <2>1, <2>2
  <2> QED
    BY <2>3 DEF InHand, Expanding
<1> QED
  BY <1>1, <1>2, <1>3, QuietKeepsRows

\* A beat that gives its message up while nobody is late and no beat has been
\* cut short has made no jobs of it: the message has no template.
LEMMA LeaveKeepsRows ==
  ASSUME NEW w \in Workers, ExpansionInv, LocksInTime, RowsOnce,
         \/ TemplateMissing(w) \/ CommitFails(w) \/ EndExpansion(w) \/ ExpansionAborts(w)
  PROVE  RowsOnce'
<1> DEFINE m == at[w].msg
<1>1. /\ UNCHANGED <<message, job, stage, late>> /\ pc'[w] \in {"idle", "pick"}
      /\ \A v \in Workers : v # w => pc'[v] = pc[v] /\ at'[v] = at[v]
  BY DEF TemplateMissing, CommitFails, EndExpansion, ExpansionAborts, ForgetExpansion,
         GoTo, tables, ExpansionInv, TypeOK, TablesOK, ExpansionOK
<1>2. aborts \in Nat /\ (aborts' = aborts \/ aborts' = aborts + 1)
  BY AbortBoundAssumption
     DEF TemplateMissing, CommitFails, EndExpansion, ExpansionAborts,
         ExpansionInv, TypeOK, TablesOK
<1>3. ASSUME aborts' = 0, ~late, pc[w] = "expand"
      PROVE  m \in Undefined
  <2>1. ~CommitFails(w)
    BY <1>3 DEF CommitFails, LocksInTime, OwnMessage
  <2>2. ~ExpansionAborts(w)
    BY <1>2, <1>3 DEF ExpansionAborts
  <2>3. ~EndExpansion(w)
    BY <1>3 DEF EndExpansion
  <2> QED
    BY <2>1, <2>2, <2>3 DEF TemplateMissing
<1>4. m \in Undefined => JobsOf(m) = {}
  BY DEF RowsOnce, JobsSelected, JobsOf
<1>5. \A v \in Workers : pc'[v] = "expand" => pc[v] = "expand" /\ at'[v] = at[v]
  BY <1>1
<1>6. ASSUME aborts' = 0, ~late, NEW n \in Messages, InHand(n), ~InHand(n)'
      PROVE  JobsOf(n) = {}
  <2>1. PICK v \in Workers : pc[v] = "expand" /\ at[v].msg = n
    BY <1>6 DEF InHand, Expanding
  <2>2. v = w
    <3>1. SUFFICES ASSUME v # w
                   PROVE  InHand(n)'
      BY <1>6
    <3>2. pc'[v] = "expand" /\ at'[v].msg = n
      BY <1>1, <2>1, <3>1
    <3> QED
      BY <3>2 DEF InHand, Expanding
  <2> QED
    BY <1>3, <1>4, <1>6, <2>1, <2>2
<1> QED
  BY <1>1, <1>2, <1>5, <1>6, QuietKeepsRows

\* The other steps neither insert rows nor take a message or give it up.
LEMMA OthersKeepRows ==
  ASSUME ExpansionInv, RowsOnce,
         \/ UNCHANGED vars
         \/ Tick
         \/ \E m \in Messages : Emit(m)
         \/ \E w \in Workers :
               Pick(w) \/ RestOfBeat(w) \/ \E row \in batch[w] : ClaimMiss(w, row)
  PROVE  RowsOnce'
<1>1. TypeOK
  BY DEF ExpansionInv
<1>2. UNCHANGED <<job, stage, aborts, at>> /\ (Tick \/ UNCHANGED late)
  BY DEF vars, tableVars, tables, expansionVars, Tick, Emit, Pick, RestOfBeat, ClaimMiss
<1>3. \A v \in Workers : pc'[v] = "expand" <=> pc[v] = "expand"
  BY <1>1 DEF vars, tableVars, tables, expansionVars, Tick, Emit, Pick, RestOfBeat,
              ClaimMiss, GoTo, TypeOK, TablesOK
<1>4. \A n : InHand(n) => InHand(n)'
  BY <1>2, <1>3 DEF InHand, Expanding
<1>5. \A n \in Messages : message'[n].state = message[n].state
                          \/ message[n].state = "none"
  BY <1>1 DEF vars, tableVars, tables, expansionVars, Tick, Emit, Pick, RestOfBeat,
              ClaimMiss, TypeOK, TablesOK
<1>6. \A n \in Messages : message[n].state = "none" => ~InHand(n)
  BY DEF ExpansionInv, HandOK, InHand, Expanding
<1>7. \A n \in Messages :
         message'[n].state \in {"none", "EMITTED"} /\ ~InHand(n)' =>
            message[n].state \in {"none", "EMITTED"} /\ ~InHand(n)
  BY <1>4, <1>5, <1>6
<1>8. late => late'
  BY <1>2, Zenon DEF Tick
<1> QED
  BY <1>2, <1>3, <1>7, <1>8, QuietKeepsRows

\* The invariant is inductive.
LEMMA StepKeepsOnceInv ==
  ASSUME OnceInv, [Next]_vars
  PROVE  LocksInTime' /\ RowsOnce'
<1>1. ExpansionInv /\ CompleteInv /\ LocksInTime /\ RowsOnce
  BY DEF OnceInv, CompleteInv
<1>2. CASE UNCHANGED vars \/ (\E w \in Workers : RestOfBeat(w))
  <2>1. UNCHANGED <<clock, message, late, batch, readAt, at>>
    BY <1>2 DEF vars, tableVars, tables, expansionVars, RestOfBeat
  <2>2. \A v \in Workers : pc'[v] \in {"claim", "expand"} => pc'[v] = pc[v]
    BY <1>1, <1>2 DEF vars, tableVars, RestOfBeat, GoTo, ExpansionInv, TypeOK, TablesOK
  <2> QED
    BY <1>1, <1>2, <2>1, <2>2, QuietKeepsLocks, OthersKeepRows
<1>3. CASE \E m \in Messages : Emit(m)
  BY <1>1, <1>3, EmitKeepsLocks, OthersKeepRows
<1>4. CASE Tick
  BY <1>1, <1>4, TickKeepsLocks, OthersKeepRows
<1>5. ASSUME NEW w \in Workers, Pick(w)
      PROVE  LocksInTime' /\ RowsOnce'
  BY <1>1, <1>5, PickKeepsLocks, OthersKeepRows
<1>6. ASSUME NEW w \in Workers, NEW row \in batch[w], Claim(w, row)
      PROVE  LocksInTime' /\ RowsOnce'
  BY <1>1, <1>6, ClaimKeepsLocks, ClaimKeepsRows
<1>7. ASSUME NEW w \in Workers, NEW row \in batch[w], ClaimMiss(w, row)
      PROVE  LocksInTime' /\ RowsOnce'
  <2>1. /\ UNCHANGED <<clock, message, late, readAt, pc, at>>
        /\ \A v \in Workers : batch'[v] \subseteq batch[v]
    BY <1>1, <1>7 DEF ClaimMiss, tableVars, tables, ExpansionInv, TypeOK, ExpansionOK
  <2> QED
    BY <1>1, <1>7, <2>1, QuietKeepsLocks, OthersKeepRows
<1>8. ASSUME NEW w \in Workers, InsertJob(w) \/ InsertStage(w)
      PROVE  LocksInTime' /\ RowsOnce'
  <2>1. UNCHANGED <<clock, message, late, readAt, batch, pc>>
    BY <1>8 DEF InsertJob, InsertStage
  <2>2. \A v \in Workers : at'[v].msg = at[v].msg
    <3>1. PICK n : n = Len(job) + 1
      OBVIOUS
    <3>2. CASE InsertJob(w)
      BY <1>1, <3>1, <3>2, InsertJobRows
    <3>3. CASE InsertStage(w)
      BY <1>1, <3>3, InsertStageRows DEF CompleteInv
    <3> QED
      BY <1>8, <3>2, <3>3
  <2>3. LocksInTime'
    BY <1>1, <2>1, <2>2, QuietKeepsLocks
  <2> QED
    BY <1>1, <1>8, <2>3, InsertJobKeepsRows, InsertStageKeepsRows
<1>9. ASSUME NEW w \in Workers, Commit(w)
      PROVE  LocksInTime' /\ RowsOnce'
  BY <1>1, <1>9, CommitKeepsLocks, CommitKeepsRows
<1>10. ASSUME NEW w \in Workers,
              \/ TemplateMissing(w) \/ CommitFails(w) \/ EndExpansion(w) \/ ExpansionAborts(w)
       PROVE  LocksInTime' /\ RowsOnce'
  <2>1. /\ UNCHANGED <<clock, message, late>> /\ pc'[w] \in {"idle", "pick"}
        /\ batch'[w] = {}
        /\ \A v \in Workers : v # w =>
              /\ pc'[v] = pc[v] /\ at'[v] = at[v]
              /\ readAt'[v] = readAt[v] /\ batch'[v] = batch[v]
    BY <1>1, <1>10
       DEF TemplateMissing, CommitFails, EndExpansion, ExpansionAborts, ForgetExpansion,
           GoTo, tables, ExpansionInv, TypeOK, TablesOK, ExpansionOK
  <2>2. LocksInTime'
    BY <1>1, <2>1, QuietKeepsLocks
  <2> QED
    BY <1>1, <1>10, <2>2, LeaveKeepsRows
<1> QED
  BY <1>2, <1>3, <1>4, <1>5, <1>6, <1>7, <1>8, <1>9, <1>10 DEF Next, ExpansionStep

\* The strengthened invariant holds in every reachable state.
LEMMA OnceInvariant == Spec => []OnceInv
<1>1. Init => LocksInTime /\ RowsOnce
  <2> SUFFICES ASSUME Init
               PROVE  LocksInTime /\ RowsOnce
    OBVIOUS
  <2>1. /\ job = <<>> /\ stage = <<>>
        /\ \A w \in Workers : pc[w] = "idle" /\ batch[w] = {}
    BY DEF Init, TablesInit, TablesClean, ExpansionInit
  <2>2. LocksInTime
    BY <2>1 DEF LocksInTime, InTime, OwnMessage, StaleRows
  <2>3. 1..Len(job) = {}
    BY <2>1
  <2>4. RowsOnce
    BY <2>1, <2>3 DEF RowsOnce, JobsSelected, StagesOnce, JobsOnce, JobsOf, Expanding
  <2> QED
    BY <2>2, <2>4
<1>2. OnceInv /\ [Next]_vars => LocksInTime' /\ RowsOnce'
  BY StepKeepsOnceInv
<1>3. OnceInv <=> CompleteInv /\ LocksInTime /\ RowsOnce
  BY DEF OnceInv
<1> QED
  BY <1>1, <1>2, <1>3, CompleteInvariant, PTL DEF Spec

\* Workers that race for a message, all within their locks and none cut
\* short, make one job per template of it, one of them responsible, and one
\* row per stage, for any number of workers, messages and templates.
THEOREM ExpansionsHappenOnce == Spec => []ExpandedOnce
<1>1. OnceInv => ExpandedOnce
  <2> SUFFICES ASSUME OnceInv, aborts = 0, ~late, NEW m \in Messages,
                      NEW i \in JobsOf(m), NEW j \in JobsOf(m)
               PROVE  /\ job[i].tmpl = job[j].tmpl => i = j
                      /\ job[i].responsible /\ job[j].responsible => i = j
                      /\ \A s, t \in StagesOf(i) : stage[s].name = stage[t].name => s = t
    BY DEF ExpandedOnce
  <2>1. job[i].tmpl = job[j].tmpl => i = j
    BY DEF OnceInv, RowsOnce, JobsOnce
  <2>2. \A k \in JobsOf(m) :
           /\ k \in 1..Len(job) /\ job[k].tmpl \in Selected(m)
           /\ job[k].responsible = Template[m][job[k].tmpl].responsible
    BY DEF OnceInv, RowsOnce, JobsSelected, JobsOf
  <2>3. job[i].responsible /\ job[j].responsible => job[i].tmpl = job[j].tmpl
    BY <2>2, OneResponsibleSelected
  <2>4. \A s, t \in StagesOf(i) : stage[s].name = stage[t].name => s = t
    BY <2>2 DEF OnceInv, RowsOnce, StagesOnce
  <2> QED
    BY <2>1, <2>3, <2>4
<1> QED
  BY <1>1, OnceInvariant, PTL

\* While nobody is slower than its locks, no message that left EMITTED gets
\* EMITTED again, whatever beats are cut short: whoever read it before the
\* commit has an older lock in memory than the commit left.
THEOREM CommitsAreFinal == Spec => NeverReemitted
<1>1. ASSUME OnceInv, [Next]_vars
      PROVE  \A m \in Messages :
                ~late /\ message[m].state \notin {"none", "EMITTED"}
                    => message'[m].state # "EMITTED"
  <2> SUFFICES ASSUME NEW m \in Messages, ~late, message[m].state \notin {"none", "EMITTED"}
               PROVE  message'[m].state # "EMITTED"
    OBVIOUS
  <2>1. ExpansionInv /\ LocksInTime /\ TypeOK
    BY <1>1 DEF OnceInv, CompleteInv, ExpansionInv
  <2>2. ASSUME NEW w \in Workers, NEW row \in batch[w], Claim(w, row)
        PROVE  message'[m] = message[m]
    <3>1. row.msg # m
      BY <2>1, <2>2, ClaimIsFirst
    <3> QED
      BY <2>1, <2>2, <3>1 DEF Claim, CasMessage, TypeOK, TablesOK
  <2>3. ASSUME NEW w \in Workers, Commit(w)
        PROVE  message'[m].state \in {message[m].state, "IN_PROCESS"}
    BY <2>1, <2>3 DEF Commit, CasMessage, TypeOK, TablesOK
  <2>4. ASSUME NEW n \in Messages, Emit(n)
        PROVE  message'[m] = message[m]
    BY <2>1, <2>4 DEF Emit, TypeOK, TablesOK
  <2>5. \/ \E w \in Workers : \E row \in batch[w] : Claim(w, row)
        \/ \E w \in Workers : Commit(w)
        \/ \E n \in Messages : Emit(n)
        \/ UNCHANGED message
    BY <1>1 DEF Next, ExpansionStep, ExpansionAborts, RestOfBeat, Pick, ClaimMiss,
                TemplateMissing, InsertJob, InsertStage, CommitFails, EndExpansion, Tick,
                vars, tableVars, tables
  <2> QED
    BY <2>2, <2>3, <2>4, <2>5
<1> QED
  BY <1>1, OnceInvariant, PTL DEF Spec, NeverReemitted
==============================================================================
