--------------------------- MODULE MessageExpansion ---------------------------
(***************************************************************************)
(* DbCoordinator.processEmittedMessages: workers look for posted messages, *)
(* claim them one by one with an optimistic lock (LOCK_TS) that is valid   *)
(* for LockDuration, insert the jobs and stages of the message's template, *)
(* one statement each, and commit by moving the message to IN_PROCESS.     *)
(***************************************************************************)
EXTENDS EventTables

CONSTANTS NoMessage, \* msg of a worker that expands nothing
          Undefined, \* messages whose template is no longer configured
          Timely     \* TRUE: nobody is slower than the locks it takes

ASSUME ExpansionAssumption ==
    NoMessage \notin Messages /\ Undefined \subseteq Messages /\ Timely \in BOOLEAN

VARIABLES readAt, \* timeNow of the worker's PICK_EMMITED_MESSAGES
          batch,  \* the rows it returned and that are still to be processed
          at,     \* the message being expanded, and how far
          late    \* history: some worker was slower than the locks it takes

expansionVars == <<readAt, batch, at, late>>

NotExpanding == [msg |-> NoMessage, tmpl |-> 0, job |-> 0, done |-> 0]

ExpansionInit ==
    /\ readAt = [w \in Workers |-> 0]
    /\ batch = [w \in Workers |-> {}]
    /\ at = [w \in Workers |-> NotExpanding]
    /\ late = FALSE

ExpansionOK ==
    /\ readAt \in [Workers -> 0..MaxTime]
    /\ batch \in [Workers -> SUBSET [msg : Messages, lock : Nat]]
    /\ at \in [Workers -> [msg : Messages \cup {NoMessage}, tmpl : Nat, job : Nat, done : Nat]]
    /\ late \in BOOLEAN

Init == TablesInit /\ ExpansionInit

TypeOK == TablesOK /\ ExpansionOK

vars == <<tableVars, expansionVars>>

------------------------------------------------------------------------------
(* Definitions.                                                            *)

\* Mutant of NewLock: the time of the SELECT is forgotten.
NewLockFromZero(w) == LockDuration

\* LockTimestamp.newLock(): computed from the time of the SELECT.
NewLock(w) == readAt[w] + LockDuration

\* The templates of the message in hand still to be made a job of.
Remaining(w) == {i \in Selected(at[w].msg) : i > at[w].tmpl}

\* All stages of the job in hand are inserted (or there is no job yet).
JobComplete(w) ==
    at[w].tmpl # 0 => at[w].done = Len(StageTemplates(at[w].msg, at[w].tmpl))

\* The worker forgets what it has in memory about messages.
ForgetExpansion(w) ==
    /\ readAt' = [readAt EXCEPT ![w] = 0]
    /\ batch' = [batch EXCEPT ![w] = {}]
    /\ at' = [at EXCEPT ![w] = NotExpanding]
    /\ UNCHANGED late

------------------------------------------------------------------------------
(* The environment.                                                        *)

\* SendMessage: storeMessage inserts the row; LOCK_TS defaults to now.
\* (Bound: nothing is posted in the last tick, it could not be seen.)
Emit(m) ==
    /\ message[m].state = "none"
    /\ clock < MaxTime
    /\ message' = [message EXCEPT ![m] = [state |-> "EMITTED", lock |-> clock]]
    /\ UNCHANGED <<clock, job, stage, run, pc, aborts, expansionVars>>

\* The locks a worker takes, or has taken, on its batch are over before it is.
Overrun(w) == pc[w] \in {"claim", "expand"} /\ clock >= NewLock(w)

\* Time passes, and not only when everybody is done in time.
Tick ==
    /\ clock < MaxTime
    /\ late' = (late \/ \E w \in Workers : Overrun(w))
    /\ Timely => ~late'
    /\ clock' = clock + 1
    /\ UNCHANGED <<tables, pc, aborts, readAt, batch, at>>

------------------------------------------------------------------------------
(* The statements of processEmittedMessages.                               *)

\* Mutant of Pick: LOCK_TS is compared the other way round.
PickLocked(w) ==
    /\ pc[w] = "idle"
    /\ readAt' = [readAt EXCEPT ![w] = clock]
    /\ batch' = [batch EXCEPT ![w] =
          {[msg |-> m, lock |-> message[m].lock] :
              m \in {n \in Messages : message[n].state = "EMITTED" /\ message[n].lock > clock}}]
    /\ GoTo(w, "claim")
    /\ UNCHANGED <<clock, tables, aborts, at, late>>

\* PICK_EMMITED_MESSAGES
Pick(w) ==
    /\ pc[w] = "idle"
    /\ readAt' = [readAt EXCEPT ![w] = clock]
    /\ batch' = [batch EXCEPT ![w] =
          {[msg |-> m, lock |-> message[m].lock] :
              m \in {n \in Messages : message[n].state = "EMITTED" /\ message[n].lock < clock}}]
    /\ GoTo(w, "claim")
    /\ UNCHANGED <<clock, tables, aborts, at, late>>

\* Mutant of Claim: no compare-and-set.
ClaimBlind(w, row) ==
    /\ pc[w] = "claim"
    /\ row \in batch[w]
    /\ message' = [message EXCEPT ![row.msg] = [state |-> "EMITTED", lock |-> NewLock(w)]]
    /\ batch' = [batch EXCEPT ![w] = @ \ {row}]
    /\ at' = [at EXCEPT ![w] = [NotExpanding EXCEPT !.msg = row.msg]]
    /\ GoTo(w, "expand")
    /\ UNCHANGED <<clock, job, stage, run, aborts, readAt, late>>

\* UPDATE_MESSAGE_STATE with the lock value of the SELECT: the claim.
Claim(w, row) ==
    /\ pc[w] = "claim"
    /\ row \in batch[w]
    /\ CasMessage(row.msg, row.lock, NewLock(w), "EMITTED")
    /\ batch' = [batch EXCEPT ![w] = @ \ {row}]
    /\ at' = [at EXCEPT ![w] = [NotExpanding EXCEPT !.msg = row.msg]]
    /\ GoTo(w, "expand")
    /\ UNCHANGED <<clock, job, stage, run, aborts, readAt, late>>

\* Another worker has changed LOCK_TS since the SELECT: skip the message.
ClaimMiss(w, row) ==
    /\ pc[w] = "claim"
    /\ row \in batch[w]
    /\ message[row.msg].lock # row.lock
    /\ batch' = [batch EXCEPT ![w] = @ \ {row}]
    /\ UNCHANGED <<tableVars, readAt, at, late>>

\* No domain or no template for the message: the exception ends the beat.
TemplateMissing(w) ==
    /\ pc[w] = "expand"
    /\ at[w].msg \in Undefined
    /\ ForgetExpansion(w)
    /\ GoTo(w, "idle")
    /\ UNCHANGED <<clock, tables, aborts>>

\* Mutant of InsertJob: the stages are to be given another id than the job.
InsertJobOtherId(w) ==
    /\ pc[w] = "expand"
    /\ at[w].msg \notin Undefined
    /\ JobComplete(w)
    /\ \E i \in Remaining(w) :
        /\ \A k \in Remaining(w) : i <= k
        /\ job' = Append(job, JobRow(at[w].msg, i))
        /\ at' = [at EXCEPT ![w] =
              [msg |-> at[w].msg, tmpl |-> i, job |-> Len(job') + 1, done |-> 0]]
    /\ UNCHANGED <<clock, message, stage, run, pc, aborts, readAt, batch, late>>

\* INSERT_JOB for the next template.
InsertJob(w) ==
    /\ pc[w] = "expand"
    /\ at[w].msg \notin Undefined
    /\ JobComplete(w)
    /\ \E i \in Remaining(w) :
        /\ \A k \in Remaining(w) : i <= k
        /\ job' = Append(job, JobRow(at[w].msg, i))
        /\ at' = [at EXCEPT ![w] =
              [msg |-> at[w].msg, tmpl |-> i, job |-> Len(job'), done |-> 0]]
    /\ UNCHANGED <<clock, message, stage, run, pc, aborts, readAt, batch, late>>

\* INSERT_STAGE for the next stage template of the job.
InsertStage(w) ==
    /\ pc[w] = "expand"
    /\ ~JobComplete(w)
    /\ stage' = Append(stage, StageRow(at[w].job, at[w].msg, at[w].tmpl, at[w].done + 1))
    /\ at' = [at EXCEPT ![w].done = @ + 1]
    /\ UNCHANGED <<clock, message, job, run, pc, aborts, readAt, batch, late>>

\* Mutants of Commit: before the loop over the templates is through; and
\* without msg.state = IN_PROCESS.
CommitEarly(w) ==
    /\ pc[w] = "expand"
    /\ at[w].msg \notin Undefined
    /\ JobComplete(w)
    /\ CasMessage(at[w].msg, NewLock(w), NewLock(w), "IN_PROCESS")
    /\ at' = [at EXCEPT ![w] = NotExpanding]
    /\ GoTo(w, "claim")
    /\ UNCHANGED <<clock, job, stage, run, aborts, readAt, batch, late>>

CommitSameState(w) ==
    /\ pc[w] = "expand"
    /\ at[w].msg \notin Undefined
    /\ JobComplete(w)
    /\ Remaining(w) = {}
    /\ CasMessage(at[w].msg, NewLock(w), NewLock(w), "EMITTED")
    /\ at' = [at EXCEPT ![w] = NotExpanding]
    /\ GoTo(w, "claim")
    /\ UNCHANGED <<clock, job, stage, run, aborts, readAt, batch, late>>

\* UPDATE_MESSAGE_STATE with lock.value = newLock(): the commit.
Commit(w) ==
    /\ pc[w] = "expand"
    /\ at[w].msg \notin Undefined
    /\ JobComplete(w)
    /\ Remaining(w) = {}
    /\ CasMessage(at[w].msg, NewLock(w), NewLock(w), "IN_PROCESS")
    /\ at' = [at EXCEPT ![w] = NotExpanding]
    /\ GoTo(w, "claim")
    /\ UNCHANGED <<clock, job, stage, run, aborts, readAt, batch, late>>

\* The commit finds another worker's lock: "cannot update status" ends the
\* beat; the rows inserted above stay.
CommitFails(w) ==
    /\ pc[w] = "expand"
    /\ at[w].msg \notin Undefined
    /\ JobComplete(w)
    /\ Remaining(w) = {}
    /\ message[at[w].msg].lock # NewLock(w)
    /\ ForgetExpansion(w)
    /\ GoTo(w, "idle")
    /\ UNCHANGED <<clock, tables, aborts>>

\* The loop over the batch is over; the beat goes on with pickStageToRun.
EndExpansion(w) ==
    /\ pc[w] = "claim"
    /\ batch[w] = {}
    /\ ForgetExpansion(w)
    /\ GoTo(w, "pick")
    /\ UNCHANGED <<clock, tables, aborts>>

ExpansionStep(w) ==
    \/ Pick(w)
    \/ \E row \in batch[w] : Claim(w, row) \/ ClaimMiss(w, row)
    \/ TemplateMissing(w)
    \/ InsertJob(w)
    \/ InsertStage(w)
    \/ Commit(w)
    \/ CommitFails(w)
    \/ EndExpansion(w)

\* A crash of the JVM or an exception (SQL, filters) between two statements;
\* BeatLogic.run starts over with the next beat.  (Bound: early enough for
\* the lock it may hold to expire before the clock stops.)
ExpansionAborts(w) ==
    /\ pc[w] \in {"claim", "expand"}
    /\ aborts < MaxAborts
    /\ NewLock(w) < MaxTime
    /\ aborts' = aborts + 1
    /\ ForgetExpansion(w)
    /\ GoTo(w, "idle")
    /\ UNCHANGED <<clock, tables>>

\* Stands for the remainder of the beat, which StageExecution and Completion
\* describe.
RestOfBeat(w) ==
    /\ pc[w] = "pick"
    /\ GoTo(w, "idle")
    /\ UNCHANGED <<clock, tables, aborts, expansionVars>>

Next ==
    \/ \E m \in Messages : Emit(m)
    \/ Tick
    \/ \E w \in Workers : ExpansionStep(w) \/ ExpansionAborts(w) \/ RestOfBeat(w)

Spec == Init /\ [][Next]_vars

------------------------------------------------------------------------------
(* Properties.                                                             *)

Expanding(w, m) == pc[w] = "expand" /\ at[w].msg = m

\* The worker's commit would find the lock it has set itself.
Holds(w, m) == Expanding(w, m) /\ message[m].lock = NewLock(w)

\* However late workers are, at most one of those expanding a message can
\* still commit it. (the compare-and-set on LOCK_TS, EventQueries.)
OneHolder ==
    \A m \in Messages, v, w \in Workers : Holds(v, m) /\ Holds(w, m) => v = w

\* LOCK_TS of a row only moves forward, so a lock once lost is never got
\* back. (LOCK_TS < CURRENT_TIMESTAMP of the SELECT, newLock().)  The clock
\* never goes back here; ExpansionRounds moves the origin of time.
LockAdvances ==
    [][clock' >= clock => \A m \in Messages :
        message[m].state # "none" => message'[m].lock >= message[m].lock]_vars

JobRows(m, i) == {j \in JobsOf(m) : job[j].tmpl = i}

StageNames(j) == {stage[s].name : s \in StagesOf(j)}

\* The job row has all the stage rows of its template.
Complete(j) == StageNames(j) = 1..Len(StageTemplates(job[j].msg, job[j].tmpl))

Expanded(m, i) == \E j \in JobRows(m, i) : Complete(j)

\* A message that left EMITTED has, for each selected template, a job with
\* all its stages: no commit without the whole expansion.
CommittedIsComplete ==
    \A m \in Messages : message[m].state = "IN_PROCESS" =>
        \A i \in Selected(m) : Expanded(m, i)

\* Workers that race for a message, within their locks and without a beat cut
\* short, expand it once: one job per template, one of them responsible, and
\* one row for each of its stages. (the claim of processEmittedMessages)
ExpandedOnce ==
    aborts = 0 /\ ~late =>
        \A m \in Messages :
            \A i, j \in JobsOf(m) :
                /\ job[i].tmpl = job[j].tmpl => i = j
                /\ job[i].responsible /\ job[j].responsible => i = j
                /\ \A s, t \in StagesOf(i) : stage[s].name = stage[t].name => s = t

\* updateInProcessMessages throws otherwise: "only one responsible job
\* should be assigned per message" (DbCoordinator).
OneResponsibleJob ==
    \A m \in Messages : \A i, j \in JobsOf(m) :
        job[i].responsible /\ job[j].responsible => i = j

\* A message that was committed is never EMITTED again, if nobody is slower
\* than its lock: the commit leaves LOCK_TS at the value of the claim, which a
\* SELECT after its expiry can have read too. (both UPDATE_MESSAGE_STATE)
NeverReemitted ==
    [][\A m \in Messages :
        ~late /\ message[m].state \notin {"none", "EMITTED"}
            => message'[m].state # "EMITTED"]_vars

------------------------------------------------------------------------------
(* The inductive strengthening of OneHolder and LockAdvances.              *)

\* The job in hand is there, and made of a template of the message in hand.
HandOK ==
    \A w \in Workers : pc[w] = "expand" =>
        /\ at[w].msg \in Messages
        /\ message[at[w].msg].state # "none"
        /\ at[w].tmpl # 0 =>
              /\ at[w].tmpl \in 1..Len(Template[at[w].msg])
              /\ at[w].job \in 1..Len(job)
              /\ at[w].done <= Len(StageTemplates(at[w].msg, at[w].tmpl))

\* A worker's own lock is not later than that of the message in hand.
OwnLock ==
    \A w \in Workers : pc[w] = "expand" => NewLock(w) <= message[at[w].msg].lock

\* The rows of a batch were posted, and free when they were read.
PastLocks ==
    \A w \in Workers : \A row \in batch[w] :
        /\ message[row.msg].state # "none"
        /\ row.lock < readAt[w]
        /\ row.lock <= message[row.msg].lock

DistinctReads ==
    \A v, w \in Workers :
        v # w /\ pc[v] = "expand" /\ pc[w] = "expand" /\ at[v].msg = at[w].msg
            => readAt[v] # readAt[w]

ExpansionInv == TypeOK /\ HandOK /\ OwnLock /\ PastLocks /\ DistinctReads

------------------------------------------------------------------------------
(* The inductive strengthening of CommittedIsComplete.                     *)

\* The job in hand has the stages counted by done, and no others.
HandRows ==
    \A w \in Workers : pc[w] = "expand" /\ at[w].tmpl # 0 =>
        /\ at[w].job \in JobRows(at[w].msg, at[w].tmpl)
        /\ StageNames(at[w].job) = 1..at[w].done

\* No two workers add stages to the same job.
DistinctHands ==
    \A v, w \in Workers :
        /\ v # w
        /\ pc[v] = "expand" /\ at[v].tmpl # 0
        /\ pc[w] = "expand" /\ at[w].tmpl # 0
        => at[v].job # at[w].job

\* The templates before the one in hand are through.
DoneBefore ==
    \A w \in Workers : pc[w] = "expand" =>
        \A i \in Selected(at[w].msg) : i < at[w].tmpl => Expanded(at[w].msg, i)

CompleteInv == ExpansionInv /\ HandRows /\ DistinctHands /\ DoneBefore /\ CommittedIsComplete

------------------------------------------------------------------------------
(* The inductive strengthening of ExpandedOnce and NeverReemitted.         *)

\* Nobody is beyond its locks, as long as nobody was late.
InTime ==
    ~late => \A w \in Workers : pc[w] \in {"claim", "expand"} => clock <= NewLock(w)

InHand(m) == \E w \in Workers : Expanding(w, m)

\* The message in hand is EMITTED and has the lock of the worker that
\* expands it.
OwnMessage ==
    ~late => \A w \in Workers : pc[w] = "expand" =>
        /\ message[at[w].msg].state = "EMITTED"
        /\ message[at[w].msg].lock = NewLock(w)

\* Whoever has read a message before it was claimed or committed finds
\* another lock now.
StaleRows ==
    ~late => \A w \in Workers : \A row \in batch[w] :
        InHand(row.msg) \/ message[row.msg].state # "EMITTED"
            => row.lock < message[row.msg].lock

\* Jobs are made of selected templates; the responsible flag is theirs.
JobsSelected ==
    \A j \in 1..Len(job) :
        /\ job[j].msg \notin Undefined
        /\ job[j].tmpl \in Selected(job[j].msg)
        /\ job[j].responsible = Template[job[j].msg][job[j].tmpl].responsible

\* One row for each stage of a job.
StagesOnce ==
    \A j \in 1..Len(job) : \A s, t \in StagesOf(j) : stage[s].name = stage[t].name => s = t

\* One job per template; none before the expansion, and none beyond the
\* template in hand while it is going on.
JobsOnce ==
    aborts = 0 /\ ~late => \A m \in Messages :
        /\ \A i, j \in JobsOf(m) : job[i].tmpl = job[j].tmpl => i = j
        /\ message[m].state \in {"none", "EMITTED"} /\ ~InHand(m) => JobsOf(m) = {}
        /\ \A w \in Workers : Expanding(w, m) =>
              \A j \in JobsOf(m) : job[j].tmpl <= at[w].tmpl

LocksInTime == InTime /\ OwnMessage /\ StaleRows
RowsOnce == JobsSelected /\ StagesOnce /\ JobsOnce

OnceInv == CompleteInv /\ LocksInTime /\ RowsOnce
==============================================================================
