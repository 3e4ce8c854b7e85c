# BeeQueue in TLA+

BeeQueue runs shell commands on a cloud of hosts in answer to *messages*. A
message is expanded into *jobs*, a job into *stages*, and a stage is run by an
external process, several times if need be. All coordination goes through one
relational database: there is no server, only workers that repeat the same
*beat* over the same tables, every 15 seconds, in no particular order.

That is what these modules are about: what happens to messages, jobs, stages and
row ids when several workers interleave their SQL statements, read rows that are
stale by the time they write, and die between two statements; how a host comes to
have one worker and keeps it when the worker is replaced; and how a configuration
that was pushed into the database reaches all of them.

Paths below are relative to `src/java/src/org/beequeue/` unless they start with
`src/`.

## Contents

1. The system, part by part
2. The modules and how they correspond to the code
3. Runs, bounds and fairness
4. Where the code does not do what it says
5. Proofs
6. What is not modelled
7. Plan

## 1. The system, part by part

| Part | State | Operations | Hard about it |
| --- | --- | --- | --- |
| Event tables (`src/design/dbModel.sql`, `coordinator/db/EventQueries.java`) | NN_MESSAGE (state, LOCK_TS), NN_JOB, NN_STAGE (state, RETRIES_LEFT), NN_RUN | the SQL statements | autocommit: no two statements are atomic |
| Message expansion (`DbCoordinator.storeMessage`, `processEmittedMessages`, `time/LockTimestamp.java`) | the batch a worker has read, the message it is expanding | post, pick, claim, insert job, insert stage, commit | locks that expire, crashes with half a message inserted |
| Stage execution (`worker/BeatLogic.java` 76-106, `run/RunHelper.java`, `run/run.sh.gt`) | rows read, the stage being started, the run being closed; a process and its `rc.log` per run | pick a stage, record and start a run, collect results, retry | a process that outlives the JVM; compare-and-set on the state alone |
| Completion (`DbCoordinator.updateFinishedJobsAndMessages`) | the rows read at the start | unblock stages, close jobs, close messages | decisions on stale rows, blind UPDATEs by id |
| Beat (`worker/BeatLogic.java`, `launcher/BeeQueueHome.java`) | where the worker is | the parts above in a fixed order; any exception ends the beat | the parts of different workers overlap |
| Row ids (`coordinator/db/IdFactory.java`) | NN_ID_FACTORY.COUNTER; an interval of ids per JVM and table | `getNext` | two JVMs that reserve a block at once, lost answers, restarts |
| Host and worker registration (`HostWorkerQueries.java`, `worker/WorkerData.java`) | NN_HOST, NN_WORKER, next beat times | `ensureHost`, `ensureWorker` | primary key races; two workers of a host terminate each other; a division by the number of hosts |
| Take-over of a host (`command/RunServer.java`, `launcher/BeeQueueJvmHelpeer.java`, `buzz/BuzzServer.java`) | the port 7532, `jvm.<port>.csv` | shut down request, announce, probe, bind, `checkShutDown` | lost updates of a file, stale entries, requests that fail, starts that overlap |
| Hash store (`hash/`, `DbCoordinator.push`) | NN_SHA_STORAGE, NN_TREE, NN_TREE_HISTORY | push | check-then-insert by several pushes, pushes that break off |
| Configuration (`DbCoordinator.sync`, `pull`, `worker/Singletons.java`) | the directory on disk, the version remembered, the objects in memory | sync, pull, refresh | two renames, leftovers, refresh of one object at a time |
| Domains (`DomainQueries.java`) | NN_DOMAIN | `ensureDomains` | workers of different versions |
| Process statistics (`agent/`) | NN_PROCESS | `storeProcess` | - |
| Caches (`cache/`, `util/NotStrongReference.java`) | entries, weights | get, put, sweep | loading by one thread while others wait |
| Time stamp store (`store/ts/`) | the last time stamp issued | `TimeSequence.next` | clock read before the reference |
| Transactions (`sql/TransactionContext.java`) | a stack of contexts per thread | push, pop, register, rollback | rollback over autocommit connections |
| Buzz web server, piles, JSON, launcher, js | - | - | input, output and data structures |

How the parts interact. `scheduleAtFixedRate` calls `BeatLogic.run` on one thread
of each worker JVM. A beat walks through configuration, host, worker and domain
registration, then through expansion, execution and completion; those three never
call each other and hold nothing in common but the tables. A beat ends normally,
by an exception that `run()` catches and prints, or because the JVM dies; in each
case the next beat starts from the tables alone. Everything above the tables, the
worker itself included, may be replaced at any time: a new JVM, and every command
line tool, begins by asking the server on the port of its host to exit
(`BeeQueueHome` makes a `BuzzServer`, whose constructor sends the request). `DbCoordinator.connection()` is a
plain `DriverManager` connection and nobody turns autocommit off, so every
statement commits by itself and `TransactionContext` has nothing to roll back.

What makes each part correct, in short: a message is expanded once and
completely; a stage has one process at a time and no more tries than configured;
a result in the database is one a process delivered; a stage starts after those it
depends on; verdicts of jobs and messages are right and final; every message gets
one; an id is used once. The list `hazards` of `PROJECT.json` names the lines
where each of these is at risk.

## 2. The modules and how they correspond to the code

**`EventTables`** holds the tables as variables (`message`, `job`, `stage`,
`run`), the database clock, the phase `pc` of each worker's beat, the templates of
the configuration as constants, and the statements that several parts use:
`CasMessage` is UPDATE_MESSAGE_STATE (compare-and-set on LOCK_TS), `CasStage` is
UPDATE_STAGE_STATUS (compare-and-set on STAGE_STATE, RETRIES_LEFT overwritten with
what the caller remembers). A row's id is its place in the table. Names are
positions in the template. Parameters of messages, commands and time stamps of
runs are left out.

**`MessageExpansion`** is `processEmittedMessages`, one action per statement:

| Action | Code |
| --- | --- |
| `Emit` | `SendMessage`, `storeMessage` |
| `Pick` | PICK_EMMITED_MESSAGES (rows with LOCK_TS < CURRENT_TIMESTAMP) |
| `Claim`, `ClaimMiss` | the first UPDATE_MESSAGE_STATE: 1 or 0 rows |
| `TemplateMissing` | `activeDomains().get(..).messageTemplate(..)` or `mt.jobs` is null |
| `InsertJob`, `InsertStage` | the two loops |
| `Commit`, `CommitFails` | the second UPDATE_MESSAGE_STATE: 1 or 0 rows |
| `ExpansionAborts` | a crash or an exception between two statements |

`readAt` is the CURRENT_TIMESTAMP that came with the SELECT; `NewLock` is computed
from it, as in `LockTimestamp`. With `Timely` workers are done with a batch before
their own locks expire; without it they may be of any slowness, and the history
variable `late` records that one of them was, for the properties that need it.

**`ExpansionRounds`** gives the same actions a time that does not end. The clock is
only ever compared with time stamps, so when it comes to `MaxTime`, `Transpose`
moves the origin of time on by one tick, and the clock and all time stamps with it;
a stamp at the origin stays there, because it has expired anyway. Locks expire again
and again, that of a message without template too, which is what `Poisoned` names.

**`StageExecution`** is the middle of `doLaundryList`: `LoadReady`, `TakeStage`,
`TakeMiss`, `NothingReady` are `pickStageToRun`; `InsertRun`, `Start`, `StoreRun`,
`StoreStage` are lines 78-83; `LoadCurrent`, `NotFinished`, `RcLogEmpty`,
`StoreResult`, `CloseStage`, `EndCollect` are lines 90-106. `ProcessEnds` and
`ProcessWrites` are the two effects of `echo $? > rc.log`: the file is there
first, empty, and a beat that reads it then fails in `parseInt`.

**`Completion`** is `updateFinishedJobsAndMessages`. Each of the two methods reads
once (`LoadJobs`, `LoadMessages`) and decides on what it read; the decisions wait
in `jobPlan` and `messagePlan` and are written row by row (`Unblock`, `StoreJob`,
`StoreMessage`). The stages of a job are visited in the order of a HashMap and the
loop stops at a failed one, so `Visits` allows any part of the unblockable stages
of a failed job. `Together` says which messages are in process in one behaviour,
alone or beside others. `Poisoned` names the two states of the tables in which
every beat ends before it closes a message: a stage asks for a template that is
gone, or a message has two responsible jobs.

**`BeatLogic`** composes the three: `BeatStep` is a step of any of them, over the
same tables, in the order `pc` dictates. What each part needs of the others when
it is looked at alone (`RestOfBeat`, `OtherParts`, `StageStep`, `NextBeat`) is
replaced here by the others themselves.

**`ObjectStates`** is what the engine promises, without workers, rows and SQL: the
life of messages, jobs and stages, each arrow with its reason. (The repository has
a drawing of this in `src/design/ObjectStates.png`; its states PAUSED, CANCELED,
ASSIGNED, WAIT, TO_KILL and KILLED are not written by any code and are absent
here.) `BeatLogic!FollowsObjectStates` says that the tables implement it: the
state of an object is the state of its row, PREPARE_TO_RUN counts as RUNNING, the
tries of a stage are maxTries less RETRIES_LEFT, and two rows for one object map to
no state at all.

**`IdFactory`** is `getNext` of all JVMs and threads: `Call` takes the monitor of
the IdRange, `Select` is the SELECT, `Insert`/`InsertClash` and
`Update`/`UpdateMiss` are the outcomes of the two writing statements, `Return` is
`return start++`. `StatementFails` covers a broken connection at any of the
statements, with the write applied or not; `Restart` is a new JVM with empty
ranges.

**`JvmList`** is how a JVM takes over a host. `Launch` is the shut down request of
the `BuzzServer` constructor; `ReadList`, `SomeWorkerStarting`, `Announce`,
`AnnounceFlush`, `PortAvailable`, `PortTaken` and `GiveUp` are
`makeSureThatPortAvailable`; `Bind` and `BindFails` are `BuzzServer.start`, after
the scheduler of the beats was started. `CheckRead`, `CheckOpen` and
`Terminate`/`KeepListening` are `checkShutDown`. Writing the file takes two steps,
since `FileWriter` truncates it at once and its buffer reaches it on `close`;
`Overlay` is what two writers can leave, `Without` what the list becomes when
entries are filtered from it (`ensureMeInList` never lists a JVM twice). LISTENING and TERMINATED entries are
written but nobody acts upon them, so the file is modelled by its STARTING entries.
`Crash` is a JVM that dies, `Command` a command line tool on the host. Two history
variables name the circumstances under which the protocol does not work:
`overlapped`, a JVM was started while another one had not got its port yet, and
`stranded`, a JVM exited while the file listed it as STARTING.

**`HostWorkers`** puts the registration on top: `LoadHost` and `InsertHost` are
`ensureHost`; `InsertWorker`, `LoadWorker`, `LoadWorkers`, `UpdateWorker` and
`TerminateOther` are the statements of `ensureWorker`, `NoActiveWorker` its
division by zero. `Delta` is the interval for a number of hosts,
`CallRandomizationTerm` the set of values the random term can take, and `NextBeat`
their sum with the latest beat. Times are distances from now, so that the clock is
bounded by what the code computes and not by the model; a beat in the past is due
now, distance 0. The random term is `Math.abs(RND.nextLong()) % interval -
interval/2`: `Math.abs` leaves the least long negative, so the term can also be that
number's remainder less half the interval (`MinValueRest`).

**`ContentStore`** is `push` of a directory and `doUpdateInsertUpdate` on NN_TREE,
one action per statement, for several pushes at once. Hashes are the contents
themselves; a list of files is the version it stands for. Two things are left out
with that, see section 6: an empty directory, and a file that changes while it is
pushed.

**`ConfigSync`** adds the other end. `Sync`, `BeginPull`, `WriteFile`, `SwapOut`,
`SwapIn` and `PulledInPlace` are `sync` and `pull` into the configuration
directory (`dest`) or the one next to it (`tmp`); `Record`, `Refresh`,
`RefreshFails` and `Refreshed` are `checkGlobalConfig`; `GetGlobalConfig` and
`NoGlobalConfig` make the global configuration on first use. When `GlobalConfig.init`
fails at a domain that is not there, those it found before stay loaded
(`LoadGlobalFails`). `LoadDomains`,
`InsertDomain` and `UpdateDomain` are `ensureDomains`. A worker repeats all that;
a command (SendMessage) stops after it has the global configuration. The order in
which the map of singletons is visited is a constant, `Order`.

`MC*` modules hold small templates and assignments of workers to hosts for TLC.
Definitions commented as mutants are deliberately wrong variants of the
definition that follows them, one for each thing a property is meant to catch.

## 3. Runs, bounds and fairness

| Run | Instance | Shows |
| --- | --- | --- |
| `ids` | 2 JVMs, 3 threads, 1 table, blocks of 2 | no two intervals overlap and no id is issued twice, whatever statements fail and JVMs restart |
| `Expand` | 2 workers, 2 messages (one without template), locks expire at will and for ever, 1 abort | one holder of a lock; what is committed is complete; without delay each message is expanded once, none is offered again, and one with a template is expanded in the end unless the one without keeps ending the beats |
| `Expand_crash` | 2 workers, 1 message, 1 abort | *violation*, see section 4 |
| `Execute_hosts` | 2 workers on 2 hosts, one stage with a retry or two without, 1 abort, processes may vanish | one process per stage; recorded results are real; nothing orphaned and every stage ends, as long as nothing is cut short |
| `Execute_stale_retry`, `Execute_crash` | 2 workers, 1 stage with a retry | *violations*, see section 4 |
| `Complete` | 2 workers, 1 abort; diamond, two equal jobs, responsible and plain job, or a good message beside one whose template is gone or one expanded twice | dependencies first; verdicts right, final, and reached unless such a message ends all beats for ever |
| `Beat` | whole beats: of one worker over a chain with a retry and a job on the side, of two workers over a job of one stage, of one worker with an abort anywhere and vanishing processes | refinement of `ObjectStates`, end-to-end safety and liveness; with the abort SUCCESS is still real and dependencies still come first |
| `Beat_undefined` | 2 workers, a chain listed backwards | *violation*, see section 4 |
| `Hosts` | 2 JVMs one after the other on a host, or on 2 hosts; 1 crash, command or failed beat; 2 attempts for the port; random terms of -3, -1, 0 and 1 ticks | one worker and one active row per host, starts that succeed, beats that go on and stay within bounds |
| `Sync` | 3 pushes, 2 of them equal, 2 broken off; 1 worker with 3 pulls or restarts cut short; 2 workers on 2 hosts; a worker and a command on one | NN_TREE can be pulled, the directory holds it, workers and NN_DOMAIN end up with the last version |
| `Sync_order` | 1 worker, 1 push, global.json first | *violation*, see section 4 |

Bounds, and why they are enough:

- *Two workers.* Every race of this code is between a statement of one worker and
  what one other did since the first one's SELECT; a third adds no kind of step.
- *`MaxTime`* is the largest value of the clock: a message can be posted, picked,
  claimed, its lock expire and it be picked again within three ticks and a lock of
  one. In `Expand` this is no end of time: `Transpose` goes on from there with the
  origin moved, as long as nobody is late (with somebody late the order of old
  stamps could matter, and the liveness property says nothing anyway). In the other
  runs the clock stops at `MaxTime`. A
  lock of one tick is short of nothing that a longer one has, since what matters is
  only whether it has expired at a SELECT. Nothing is posted in the last tick and
  no beat aborts with a lock the clock can no longer outlive: such a message would
  wait for ever in the model and not in the code.
- *`MaxAborts`* is the number of beats cut short, by a crash or an exception. One
  is enough for every violation above.
- *`Together`* holds the messages in process at one time: each shape of jobs by
  itself, and each kind of message that ends beats beside a good one of one stage.
  A message that ends no beats adds nothing to another one, since the rows of a
  message are decided on without a look at any other.
- *`MaxRuns`* ends the picking of stages; it is large enough for all tries of all
  stages unless tries are given back, which is a finding, or stages are expanded
  twice.
- *`MaxCounter`* ends the drawing of ids after the row was inserted and the block
  was renewed twice or more.
- *`MaxTries`* is 2 instead of 6: the first attempt, at which the old worker may
  still be there, and the last, after which a JVM gives up.
- *`MaxFaults`* of `Hosts` and *`aborts`* of `Sync` are the number of crashes,
  commands, failed statements and interrupted pushes. `Starts` says which JVMs
  (and pushes) there are in a behaviour, so that one run covers several small
  crews instead of one large one. Three aborts in a row are what it takes to have
  leftovers of one pull under another.
- *Intervals.* A beat comes a tick after the latest, with an interval of the random
  term of 3 ticks: -1, 0, 1, and -3 for the least long (2^63 leaves 2 when divided by
  3). That covers a beat put on the latest one, before it, and further than the
  interval after it. With one tick `Delta` is the same for one host and for two;
  longer intervals are covered by the theorem `ScheduleStaysBounded` only.
- *Versions.* The second one changes one domain and adds another. None removes
  one: see section 4.
- *Templates.* The chain, the diamond, the job on the side and the second
  responsible job are the smallest that reach every branch of the loops.

Fairness is weak fairness of a worker's beat as a whole (`scheduleAtFixedRate`
starts it again for ever, on a thread of its own; a database that answers), of the
clock (`Tick` and `Transpose`), and of each process, which is assumed to end. Nothing is assumed of aborts,
of vanishing processes, or of which row of a batch comes first. In `Hosts` the main
thread and the beat thread of a JVM are fair each for itself, and the clock ticks;
nobody has to start a JVM. In `Sync` each push and each worker is fair, so that
pushes come to an end and beats go on; nothing forces another push. The run allows
deadlock only because a crew of pushes alone comes to its end. `EveryStageEnds`
carries its condition in the formula: it speaks of behaviours in which no beat is
cut short and no process vanishes, because in the others stages do stay where they
are (section 4).

Two more liveness properties carry a condition, `[]Poisoned`, since one message can
end all beats for ever. `EveryMessageExpanded` holds if from some moment on there is
not always a posted message without template, and nobody is slower than its locks.
`EveryMessageCloses` holds unless from some moment on the tables always are such
that every beat throws. The bad message is in the instances beside a good one, and the
condition is needed: without it both runs fail. In the counterexample of `Expand` the
message without template is picked first whenever its lock has expired, round after
round through `Transpose`, and the one behind it stays EMITTED.

Two bounds hide something and are therefore named:

- In `StageExecution` and `BeatLogic` no two workers share a host. With two on one
  host both find the same finished run, the slower one applies its verdict to a
  stage that was started again, and `OneProcessPerStage` fails. That a host has one
  worker is not just an assumption but the theorem `OneWorkerAlways`, with its
  condition: starts on a host do not overlap.
- `SuccessIsReal` and `FollowsObjectStates` are checked with two workers for a job
  of one stage only, and with one worker for jobs of several. With two workers and
  several stages they fail: while one worker is still inserting the stages of a
  job, the other may run the first stage and close the job as SUCCESS
  (`updateInProcessJobs` looks only at the rows that are there). `Beat_undefined`
  shows the same window from another side. For `SuccessIsReal` the condition
  is the hypothesis of the theorem `SuccessStaysReal` (`OneByOne`), message by
  message.

## 4. Where the code does not do what it says

- **A second responsible job** (`Expand_crash`). INSERT_JOB commits by itself. If
  the beat ends before the message is committed, the lock expires and the message
  is expanded again; now it has two responsible jobs. `updateInProcessMessages`
  throws "only one responsible job should be assigned per message:" for it in
  every beat of every worker, before it closes any message at all.
- **Lost tries come back** (`Execute_stale_retry`). `pickStageToRun` writes
  `retriesLeft - 1` of the row it has read and compares only the state. READY,
  RUNNING, READY goes unnoticed, and the stage is run more often than `maxTries`.
- **A finished run whose stage stays RUNNING** (`Execute_crash`). The run is made
  final before its stage is moved on, and final runs are not looked at again.
- **"Not defined. Assuming success end state."** (`Beat_undefined`). The stage is
  defined by the template and merely not inserted yet; a stage that depends on it
  is let go.

- **A new global configuration with old domains** (`Sync_order`). The refreshed
  `GlobalConfig` takes the template of each domain from the map of singletons; if
  the domain is refreshed after it, the map gets a new template and the global
  configuration keeps the old one, until the next push or restart. The order is
  that of a hash map, so it depends on the names.

More that follows from the actions, without a run of its own. The properties of
`HostWorkers` and `ConfigSync` state it as their condition:

- *Starts that overlap* (`overlapped`). Two JVMs read the file before either has
  announced itself, both probe the port while it is free, both start their beats,
  and one fails to bind. Then the other finds the STARTING entry of the dead one
  and terminates: the host has had two workers for a while and is left with none.
- *Entries that outlive their JVM* (`stranded`). After a crash or "Gave up" the
  STARTING entry stays; the worker in service terminates for it at its next beat,
  and every start is refused ("Kill all workers running and delete file").
- *Two pulls into one directory* (`crossed`). SendMessage and the worker of its host
  write into the same temporary directory; the second may rename an unfinished
  directory, or none, into place and remember the version all the same.
- *A domain that is removed.* The refresh of its object throws, after the version
  was remembered; objects that come later in the map keep their old content. Files
  left by a pull that broke off can end up in the directory of another version,
  which is why `DirHasVersion` says that files are there and not that no others
  are.
- *Commands stop the worker* of their host, see section 1.

More of the same kind in the engine:

- *A message without a configured template* ends the beat each time its lock has
  expired, which with a lock of 10 s and beats 15 s apart is every time. If it comes
  first in the batch, the messages behind it are never expanded. This is the
  condition of `EveryMessageExpanded`.
- *A message in process whose template is gone, or with two responsible jobs*, ends
  every beat before any message is closed. This is the condition of
  `EveryMessageCloses`; `Expand_crash` shows where two responsible jobs come from.
- *The retry delay*, `RetryStrategy.delayBetweenTries`, is not used anywhere: a
  failed stage is READY at once.

## 5. Proofs

`IdFactoryProofs` proves, for any sets of JVMs, threads and tables and any block
size, that ids are unique (`IdsUnique`). Uniqueness alone is not inductive: an id
is new because the interval it comes from is disjoint from all others
(`RangesDisjoint`), because it lies below the counter (`CounterAhead`), and
because what was issued is no longer held (`IssuedNotHeld`). An interval is
disjoint from the others because the compare-and-set saw the counter unchanged,
and the counter only grows: `SeenInPast` says that what a SELECT returned is not
ahead of the row. `MonitorHeld` says that the threads of one JVM do not change a
range under each other. The conjunction, `IdInv`, is the inductive invariant
(`IdInvariant`), with one lemma per action; the bound on the counter plays no part
in it. `TypeOK` is part of it (`IdTypes`).

`ExpansionProofs` proves, for any workers, messages, templates and lock duration,
with locks that may expire at any time, that at most one worker can commit a
message (`AtMostOneHolder`) and that neither LOCK_TS nor the clock it is compared
with goes back (`LocksAdvance`). They are about `MessageExpansion`, where time ends at
`MaxTime`, for any `MaxTime`; `ExpansionRounds` serves the run `Expand` only. The
argument is about SELECT times. A worker's lock value is its `readAt` plus the
duration, so two holders would have read at the same time (`DistinctReads` denies
it). They cannot: the later of the two claims compares with the lock value of its
SELECT, which is earlier than its `readAt` (`PastLocks`), while the row already
carries at least the lock of the first (`OwnLock`), which is later than its equal
`readAt`. `HandOK` keeps the rows a worker refers to in range. Together with the
type invariant they form `ExpansionInv`. The assumptions are those on the constants
only, in particular that the lock duration is positive.

The same module proves that a committed message is completely expanded
(`CommitsAreComplete`), again for all constants and with expiring locks. It is not
the lock that makes it true: two workers may insert rows for the same message at
once, and cut-off beats leave half-made jobs behind. It is true because each
worker adds stages only to the job it has inserted itself (`DistinctHands`), that
job has exactly the stages counted so far (`HandRows`), and the templates are
worked off in order (`DoneBefore`). So a complete job is never touched again, and
a worker that reaches its commit has passed every template, each with a complete
job that is still there. These, `ExpansionInv` and the property itself form
`CompleteInv`, which rests on the same assumptions.

That a message is expanded only once (`ExpansionsHappenOnce`), and never again
after its commit (`CommitsAreFinal`), is what the lock is for. Both properties
speak of behaviours in which nobody has been slower than its own locks (`late` is
false); the first also of those in which no beat was cut short, because there the
second set of rows is real (section 4). The strengthening is `OnceInv`. Nobody in
mid-expansion is beyond its lock (`InTime`), so nobody has picked the message from
under it: the message in hand is still EMITTED with the lock of the claim
(`OwnMessage`), and every row read before that claim carries an older lock value
than the table does now, also after the commit, which leaves LOCK_TS alone
(`StaleRows`). So a stale claim misses, before the commit and after it. For the
rows this means that there are none before a claim, and none beyond the template
in hand during the expansion (`JobsOnce`), hence one job per template. A message
has one responsible job since only one selected template is responsible
(`JobsSelected`).

`HostWorkersProofs` proves that a host has one worker (`OneWorkerAlways`), that a
worker finds itself among the active ones (`CountsItselfAlways`) and that a
registered worker is the only active one of its host (`OneActiveRowAlways`), for
any JVMs, hosts, attempts, faults and intervals, under the condition that starts do
not overlap. The file plays no part in these three. While starts do not overlap at most one
JVM of a host is between its announcement and its bind (`OneStarting`), and once
one of them passed the probe nobody else is at work (`RunAlone`): whoever is at
work has the port (`PortServed`), and the probe found it free. `PortInv` is the
conjunction. `RowInv` says what that means for NN_WORKER: a worker that knows its
row has it active (`KnownIsActive`), since only another JVM at work would terminate
it, and what a worker has read of the others is complete (`OthersComplete`).

The file is what decides who leaves and who is refused: a worker terminates itself
only for another JVM that is at its start (`GivesWayToAStart`), and a start is
refused only while another one is under way (`RefusedForAStart`). Both hold although
the file is written by several JVMs without a lock and loses updates (`Overlay`):
entries are lost, but none is made up. Every entry, in the file and in each list
read from it, is of a JVM of the host that is still there (`FileHolds`,
`ListedHolds`), unless one was left behind (`stranded`); a worker past the first
list it wrote is not in the file any more (`CheckedIsGone`); `OneWorkerAlways`
excludes that the other JVM is a worker already. `FileInv` is the conjunction.
`HostTypes` proves the type invariant. It says more than the name: a list never has
an entry twice, although two writers overlay each other, and the next beat is a
time, which rests on `CountsItself` (the number of hosts is not zero) and on there
being a latest beat among finitely many (`IsFiniteSet(Jvms)` is an assumption).

`ScheduleStaysBounded` says that beats are not pushed away, for any JVMs, hosts,
intervals, random terms and faults, overlapping starts included. The bound is the
`Longest` distance of a beat to the one before it, for each row there ever was: the
interval of a single host plus the largest random term, `interval - 1 - interval/2`
(`TermRange`; the term of the least long only makes a beat earlier). By default that
is 60000 + 2499 ms. NN_WORKER itself carries no
inductive bound: a worker that terminates the row of another writes back the next
beat it has read of it, so a row can go back to an older value, and what a JVM has
in memory is lost with it. What bounds the rows is the last next beat that each
worker has set itself. `ScheduleInv` says that such numbers exist, one per worker:
none of them is ahead without another one within `Longest` of it (`Steady`, since
who sets a beat has seen one at most that much before it), and the rows, the copies of rows
that workers have read, and the memory of those at work are not ahead of them
(`Ahead`). From `Steady` the bound follows by counting: a beat is no further off than
`Longest` for each worker whose beat is not after it, since the first beat that
were would have another one shortly before it that is not (`StepsBound`).

`ConfigSyncProofs` proves `StoreClosed` and `DirHasVersion`, for any versions,
files, pushes, workers, orders and aborts. The store is closed because a push that
has passed its files has found or inserted each of them and nothing is ever deleted
(`PushPrepared`). The directory has its version because what a worker is pulling is
in the closed store (`PullsStored`), what it has written so far is in the target,
leftovers or not (`Filled`), nobody else writes there (`PullsAlone`, the condition
on `crossed`), and the target is what takes the place of the directory
(`Replaced`). `SyncTypes` adds the memory of the JVMs and NN_DOMAIN
(`MemoryShape`).

`UpdatesAreLoaded`, that a beat goes by the templates of the version its JVM
remembers, is the theorem about the refresh of objects one by one. Its hypotheses
are what the code needs and does not see to: every version has a global.json and the
domains listed there (`Whole`), the map of singletons comes to global.json last
(`GlobalIsLast`), and the versions that NN_TREE goes through come in an order, `Age`,
and none takes a file away (`Forward`, a condition on steps: the theorem is about
`Spec /\ [][Forward]_vars`). The instances of `Sync` that have JVMs satisfy them,
and each excludes a failure: without `GlobalIsLast` there is `Sync_order`; without
the others a file is missing in the refresh, whose exception leaves the remaining
objects old, or a directory shared with a command goes back to a version of which a
worker holds older objects. Not excluded are workers and commands that share a
directory, as long as their pulls do not cross, and breaks anywhere. `NewsInv` is
the strengthening. It orders everything on its way from NN_TREE to the objects: what
is being pulled lies between the version in the directory and the current one
(`PullsForward`), and so do files left behind by pulls cut short (`FilesForward`);
nothing in memory is ahead of the directory (`MemoryForward`). So a version that
reaches a directory is new to all JVMs there, and no object can be of the right
version by chance and wrong. From the second rename to the end of the refresh the
directory has what the JVM remembers (`RecordHolds`), so no read fails. The objects
of the version remembered are then right except for those waiting for their refresh
(`MemoryCurrent`), and nothing waits once it is over (`TodoHolds`).

`EventTablesProofs` holds what the next two share: the rows as records, what
UPDATE_STAGE_STATUS writes, and that the tables after the expansion of any finite
set of messages, some of them twice (`ExpandedTables`, where the two modules start),
are well formed.

`CompletionProofs` proves, for any workers, messages, templates and aborts, that
stages are let go after those they depend on (`DependenciesAlwaysFirst`), that
verdicts of jobs and messages hold (`JobVerdictsAlwaysHold`,
`MessageVerdictsAlwaysHold`) and that no write changes what is closed
(`NothingReopens`). The code decides on rows it read and then writes without a
second look, so the invariant, `CompletionInv`, has to speak of the decisions not
yet written: `PlansHold` says that each of them is right for the rows as they are
now. It stays so because everything decided on is final (`AdvanceKeepsInv`): a
stage that succeeded or failed keeps its state (`StagesAdvance`), so a job cannot
be written first as one and then as the other, so a closed job keeps its state too
(`JobsAdvance`), and so does the verdict on a message (`MessageVerdictStays`). No
use is made of how often workers crash, nor of their being in step.

`StageExecutionProofs` proves `OneProcessPerStage`, `ResultsAreReal` and
`NoOrphanStage` for any number of workers, stages, runs, retries and aborts, with
processes that may vanish, under `HostsNotShared`: workers of one host are the same
worker, which is what `OneWorkerAlways` is about. The compare-and-set on
STAGE_STATE decides only who takes a READY stage. What keeps everybody else away
after that is ownership: a stage in PREPARE_TO_RUN or RUNNING belongs to the worker
that is starting it (`HandHolds`), then to its single open run (`OpenRuns`), which
only the worker of that host looks at, then to the worker that has closed the run
(`ClosingHolds`); `OneOwner` says that no two of these coincide. A row of
`allCurrentRuns` is therefore never out of date (`RowHolds`), and its
compare-and-set cannot fail. An abort loses the owner, and then nobody takes the
stage: the finding `Execute_crash`, but not a second process. With two workers on a
host `RowHolds` fails, and with it the rest.

`BeatProofs` is about the composition `BeatLogic`: everything interleaved with
everything, late workers, lost locks, messages expanded twice, beats cut short
anywhere, processes that vanish. The invariants of the parts do not carry over as
they stand, since each was proved with the others at rest, so the composition has
one of its own. `BeatInv` holds what each worker has in hand (`HandHolds`,
`StartHolds`, `CollectHolds`) and that a stage with result SUCCESS has a run with
return code 0 (`StagesHold`); it contains `TypeOK` (`BeatTypes`).

`DependenciesRunFirst`, that the process of a stage starts after those it depends
on ended well, then needs only that what workers act upon cannot be undone. Rows
only come, and a process that ended well has done so for good (`Grows`), so a stage
that was rightly let go once (`Released`) stays so, however old the rows are on
which a worker decides (`DependInv`). The hypothesis `DependsOnEarlier`, that
templates list a stage after those it depends on, is needed: stages are inserted in
the order of the template, and one that has no row is taken for a success. The
violation `Beat_undefined` is that very case.

`SuccessStaysReal` follows a SUCCESS back from the message to the return codes.
A worker closes a job on the rows it finds, and a job that has not got all its
stages yet may look finished. `SuccessInv` therefore says that a job in SUCCESS, or
decided to be, is `Settled`: all its stages ended well, or some are missing and
nobody is left who would insert them (the expansion was cut short or has gone
wrong). A settled job stays settled since only the worker that made a job adds
stages to it (`Carries`). And a message is committed with a complete job for each
of its templates (`TemplatesMade`), so among its jobs there is one whose being
settled means that all ended well. When a plan is made, nobody may still be
inserting stages of the job it is about; that is where the hypothesis `OneByOne`
comes in: the message is posted to one worker, which is not inserting anything when
it closes jobs, or its jobs have one stage, and a job without a row is not seen by
the join. Without it the property is false (section 3).

Only model-checked, for the instances of section 3:

- `FollowsObjectStates`, the refinement. It needs `OnceInv` and the ownership of
  `StageExecutionProofs` in the composition, and a hypothesis like `OneByOne`.
- Liveness under fairness (`EveryMessageExpanded`, `EveryStageEnds`,
  `EveryMessageCloses`, `EveryMessageFinishes`, `StartSucceeds`, `BeatsGoOn`,
  `EveryUpdateArrives`, `DomainsSettle`), which is out of the prover's reach.

## 6. What is not modelled

- The composition of registration and configuration with the engine:
  `BeatLogic` begins its beats at `processEmittedMessages`, `HostWorkers` and
  `ConfigSync` end theirs before it. They share no table with the engine; what
  they owe it is one worker per host and a configuration that is the pushed one,
  which is what their properties say. A change of templates while messages are
  in process is modelled as far as a template may be gone (`Undefined`).
- Statistics of hosts and processes (`BeatLogic` 57-60 and 108-133): rows no other
  part reads, from the process table of the host.
- `sweep` of the hash store (an empty method), push and pull of single files
  (called by nobody), the scan of a directory by a pool of threads.
- The push of an empty directory. `push(File)` returns null for it
  (`DbCoordinator` 222-224), NN_TREE gets the SHA_ID '' (`HashStoreQueries` 55), and
  `HashKey.valueOf("")` throws in every sync of every worker that has a version, until
  something else is pushed. In `ContentStore` a version always has a list of files; with an empty one
  the second half of `StoreClosed`, that NN_TREE names a list that is there, would
  fail.
- A file that changes during its push. Its hash comes from the scan, its content is
  read again when it is streamed (`DbCoordinator` 230). `ContentStore` takes hash and
  content for one thing, so it says nothing of a file that is edited in between.
- The caches, `TimeSequence` and the time stamp store: no class of the program
  uses them.
- `TransactionContext`: connections are in autocommit mode, so a rollback undoes
  nothing; every module above rests on that.
- Buzz (HTTP over Jetty), Groovy templates, JSON mapping, argument parsing, class
  path set up: input and output without protocol state. `piles` and `flock`:
  generic collections.
- JavaScript. The program is written in Java. Nearly all of the JavaScript in the
  repository is vendored (d3, CodeMirror, buildr with its linters under
  `src/js/lib`, jsoneditor and crossfilter under `src/design/legacy/web`) or a
  prototype given up (`src/design/legacy`). What belongs to the program is
  `src/js/src/bq.js`, fifty lines of presentation, which keep no state the engine
  depends on. None of it is modelled.

## 7. Plan

Done: `EventTables`, `MessageExpansion`, `StageExecution`, `Completion`,
`BeatLogic` over them, `ObjectStates` above them; `IdFactory`; `JvmList` and
`HostWorkers`; `ContentStore` and `ConfigSync`; the proofs of section 5, which
state every safety property of a passing run but the refinement.

What is left, in the order of its worth:

1. The refinement of `ObjectStates` by `BeatLogic`, proved: ownership of stages
   and `OnceInv` in the composition, for one worker or for jobs of one stage and
   one try.
2. Overlapping starts in `StageExecution`: how many processes of a stage there can
   be while a host has two workers.
3. `LifeCycleCache` and `TimeSequence`, at the level of their atomic operations,
   once the program uses them.
