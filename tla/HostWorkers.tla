----------------------------- MODULE HostWorkers -----------------------------
(***************************************************************************)
(* The registration of workers: what a beat does before it looks at any    *)
(* message.  ensureHost makes the row of the host, ensureWorker makes or   *)
(* reloads the row of the worker, reads the active workers of the cloud,   *)
(* computes the time of the next beat from theirs, and terminates the      *)
(* other workers of the host.  JvmList says which JVMs of a host are there *)
(* to do this.                                                             *)
(*                                                                         *)
(* Times are counted from now: a next beat that is `due' in 0 is allowed,  *)
(* a tick of the clock brings all of them nearer.  There is one cloud.     *)
(***************************************************************************)
EXTENDS JvmList, Integers, FiniteSets

CONSTANTS MinFireInterval, MaxFireInterval, \* of WorkerConfig
          RandomizationInterval, \* of WorkerConfig
          MinValueRest, \* what the least long leaves when divided by it, negated
          Busy \* the JVMs that find their host under heavy load

ASSUME IntervalAssumption ==
    /\ MinFireInterval \in Nat \ {0} /\ MaxFireInterval \in Nat
    /\ MinFireInterval <= MaxFireInterval /\ Busy \subseteq Jvms

\* With 0 there is no remainder and every beat fails.
ASSUME RandomizationAssumption ==
    /\ RandomizationInterval \in Nat \ {0}
    /\ MinValueRest \in 0..(RandomizationInterval - 1)

VARIABLES hostRow, \* the hosts that are in NN_HOST
          worker,  \* NN_WORKER: the row of each JVM, state "none" if there is none
          known,   \* the JVMs whose WorkerData.worker is not null
          next,    \* per JVM: WorkerData.worker.nextBeat
          others   \* per JVM: rows of its host it has read and has to terminate

workerVars == <<hostRow, worker, known, next, others>>
vars == <<jvmVars, workerVars>>

WorkerState == {"READY", "PAUSED", "TERMINATED"}
Beat == {"none", "rest", "open", "write", "checked", "insertHost", "worker",
         "load", "update", "terminate"}

\* The states LOAD_WORKERS asks for.
Active(j) == worker[j].state \in {"READY", "PAUSED"}

Init ==
    /\ JvmInit
    /\ hostRow = {}
    /\ worker = [j \in Jvms |-> [state |-> "none", due |-> 0]]
    /\ known = {}
    /\ next = [j \in Jvms |-> 0]
    /\ others = [j \in Jvms |-> {}]

TypeOK ==
    /\ JvmListOK
    /\ beat \in [Jvms -> Beat]
    /\ hostRow \subseteq Hosts
    /\ worker \in [Jvms -> [state : WorkerState \cup {"none"}, due : Nat]]
    /\ known \subseteq Jvms
    /\ next \in [Jvms -> Nat]
    /\ \A j \in Jvms : others[j] \subseteq [jvm : SameHost(j) \ {j}, due : Nat]

------------------------------------------------------------------------------

BeatGoes(j, b) ==
    /\ beat' = [beat EXCEPT ![j] = b]
    /\ UNCHANGED <<file, port, life, listed, tries, overlapped, stranded>>

\* Mutant of IsDue: nextBeat() is not asked.
AlwaysDue(j) == TRUE

\* WorkerData.nextBeat
IsDue(j) == j \notin known \/ next[j] = 0

NotDue(j) ==
    /\ beat[j] = "checked"
    /\ ~IsDue(j)
    /\ BeatGoes(j, "rest")
    /\ UNCHANGED <<faults, workerVars>>

\* Mutant of LoadHost: the row that is there is not used.
LoadHostNever(j) ==
    /\ beat[j] = "checked"
    /\ IsDue(j)
    /\ BeatGoes(j, "insertHost")
    /\ UNCHANGED <<faults, workerVars>>

\* The beat begins; LOAD_HOST.
LoadHost(j) ==
    /\ beat[j] = "checked"
    /\ IsDue(j)
    /\ BeatGoes(j, IF HostOf[j] \in hostRow THEN "worker" ELSE "insertHost")
    /\ UNCHANGED <<faults, workerVars>>

\* INSERT_HOST; another JVM of the host may have been faster, and the
\* primary key ends the beat.
InsertHost(j) ==
    /\ beat[j] = "insertHost"
    /\ BeatGoes(j, IF HostOf[j] \in hostRow THEN "rest" ELSE "worker")
    /\ hostRow' = hostRow \cup {HostOf[j]}
    /\ UNCHANGED <<faults, worker, known, next, others>>

\* The first beat of a JVM: INSERT_WORKER.
InsertWorker(j) ==
    /\ beat[j] = "worker"
    /\ j \notin known
    /\ worker' = [worker EXCEPT ![j] = [state |-> "READY", due |-> 0]]
    /\ known' = known \cup {j}
    /\ next' = [next EXCEPT ![j] = 0]
    /\ BeatGoes(j, "load")
    /\ UNCHANGED <<faults, hostRow, others>>

\* LOAD_WORKER_BY_ID
LoadWorker(j) ==
    /\ beat[j] = "worker"
    /\ j \in known
    /\ next' = [next EXCEPT ![j] = worker[j].due]
    /\ BeatGoes(j, "load")
    /\ UNCHANGED <<faults, hostRow, worker, known, others>>

Max2(a, b) == IF a >= b THEN a ELSE b

\* The largest of a set of numbers and 0.
Latest(S) == CHOOSE m \in S \cup {0} : \A n \in S : n <= m

Delta(hosts) == Max2(MaxFireInterval \div hosts, MinFireInterval)

\* The values of callRandomizationTerm: the remainder of a random long without
\* its sign (which Math.abs leaves to the least one), less half the interval.
CallRandomizationTerm ==
    {r - RandomizationInterval \div 2 : r \in (0..(RandomizationInterval - 1)) \cup {-MinValueRest}}

\* Mutant of Snapshot: LOAD_WORKERS does not see paused workers.
SnapshotReady == {k \in Jvms : worker[k].state = "READY"}

\* LOAD_WORKERS
Snapshot == {k \in Jvms : Active(k)}

\* Mutant of ToTerminate: the worker itself is not left out.
ToTerminateAll(j) == {[jvm |-> k, due |-> worker[k].due] : k \in Snapshot \cap SameHost(j)}

ToTerminate(j) == {[jvm |-> k, due |-> worker[k].due] : k \in (Snapshot \cap SameHost(j)) \ {j}}

\* The next beat that is set at a distance of delta + term from latest; when
\* that has passed already, it is due.
NextBeat(latest, delta, term) == Max2(latest + delta + term, 0)

\* LOAD_WORKERS and calculateNextBeat
LoadWorkers(j) ==
    /\ beat[j] = "load"
    /\ Snapshot # {}
    /\ \E term \in CallRandomizationTerm :
          next' = [next EXCEPT ![j] =
              NextBeat(Latest({worker[k].due : k \in Snapshot}),
                       Delta(Cardinality({HostOf[k] : k \in Snapshot})), term)]
    /\ others' = [others EXCEPT ![j] = ToTerminate(j)]
    /\ BeatGoes(j, "update")
    /\ UNCHANGED <<faults, hostRow, worker, known>>

\* No active worker: the number of hosts is 0 and the division fails.
NoActiveWorker(j) ==
    /\ beat[j] = "load"
    /\ Snapshot = {}
    /\ BeatGoes(j, "rest")
    /\ UNCHANGED <<faults, workerVars>>

\* calculateNextStatus and UPDATE_WORKER: the state depends on the load of
\* the host, not on the state the row had.
UpdateWorker(j) ==
    /\ beat[j] = "update"
    /\ worker' = [worker EXCEPT ![j] =
          [state |-> IF j \in Busy THEN "PAUSED" ELSE "READY", due |-> next[j]]]
    /\ BeatGoes(j, "terminate")
    /\ UNCHANGED <<faults, hostRow, known, next, others>>

\* UPDATE_WORKER of another row of the host, next beat as read.
TerminateOther(j, row) ==
    /\ beat[j] = "terminate"
    /\ row \in others[j]
    /\ worker' = [worker EXCEPT ![row.jvm] = [state |-> "TERMINATED", due |-> row.due]]
    /\ others' = [others EXCEPT ![j] = @ \ {row}]
    /\ UNCHANGED <<jvmVars, hostRow, known, next>>

\* The worker has registered; the rest of its beat is still to come.
AtWork(j) == beat[j] = "terminate" /\ others[j] = {}

EndBeat(j) ==
    /\ AtWork(j)
    /\ BeatGoes(j, "rest")
    /\ UNCHANGED <<faults, workerVars>>

WorkerStep(j) ==
    \/ NotDue(j) \/ LoadHost(j) \/ InsertHost(j) \/ InsertWorker(j) \/ LoadWorker(j)
    \/ LoadWorkers(j) \/ NoActiveWorker(j) \/ UpdateWorker(j)
    \/ \E row \in others[j] : TerminateOther(j, row)
    \/ EndBeat(j)

\* A statement throws, and run() catches the exception.
BeatFails(j) ==
    /\ faults < MaxFaults
    /\ beat[j] \in {"insertHost", "worker", "load", "update", "terminate"}
    /\ faults' = faults + 1
    /\ BeatGoes(j, "rest")
    /\ others' = [others EXCEPT ![j] = {}]
    /\ UNCHANGED <<hostRow, worker, known, next>>

\* One unit of time.
Passed(n) == IF n = 0 THEN 0 ELSE n - 1

Tick ==
    /\ worker' = [j \in Jvms |-> [worker[j] EXCEPT !.due = Passed(@)]]
    /\ next' = [j \in Jvms |-> Passed(next[j])]
    /\ others' = [j \in Jvms |->
          {[jvm |-> row.jvm, due |-> Passed(row.due)] : row \in others[j]}]
    /\ UNCHANGED <<jvmVars, hostRow, known>>

\* A JVM takes its memory with it.
Forget ==
    /\ others' = [j \in Jvms |-> IF life'[j] = "exited" THEN {} ELSE others[j]]
    /\ next' = [j \in Jvms |-> IF life'[j] = "exited" THEN 0 ELSE next[j]]
    /\ UNCHANGED <<hostRow, worker, known>>

BeatThread(j) == (CheckShutDown(j) /\ Forget) \/ WorkerStep(j)

Next ==
    \/ Tick
    \/ \E j \in Jvms :
          \/ Launch(j) /\ Forget
          \/ MainStep(j) /\ Forget
          \/ BeatThread(j)
          \/ Crash(j) /\ Forget
          \/ BeatFails(j)
    \/ \E h \in Hosts : Command(h) /\ Forget

Spec == Init /\ [][Next]_vars

\* Each JVM has a main thread and a beat thread, and the clock ticks.
\* Nobody has to start a JVM.
FairSpec ==
    /\ Spec
    /\ WF_vars(Tick)
    /\ \A j \in Jvms : WF_vars(MainStep(j) /\ Forget) /\ WF_vars(BeatThread(j))

------------------------------------------------------------------------------
(* Properties.                                                             *)

\* No two JVMs of a host are at work at the same time, unless one was
\* started before the previous one had its port: not when requests to shut
\* down are lost, nor when entries of the file are lost or stale, nor when
\* JVMs crash.  Stage execution relies on it (RunServer, checkShutDown).
OneWorkerPerHost ==
    \A j, k \in Jvms :
        /\ HostOf[j] = HostOf[k] /\ ~overlapped[HostOf[j]]
        /\ life[j] \in Running /\ life[k] \in Running
        => j = k

\* A JVM terminates itself only for one that is about to take its place; a
\* host does not lose its worker to an entry nobody stands behind
\* (checkShutDown).
LeavesForASuccessor ==
    [][\A j \in Jvms :
         Terminate(j) /\ ~overlapped[HostOf[j]] /\ ~stranded[HostOf[j]]
         => \E k \in SameHost(j) \ {j} : life[k] \in Starting]_vars

\* Once a worker has registered, no other row of its host is active
\* (ensureWorker).
OneActiveRowPerHost ==
    \A j \in Jvms :
        AtWork(j) /\ ~overlapped[HostOf[j]]
        => {k \in SameHost(j) : Active(k)} = {j}

\* A worker that asks for the active workers of its cloud is one of them,
\* so there is a host to divide by (calculateNextBeat).
CountsItself ==
    \A j \in Jvms : beat[j] = "load" /\ ~overlapped[HostOf[j]] => Active(j)

\* The largest distance of a beat to the latest one it sees: the interval of a
\* single host and the largest random term.
Longest == MaxFireInterval + (RandomizationInterval - 1 - RandomizationInterval \div 2)

\* Beats add their delay, and a random term, to the latest next beat of all;
\* that does not push the beats of the cloud away: none is further off than
\* the longest distance for each row there ever was (calculateNextBeat).
ScheduleBounded ==
    \A j \in Jvms :
        worker[j].due <= Longest * Cardinality({k \in Jvms : worker[k].state # "none"})

\* A start is refused only while another one is under way: the new worker
\* has not yet replaced its STARTING entry at its first beat
\* (makeSureThatPortAvailable, ensureMeInList).
RefusedDuringAStart ==
    [][\A j \in Jvms :
         SomeWorkerStarting(j) /\ ~overlapped[HostOf[j]] /\ ~stranded[HostOf[j]]
         => \E k \in SameHost(j) \ {j} :
               life[k] \in Starting \/ (life[k] \in Running /\ k \notin known)]_vars

\* A JVM that announces itself gets the port, whatever becomes of requests
\* and entries: unless it crashes, was kept waiting through all its
\* attempts, or the file names a JVM that is gone or starting, too.
StartSucceeds ==
    \A j \in Jvms :
        life[j] = "announce" ~>
            \/ life[j] = "serve"
            \/ life[j] = "exited" /\ (faults > 0 \/ tries[j] + 1 = MaxTries)
            \/ overlapped[HostOf[j]] \/ stranded[HostOf[j]]

\* A worker that serves its host comes to the work of its beat again and
\* again, until it exits (BeatLogic.run).
BeatsGoOn ==
    \A j \in Jvms :
        life[j] = "serve" ~>
            AtWork(j) \/ life[j] = "exited" \/ overlapped[HostOf[j]]
==============================================================================
