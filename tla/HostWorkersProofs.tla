--------------------------- MODULE HostWorkersProofs ---------------------------
(***************************************************************************)
(* The exclusion of two workers on one host, for every number of hosts and *)
(* JVMs, every number of faults and every loss of entries of the file: the *)
(* port alone carries the argument, as long as starts do not overlap.      *)
(* From it follows that a worker is never terminated in the tables while   *)
(* it runs, so it finds itself among the active workers, and is the only   *)
(* one of its host there once it has registered.                           *)
(*                                                                         *)
(* The file says who is starting.  It may lose entries at any time, but it *)
(* never lists a JVM that is not there: who acts upon an entry acts for a  *)
(* JVM that is at its start.                                               *)
(***************************************************************************)
EXTENDS HostWorkers, FiniteSetTheorems, SequenceTheorems, WellFoundedInduction, TLAPS

(* PortInv: what the take-over of a host keeps up.                         *)

PortShape ==
    /\ port \in [Hosts -> Jvms \cup {None}]
    /\ life \in [Jvms -> Life]
    /\ beat \in [Jvms -> Beat]
    /\ overlapped \in [Hosts -> BOOLEAN]

\* The port belongs to the JVM that serves.
PortServed ==
    /\ \A h \in Hosts : port[h] # None => HostOf[port[h]] = h /\ life[port[h]] = "serve"
    /\ \A j \in Jvms : life[j] = "serve" => port[HostOf[j]] = j

\* Starts that do not overlap come one at a time.
OneStarting ==
    \A j, k \in Jvms :
        /\ HostOf[j] = HostOf[k] /\ ~overlapped[HostOf[j]]
        /\ life[j] \in Starting /\ life[k] \in Starting
        => j = k

\* Between portAvailable and the start of the server nobody takes the port.
RunAlone ==
    \A j \in Jvms : life[j] = "run" /\ ~overlapped[HostOf[j]] => port[HostOf[j]] = None

\* There are beats only while there is a scheduler.
BeatRuns == \A j \in Jvms : beat[j] # "none" => life[j] \in Running

PortInv == PortShape /\ PortServed /\ OneStarting /\ RunAlone /\ BeatRuns

(* RowInv: what the registration of workers adds to it.                    *)

\* Times are left open: nothing here depends on them.
RowShape ==
    /\ DOMAIN worker = Jvms
    /\ \A j \in Jvms : worker[j] = [state |-> worker[j].state, due |-> worker[j].due]
    /\ known \subseteq Jvms
    /\ DOMAIN others = Jvms
    /\ \A j \in Jvms : \A row \in others[j] : row.jvm \in SameHost(j) \ {j}

\* Only JVMs with a scheduler register, and they stay active while they run.
KnownIsActive ==
    \A j \in known :
        /\ life[j] \in Running \cup {"exited"}
        /\ life[j] \in Running /\ ~overlapped[HostOf[j]] => Active(j)

\* A beat that has passed ensureWorker's first statement is of a known worker.
BeatIsKnown == \A j \in Jvms : beat[j] \in {"load", "update", "terminate"} => j \in known

\* The rows a worker has still to terminate are all the others of its host.
OthersComplete ==
    \A j \in Jvms :
        beat[j] \in {"update", "terminate"} /\ ~overlapped[HostOf[j]]
        => \A k \in SameHost(j) \ {j} : Active(k) => \E row \in others[j] : row.jvm = k

RowInv == RowShape /\ KnownIsActive /\ BeatIsKnown /\ OthersComplete

HostInv == PortInv /\ RowInv

USE JvmListAssumption, IntervalAssumption

------------------------------------------------------------------------------

\* PortInv excludes two running workers: they would both have the port, or
\* both be starting, or one would be waiting for a port that is taken.
LEMMA PortExcludes == PortInv => OneWorkerPerHost
<1> SUFFICES ASSUME PortInv, NEW j \in Jvms, NEW k \in Jvms,
                    HostOf[j] = HostOf[k], ~overlapped[HostOf[j]],
                    life[j] \in Running, life[k] \in Running
             PROVE  j = k
  BY DEF OneWorkerPerHost
<1>1. CASE life[j] = "serve" /\ life[k] = "serve"
  BY <1>1 DEF PortInv, PortServed
<1>2. CASE life[j] = "run" /\ life[k] = "run"
  BY <1>2 DEF PortInv, OneStarting, Starting
<1>3. CASE life[j] = "run" /\ life[k] = "serve"
  BY <1>3 DEF PortInv, PortServed, RunAlone
<1>4. CASE life[j] = "serve" /\ life[k] = "run"
  BY <1>4 DEF PortInv, PortServed, RunAlone
<1> QED
  BY <1>1, <1>2, <1>3, <1>4 DEF Running

\* At first no JVM runs and no port is taken.
LEMMA PortInit == Init => PortInv
  BY DEF Init, JvmInit, PortInv, PortShape, PortServed, OneStarting, RunAlone,
         BeatRuns, Life, Beat, Starting

\* JVMs may exit at any time; the others stay, or have just been launched.
LEMMA ExitKeepsPort ==
  ASSUME NEW K \in SUBSET Jvms, NEW lives \in [Jvms -> Life], PortInv, Exit(K, lives),
         \A j \in Jvms : lives[j] = life[j] \/ (life[j] = "off" /\ lives[j] = "launched"),
         overlapped' = overlapped
  PROVE  PortInv'
<1> USE DEF Exit, PortInv, PortShape
<1>1. PortShape'
  BY DEF Life, Beat
<1>2. PortServed'
  BY DEF PortServed, Life
<1>3. OneStarting'
  BY DEF OneStarting, Starting
<1>4. RunAlone'
  BY DEF RunAlone
<1>5. BeatRuns'
  BY DEF BeatRuns, Running
<1> QED
  BY <1>1, <1>2, <1>3, <1>4, <1>5

\* The request to the shut down path is an exit, or nothing.
LEMMA ShutDownKeepsPort ==
  ASSUME NEW h \in Hosts, NEW lives \in [Jvms -> Life], PortInv,
         ShutDownLocalhost(h, lives),
         \A j \in Jvms : lives[j] = life[j] \/ (life[j] = "off" /\ lives[j] = "launched"),
         overlapped' = overlapped
  PROVE  PortInv'
<1>1. CASE port[h] # None /\ Exit({port[h]}, lives)
  <2>1. {port[h]} \in SUBSET Jvms
    BY <1>1 DEF PortInv, PortShape
  <2> QED
    BY <1>1, <2>1, ExitKeepsPort
<1>2. CASE Exit({}, lives)
  <2>1. {} \in SUBSET Jvms
    OBVIOUS
  <2> QED
    BY <1>2, <2>1, ExitKeepsPort
<1> QED
  BY <1>1, <1>2 DEF ShutDownLocalhost

\* The main thread before it has the port, and the faults.
LEMMA MainKeepsPort ==
  ASSUME NEW j \in Jvms, PortInv, Launch(j) \/ MainStep(j) \/ Crash(j)
  PROVE  PortInv'
<1> USE DEF PortInv, PortShape
<1>0. HostOf[j] \in Hosts /\ life \in [Jvms -> Life] /\ {j} \in SUBSET Jvms
  OBVIOUS
<1>1. CASE Launch(j)
  <2> DEFINE lives == [life EXCEPT ![j] = "launched"]
  <2>1. lives \in [Jvms -> Life]
    BY DEF Life
  <2>2. ShutDownLocalhost(HostOf[j], lives) /\ overlapped' = overlapped
    BY <1>1 DEF Launch
  <2>3. \A k \in Jvms : lives[k] = life[k] \/ (life[k] = "off" /\ lives[k] = "launched")
    BY <1>1 DEF Launch
  <2> HIDE DEF lives
  <2> QED
    BY <1>0, <2>1, <2>2, <2>3, ShutDownKeepsPort
<1>2. CASE SomeWorkerStarting(j) \/ GiveUp(j) \/ BindFails(j) \/ Crash(j)
  <2>1. Exit({j}, life) /\ overlapped' = overlapped
    BY <1>2 DEF SomeWorkerStarting, GiveUp, BindFails, Crash
  <2> QED
    BY <1>0, <2>1, ExitKeepsPort
<1>3. CASE ReadList(j)
  <2> USE <1>0, <1>3 DEF ReadList, Goes
  <2>1. PortShape'
    BY DEF Life
  <2>2. PortServed' /\ BeatRuns'
    BY DEF PortServed, BeatRuns, Running
  <2>3. OneStarting'
    BY DEF OneStarting, Starting, SameHost
  <2>4. RunAlone'
    BY DEF RunAlone
  <2> QED
    BY <2>1, <2>2, <2>3, <2>4
<1>4. CASE Announce(j) \/ AnnounceFlush(j) \/ PortTaken(j)
  <2>1. /\ \/ life[j] = "announce" /\ life' = [life EXCEPT ![j] = "flush"]
           \/ life[j] = "flush" /\ life' = [life EXCEPT ![j] = "probe"]
           \/ life[j] = "probe" /\ life' = [life EXCEPT ![j] = "announce"]
        /\ port' = port /\ beat' = beat /\ overlapped' = overlapped
    BY <1>4 DEF Announce, AnnounceFlush, PortTaken, Goes
  <2> QED
    BY <1>0, <2>1 DEF PortServed, OneStarting, RunAlone, BeatRuns, Starting, Running, Life
<1>5. CASE PortAvailable(j)
  <2> USE <1>0, <1>5 DEF PortAvailable, Goes
  <2>1. PortShape'
    BY DEF Life, Beat
  <2>2. PortServed'
    BY DEF PortServed
  <2>3. OneStarting' /\ RunAlone'
    BY DEF OneStarting, RunAlone, Starting
  <2>4. BeatRuns'
    BY DEF BeatRuns, Running
  <2> QED
    BY <2>1, <2>2, <2>3, <2>4
<1>6. CASE Bind(j)
  <2> USE <1>0, <1>6 DEF Bind, Goes
  <2>1. PortShape'
    BY DEF Life
  <2>2. PortServed'
    BY DEF PortServed
  <2>3. OneStarting'
    BY DEF OneStarting, Starting
  <2>4. RunAlone'
    BY <2>1 DEF RunAlone, OneStarting, Starting
  <2>5. BeatRuns'
    BY DEF BeatRuns, Running
  <2> QED
    BY <2>1, <2>2, <2>3, <2>4, <2>5
<1> QED
  BY <1>1, <1>2, <1>3, <1>4, <1>5, <1>6 DEF MainStep

\* A beat that goes on does not touch the port.
LEMMA BeatKeepsPort ==
  ASSUME NEW j \in Jvms, PortInv, beat[j] # "none", NEW b \in Beat,
         beat' = [beat EXCEPT ![j] = b], UNCHANGED <<port, life, overlapped>>
  PROVE  PortInv'
  BY DEF PortInv, PortShape, PortServed, OneStarting, RunAlone, BeatRuns

\* The beginning of a beat: the worker terminates or goes on.
LEMMA CheckKeepsPort ==
  ASSUME NEW j \in Jvms, PortInv, CheckShutDown(j)
  PROVE  PortInv'
<1>1. CASE Terminate(j)
  <2>1. Exit({j}, life) /\ overlapped' = overlapped /\ {j} \in SUBSET Jvms
    BY <1>1 DEF Terminate, CheckWrite
  <2> QED
    BY <2>1, ExitKeepsPort DEF PortInv, PortShape
<1>2. CASE CheckRead(j)
  BY <1>2, BeatKeepsPort DEF CheckRead, Beat
<1>3. CASE CheckOpen(j)
  BY <1>3, BeatKeepsPort DEF CheckOpen, Beat
<1>4. CASE KeepListening(j)
  BY <1>4, BeatKeepsPort DEF KeepListening, CheckWrite, Beat
<1> QED
  BY <1>1, <1>2, <1>3, <1>4 DEF CheckShutDown

\* Every step of the program keeps PortInv.
LEMMA NextKeepsPort == PortInv /\ [Next]_vars => PortInv'
<1> SUFFICES ASSUME PortInv, [Next]_vars PROVE PortInv'
  OBVIOUS
<1>1. CASE Tick \/ UNCHANGED vars
  BY <1>1 DEF Tick, vars, jvmVars, PortInv, PortShape, PortServed, OneStarting,
              RunAlone, BeatRuns
<1>2. ASSUME NEW j \in Jvms, Launch(j) \/ MainStep(j) \/ Crash(j)
      PROVE  PortInv'
  BY <1>2, MainKeepsPort
<1>3. ASSUME NEW j \in Jvms, CheckShutDown(j)
      PROVE  PortInv'
  BY <1>3, CheckKeepsPort
<1>4. ASSUME NEW j \in Jvms, WorkerStep(j) \/ BeatFails(j)
      PROVE  PortInv'
  <2>1. CASE \E row \in others[j] : TerminateOther(j, row)
    BY <2>1 DEF TerminateOther, jvmVars, PortInv, PortShape, PortServed, OneStarting,
                RunAlone, BeatRuns
  <2>2. CASE ~\E row \in others[j] : TerminateOther(j, row)
    <3>1. beat[j] # "none" /\ \E b \in Beat : BeatGoes(j, b)
      BY <1>4, <2>2 DEF WorkerStep, NotDue, LoadHost, InsertHost, InsertWorker,
            LoadWorker, LoadWorkers, NoActiveWorker, UpdateWorker, EndBeat, AtWork,
            BeatFails, Beat
    <3> QED
      BY <3>1, BeatKeepsPort DEF BeatGoes
  <2> QED
    BY <2>1, <2>2
<1>5. ASSUME NEW h \in Hosts, Command(h)
      PROVE  PortInv'
  BY <1>5, ShutDownKeepsPort DEF Command, PortInv, PortShape
<1> QED
  BY <1>1, <1>2, <1>3, <1>4, <1>5 DEF Next, BeatThread

\* For any hosts and JVMs: two workers of one host never run at the same
\* time, unless one was started before the other had its port (RunServer,
\* BuzzServer.start).
THEOREM OneWorkerAlways == Spec => []OneWorkerPerHost
<1>1. PortInv /\ [Next]_vars => PortInv'
  BY NextKeepsPort
<1> QED
  BY <1>1, PortInit, PortExcludes, PTL DEF Spec

------------------------------------------------------------------------------

\* At first there are no rows and no beats.
LEMMA RowInit == Init => RowInv
  BY DEF Init, JvmInit, RowInv, RowShape, KnownIsActive, BeatIsKnown, OthersComplete

Statements == {"insertHost", "worker", "load", "update", "terminate"}

\* What the main threads, the check of the file and the faults may do: JVMs
\* may exit, or get a scheduler, and no beat gets past the check.
LifeChanges ==
    /\ \A h \in Hosts : overlapped[h] => overlapped'[h]
    /\ \A j \in Jvms : \/ life'[j] = life[j]
                       \/ life'[j] = "exited"
                       \/ life[j] \in Starting /\ life'[j] = "serve"
                       \/ life[j] \notin Running \cup {"exited"}
    /\ \A j \in Jvms : beat'[j] \in Statements => beat'[j] = beat[j]

\* Such a change keeps RowInv.
LEMMA LifeKeepsRows ==
  ASSUME PortInv, RowInv, PortInv', Forget,
         LifeChanges
  PROVE  RowInv'
<1> USE DEF RowInv, Forget, LifeChanges, Statements
<1>1. \A j \in Jvms : life'[j] = "exited" => beat'[j] \notin {"load", "update", "terminate"}
  BY DEF PortInv, BeatRuns, Running
<1>2. RowShape'
  BY DEF RowShape
<1>3. KnownIsActive'
  BY DEF RowShape, KnownIsActive, Active, Running, Starting
<1>4. BeatIsKnown'
  BY DEF BeatIsKnown
<1>5. OthersComplete'
  BY <1>1 DEF OthersComplete, Active, SameHost, RowShape
<1> QED
  BY <1>2, <1>3, <1>4, <1>5

\* An exit is such a change.
LEMMA ExitStep ==
  ASSUME NEW K, NEW lives, Exit(K, lives), overlapped' = overlapped,
         \A j \in Jvms : lives[j] = life[j] \/ life[j] = "off"
  PROVE  LifeChanges
  BY DEF Exit, LifeChanges, Statements, Running

\* So is a command that shuts the worker of the host down,
LEMMA CommandStep ==
  ASSUME NEW h \in Hosts, Command(h)
  PROVE  LifeChanges
  BY ExitStep DEF Command, ShutDownLocalhost

\* and every step of a main thread, of the check of the file, and a crash.
LEMMA LifeStep ==
  ASSUME PortInv, NEW j \in Jvms, Launch(j) \/ MainStep(j) \/ CheckShutDown(j) \/ Crash(j)
  PROVE  LifeChanges
<1> USE DEF PortInv, PortShape
<1>1. CASE Launch(j)
  <2> DEFINE lives == [life EXCEPT ![j] = "launched"]
  <2>1. /\ Exit({port[HostOf[j]]}, lives) \/ Exit({}, lives)
        /\ overlapped' = overlapped
    BY <1>1 DEF Launch, ShutDownLocalhost
  <2>2. \A k \in Jvms : lives[k] = life[k] \/ life[k] = "off"
    BY <1>1 DEF Launch
  <2> HIDE DEF lives
  <2> QED
    BY <2>1, <2>2, ExitStep
<1>2. CASE SomeWorkerStarting(j) \/ GiveUp(j) \/ BindFails(j) \/ Crash(j) \/ Terminate(j)
  <2>1. Exit({j}, life) /\ overlapped' = overlapped
    BY <1>2 DEF SomeWorkerStarting, GiveUp, BindFails, Crash, Terminate, CheckWrite
  <2> QED
    BY <2>1, ExitStep
<1>3. CASE ReadList(j) \/ Announce(j) \/ AnnounceFlush(j) \/ PortAvailable(j)
           \/ PortTaken(j) \/ Bind(j)
  BY <1>3 DEF ReadList, Announce, AnnounceFlush, PortAvailable, PortTaken, Bind, Goes,
              LifeChanges, Statements, Starting, Running
<1>4. CASE CheckRead(j) \/ CheckOpen(j) \/ KeepListening(j)
  BY <1>4 DEF CheckRead, CheckOpen, KeepListening, CheckWrite, LifeChanges, Statements
<1> QED
  BY <1>1, <1>2, <1>3, <1>4 DEF MainStep, CheckShutDown

\* A statement of a beat that writes no row: the phase moves, and rows are
\* read or forgotten.
LEMMA ReadKeepsRows ==
  ASSUME NEW j \in Jvms, NEW b \in Beat, PortInv, RowInv, BeatGoes(j, b),
         UNCHANGED <<worker, known, others>>,
         b \in {"load", "update", "terminate"} => j \in known,
         b \notin {"update", "terminate"}
  PROVE  RowInv'
  BY DEF RowInv, RowShape, KnownIsActive, BeatIsKnown, OthersComplete, BeatGoes,
         Active, SameHost, PortInv, PortShape

\* A running worker is not among the rows another one of its host has still
\* to terminate, as there is no other one.
LEMMA RunnersAreNotOthers ==
  ASSUME PortInv, NEW j \in Jvms, NEW k \in SameHost(j) \ {j},
         beat[j] # "none", life[k] \in Running
  PROVE  overlapped[HostOf[j]]
  BY PortExcludes DEF PortInv, BeatRuns, OneWorkerPerHost, SameHost

\* LOAD_WORKERS: the rows to terminate are all the others that are active.
LEMMA LoadKeepsRows ==
  ASSUME NEW j \in Jvms, PortInv, RowInv, LoadWorkers(j)
  PROVE  RowInv'
<1> USE DEF RowInv, LoadWorkers, BeatGoes
<1>1. RowShape'
  BY DEF RowShape, ToTerminate, Snapshot, SameHost
<1>2. KnownIsActive'
  BY DEF KnownIsActive, Active
<1>3. BeatIsKnown'
  BY DEF BeatIsKnown, PortInv, PortShape
<1>4. OthersComplete'
  <2> SUFFICES ASSUME NEW i \in Jvms, beat'[i] \in {"update", "terminate"},
                      ~overlapped[HostOf[i]],
                      NEW k \in SameHost(i) \ {i}, Active(k)
               PROVE  \E row \in others'[i] : row.jvm = k
    BY DEF OthersComplete, Active
  <2>1. CASE i = j
    <3>1. k \in Jvms
      BY DEF SameHost
    <3>2. [jvm |-> k, due |-> worker[k].due] \in others'[j]
      BY <2>1, <3>1 DEF ToTerminate, Snapshot, RowShape
    <3> QED
      BY <2>1, <3>2
  <2>2. CASE i # j
    BY <2>2 DEF OthersComplete, PortInv, PortShape, RowShape
  <2> QED
    BY <2>1, <2>2
<1> QED
  BY <1>1, <1>2, <1>3, <1>4

\* INSERT_WORKER and UPDATE_WORKER of the worker's own row.
LEMMA OwnRowKeepsRows ==
  ASSUME NEW j \in Jvms, NEW b \in Beat, PortInv, RowInv,
         BeatGoes(j, b), others' = others, beat[j] \in {"worker", "update"},
         b \in {"load", "terminate"}, beat[j] = "worker" => b = "load",
         known' = known \cup {j},
         NEW s \in {"READY", "PAUSED"}, NEW d,
         worker' = [worker EXCEPT ![j] = [state |-> s, due |-> d]]
  PROVE  RowInv'
<1> USE DEF RowInv, BeatGoes
<1>1. life[j] \in Running
  BY DEF PortInv, BeatRuns
<1>2. RowShape'
  BY DEF RowShape, WorkerState
<1>3. KnownIsActive'
  BY <1>1 DEF KnownIsActive, Active, RowShape
<1>4. BeatIsKnown'
  BY DEF BeatIsKnown, PortInv, PortShape
<1>5. OthersComplete'
  <2> SUFFICES ASSUME NEW i \in Jvms, beat'[i] \in {"update", "terminate"},
                      ~overlapped[HostOf[i]],
                      NEW k \in SameHost(i) \ {i}, Active(k)'
               PROVE  \E r \in others[i] : r.jvm = k
    BY DEF OthersComplete
  <2>1. CASE k = j
    BY <1>1, <2>1, RunnersAreNotOthers DEF SameHost, PortInv, PortShape
  <2>2. CASE k # j
    <3>1. Active(k)
      BY <2>2 DEF Active, RowShape, SameHost
    <3>2. beat[i] \in {"update", "terminate"}
      BY DEF PortInv, PortShape
    <3> QED
      BY <3>1, <3>2 DEF OthersComplete
  <2> QED
    BY <2>1, <2>2
<1> QED
  BY <1>2, <1>3, <1>4, <1>5

\* UPDATE_WORKER of another row: that worker does not run any more.
LEMMA TerminateKeepsRows ==
  ASSUME NEW j \in Jvms, PortInv, RowInv, NEW row \in others[j], TerminateOther(j, row)
  PROVE  RowInv'
<1> USE DEF RowInv, TerminateOther, jvmVars
<1>1. row.jvm \in SameHost(j) \ {j} /\ row.jvm \in Jvms
  BY DEF RowShape, SameHost
<1>2. RowShape'
  BY <1>1 DEF RowShape, WorkerState
<1>3. life[row.jvm] \in Running => overlapped[HostOf[row.jvm]]
  BY <1>1, RunnersAreNotOthers DEF SameHost
<1>4. KnownIsActive'
  BY <1>1, <1>3 DEF KnownIsActive, Active, RowShape
<1>5. BeatIsKnown'
  BY DEF BeatIsKnown
<1>6. OthersComplete'
  <2> SUFFICES ASSUME NEW i \in Jvms, beat[i] \in {"update", "terminate"},
                      ~overlapped[HostOf[i]],
                      NEW k \in SameHost(i) \ {i}, Active(k)'
               PROVE  \E r \in others'[i] : r.jvm = k
    BY DEF OthersComplete
  <2>1. k # row.jvm /\ k \in Jvms
    BY <1>1 DEF Active, RowShape, SameHost
  <2>2. Active(k)
    BY <2>1 DEF Active, RowShape
  <2>3. PICK r \in others[i] : r.jvm = k
    BY <2>2 DEF OthersComplete
  <2>4. r \in others'[i]
    BY <2>1, <2>3 DEF RowShape
  <2> QED
    BY <2>3, <2>4
<1> QED
  BY <1>2, <1>4, <1>5, <1>6

\* A beat that fails forgets the rows it had still to terminate.
LEMMA FailKeepsRows ==
  ASSUME NEW j \in Jvms, PortInv, RowInv, BeatFails(j)
  PROVE  RowInv'
<1> USE DEF RowInv, BeatFails, BeatGoes
<1>1. RowShape'
  BY DEF RowShape
<1>2. KnownIsActive'
  BY DEF KnownIsActive, Active
<1>3. BeatIsKnown'
  BY DEF BeatIsKnown, PortInv, PortShape
<1>4. OthersComplete'
  BY DEF OthersComplete, Active, SameHost, RowShape, PortInv, PortShape
<1> QED
  BY <1>1, <1>2, <1>3, <1>4

\* The clock changes times only.
LEMMA TickKeepsRows ==
  ASSUME PortInv, RowInv, Tick
  PROVE  RowInv'
<1> USE DEF RowInv, Tick, jvmVars
<1>1. \A k \in Jvms :
        worker'[k] = [state |-> worker[k].state, due |-> Passed(worker[k].due)]
  BY DEF RowShape
<1>2. /\ DOMAIN worker' = Jvms /\ DOMAIN others' = Jvms /\ known' = known
      /\ life' = life /\ beat' = beat /\ overlapped' = overlapped
      /\ \A j \in Jvms : others'[j] =
            {[jvm |-> row.jvm, due |-> Passed(row.due)] : row \in others[j]}
  OBVIOUS
<1>3. \A k \in Jvms : worker'[k].state = worker[k].state
  BY <1>1
<1> HIDE DEF Tick
<1>4. RowShape'
  <2>1. \A j \in Jvms : \A row \in others'[j] : row.jvm \in SameHost(j) \ {j}
    BY <1>2 DEF RowShape
  <2>2. \A k \in Jvms : worker'[k] = [state |-> worker'[k].state, due |-> worker'[k].due]
    <3> TAKE k \in Jvms
    <3>1. worker'[k] = [state |-> worker[k].state, due |-> Passed(worker[k].due)]
      BY <1>1
    <3>2. worker'[k].state = worker[k].state /\ worker'[k].due = Passed(worker[k].due)
      BY <3>1
    <3> QED
      BY <3>1, <3>2
  <2> QED
    BY <1>2, <2>1, <2>2 DEF RowShape, SameHost
<1>5. KnownIsActive'
  BY <1>2, <1>3 DEF KnownIsActive, RowShape, Active
<1>6. BeatIsKnown'
  BY <1>2 DEF BeatIsKnown
<1>7. OthersComplete'
  <2> SUFFICES ASSUME NEW j \in Jvms, beat[j] \in {"update", "terminate"},
                      ~overlapped[HostOf[j]],
                      NEW k \in SameHost(j) \ {j}, Active(k)'
               PROVE  \E row \in others'[j] : row.jvm = k
    BY <1>2 DEF OthersComplete, SameHost
  <2>1. PICK row \in others[j] : row.jvm = k
    BY <1>3 DEF OthersComplete, Active, SameHost
  <2>2. [jvm |-> row.jvm, due |-> Passed(row.due)] \in others'[j]
    BY <1>2
  <2> QED
    BY <2>1, <2>2
<1> QED
  BY <1>4, <1>5, <1>6, <1>7

\* Every statement of a beat keeps RowInv.
LEMMA WorkerKeepsRows ==
  ASSUME NEW j \in Jvms, PortInv, RowInv, WorkerStep(j)
  PROVE  RowInv'
<1>1. CASE NotDue(j)
  BY <1>1, ReadKeepsRows DEF NotDue, workerVars, Beat
<1>2. CASE LoadHost(j)
  <2>1. PICK b \in {"worker", "insertHost"} : BeatGoes(j, b)
    BY <1>2 DEF LoadHost
  <2> QED
    BY <1>2, <2>1, ReadKeepsRows DEF LoadHost, workerVars, Beat
<1>3. CASE InsertHost(j)
  <2>1. PICK b \in {"worker", "rest"} : BeatGoes(j, b)
    BY <1>3 DEF InsertHost
  <2> QED
    BY <1>3, <2>1, ReadKeepsRows DEF InsertHost, Beat
<1>4. CASE InsertWorker(j)
  BY <1>4, OwnRowKeepsRows DEF InsertWorker, Beat
<1>5. CASE LoadWorker(j)
  BY <1>5, ReadKeepsRows DEF LoadWorker, Beat
<1>6. CASE LoadWorkers(j)
  BY <1>6, LoadKeepsRows
<1>7. CASE NoActiveWorker(j)
  BY <1>7, ReadKeepsRows DEF NoActiveWorker, workerVars, Beat
<1>8. CASE UpdateWorker(j)
  <2>1. PICK s \in {"READY", "PAUSED"} : s = IF j \in Busy THEN "PAUSED" ELSE "READY"
    OBVIOUS
  <2>2. beat[j] = "update" /\ j \in known
    BY <1>8 DEF UpdateWorker, RowInv, BeatIsKnown
  <2>3. worker' = [worker EXCEPT ![j] = [state |-> s, due |-> next[j]]]
        /\ known' = known \cup {j}
    BY <1>8, <2>1, <2>2 DEF UpdateWorker
  <2> QED
    BY <1>8, <2>2, <2>3, OwnRowKeepsRows DEF UpdateWorker, Beat
<1>9. CASE \E row \in others[j] : TerminateOther(j, row)
  BY <1>9, TerminateKeepsRows
<1>10. CASE EndBeat(j)
  BY <1>10, ReadKeepsRows DEF EndBeat, workerVars, Beat
<1> QED
  BY <1>1, <1>2, <1>3, <1>4, <1>5, <1>6, <1>7, <1>8, <1>9, <1>10 DEF WorkerStep

\* Every step of the program keeps HostInv.
LEMMA NextKeepsHost == HostInv /\ [Next]_vars => HostInv'
<1> SUFFICES ASSUME PortInv, RowInv, [Next]_vars PROVE RowInv'
  BY NextKeepsPort DEF HostInv
<1>1. PortInv'
  BY NextKeepsPort
<1>2. CASE Tick
  BY <1>2, TickKeepsRows
<1>3. CASE UNCHANGED vars
  BY <1>3 DEF vars, jvmVars, workerVars, RowInv, RowShape, KnownIsActive, BeatIsKnown,
              OthersComplete, Active
<1>4. ASSUME NEW j \in Jvms, WorkerStep(j)
      PROVE  RowInv'
  BY <1>4, WorkerKeepsRows
<1>5. ASSUME NEW j \in Jvms, BeatFails(j)
      PROVE  RowInv'
  BY <1>5, FailKeepsRows
<1>6. ASSUME NEW j \in Jvms, Forget,
             Launch(j) \/ MainStep(j) \/ CheckShutDown(j) \/ Crash(j)
      PROVE  RowInv'
  BY <1>1, <1>6, LifeStep, LifeKeepsRows
<1>7. ASSUME NEW h \in Hosts, Command(h), Forget
      PROVE  RowInv'
  BY <1>1, <1>7, CommandStep, LifeKeepsRows
<1> QED
  BY <1>2, <1>3, <1>4, <1>5, <1>6, <1>7 DEF Next, BeatThread

\* For any hosts and JVMs: a worker that asks for the active workers of its
\* cloud is one of them (calculateNextBeat divides by their hosts).
THEOREM CountsItselfAlways == Spec => []CountsItself
<1>1. Init => HostInv
  BY PortInit, RowInit DEF HostInv
<1>2. HostInv => CountsItself
  BY DEF HostInv, PortInv, BeatRuns, RowInv, KnownIsActive, BeatIsKnown, CountsItself
<1> QED
  BY <1>1, <1>2, NextKeepsHost, PTL DEF Spec

\* For any hosts and JVMs: a worker that has registered is the only active
\* one of its host (ensureWorker).
THEOREM OneActiveRowAlways == Spec => []OneActiveRowPerHost
<1>1. Init => HostInv
  BY PortInit, RowInit DEF HostInv
<1>2. HostInv => OneActiveRowPerHost
  <2> SUFFICES ASSUME HostInv, NEW j \in Jvms, AtWork(j), ~overlapped[HostOf[j]]
               PROVE  {k \in SameHost(j) : Active(k)} = {j}
    BY DEF OneActiveRowPerHost
  <2>1. Active(j)
    BY DEF HostInv, PortInv, BeatRuns, RowInv, KnownIsActive, BeatIsKnown, AtWork
  <2>2. \A k \in SameHost(j) \ {j} : ~Active(k)
    BY DEF HostInv, RowInv, OthersComplete, AtWork
  <2> QED
    BY <2>1, <2>2 DEF SameHost
<1> QED
  BY <1>1, <1>2, NextKeepsHost, PTL DEF Spec

------------------------------------------------------------------------------
(* FileInv: what the entries of the file, and of the lists read from it,   *)
(* say of their JVMs.  Entries are lost at any time, but none is made up:  *)
(* an entry is there only while its JVM is, unless a JVM left one behind.  *)

Alive == Starting \cup {"serve"}

IsList(s) == s \in Seq(Jvms) /\ IsInjective(s)

FileShape ==
    /\ file \in [Hosts -> Seq(Jvms)] /\ \A h \in Hosts : IsList(file[h])
    /\ listed \in [Jvms -> Seq(Jvms)] /\ \A j \in Jvms : IsList(listed[j])
    /\ tries \in [Jvms -> 0..MaxTries]
    /\ faults \in 0..MaxFaults
    /\ stranded \in [Hosts -> BOOLEAN]

FileHolds ==
    \A h \in Hosts : \A k \in Entries(file[h]) :
        HostOf[k] = h /\ (stranded[h] \/ life[k] \in Alive)

ListedHolds ==
    \A j \in Jvms : \A k \in Entries(listed[j]) :
        HostOf[k] = HostOf[j] /\ (stranded[HostOf[j]] \/ life[k] \in Alive)

\* The worker is past the first list it wrote, at its last beats or at this one.
Checked(j) == j \in known \/ beat[j] \notin {"none", "rest", "open"}

CheckedIsGone ==
    \A j \in Jvms :
        life[j] \in Running /\ Checked(j) /\ ~overlapped[HostOf[j]]
        => j \notin Entries(file[HostOf[j]])

FileInv == FileShape /\ FileHolds /\ ListedHolds /\ CheckedIsGone

\* Leaving entries out of a list leaves a list of the others.
LEMMA WithoutList ==
  ASSUME NEW s \in Seq(Jvms), NEW K, NEW t \in Without(s, K)
  PROVE  IsList(t) /\ Entries(t) \subseteq Entries(s) \ K
<1>1. Entries(s) \ K \subseteq Jvms
  BY DEF Entries
<1>2. IsFiniteSet(Entries(s) \ K)
  BY <1>1, FS_Subset
<1>3. PICK n \in Nat : n = Cardinality(Entries(s) \ K)
  BY <1>2, FS_CardinalityType
<1>4. /\ t \in [1..n -> Entries(s) \ K]
      /\ \A a, b \in 1..n : a # b => t[a] # t[b]
  BY <1>3 DEF Without, SetToSeqs
<1>5. t \in Seq(Jvms)
  BY <1>1, <1>4
<1>6. IsInjective(t)
  BY <1>4 DEF IsInjective
<1>7. Entries(t) \subseteq Entries(s) \ K
  BY <1>4 DEF Entries
<1> QED
  BY <1>5, <1>6, <1>7 DEF IsList

\* What a writer leaves in the file is a list of its own entries and of some
\* that were there.
LEMMA OverlayList ==
  ASSUME NEW h \in Hosts, IsList(file[h]), NEW own, IsList(own), NEW s \in Overlay(h, own)
  PROVE  IsList(s) /\ Entries(s) \subseteq Entries(own) \cup Entries(file[h])
<1>0. PICK u \in UNION {Without(SubSeq(file[h], i, Len(file[h])), Entries(own)) :
                          i \in 1..(Len(file[h]) + 1)} : s = own \o u
  BY ZenonT(20) DEF Overlay
<1>1. PICK i \in 1..(Len(file[h]) + 1) :
        u \in Without(SubSeq(file[h], i, Len(file[h])), Entries(own))
  OBVIOUS
<1> DEFINE f == file[h]
           tail == SubSeq(f, i, Len(f))
<1>2. f \in Seq(Jvms) /\ Len(f) \in Nat /\ i \in Nat \ {0}
  BY DEF IsList
<1>3. /\ tail \in Seq(Jvms)
      /\ Len(tail) \in Nat
      /\ \A a \in 1..Len(tail) : \E b \in 1..Len(f) : tail[a] = f[b]
  <2> HIDE DEF f
  <2>1. i \in Int /\ Len(f) \in Int /\ \A a \in i..Len(f) : f[a] \in Jvms
    BY <1>1, <1>2 DEF f
  <2>2. /\ tail \in Seq(Jvms)
        /\ Len(tail) = IF i <= Len(f) THEN Len(f) - i + 1 ELSE 0
        /\ \A a \in 1..(Len(f) - i + 1) : tail[a] = f[i + a - 1]
    BY <2>1, SubSeqProperties
  <2> HIDE DEF tail
  <2>3. Len(tail) \in Nat
    BY <1>2, <2>2
  <2>4. ASSUME NEW a \in 1..Len(tail)
        PROVE  \E b \in 1..Len(f) : tail[a] = f[b]
    <3>1. i <= Len(f) /\ a \in 1..(Len(f) - i + 1)
      BY <1>2, <2>2
    <3>2. i + a - 1 \in 1..Len(f) /\ tail[a] = f[i + a - 1]
      BY <1>2, <2>2, <3>1
    <3> QED
      BY <3>2
  <2> QED
    BY <2>2, <2>3, <2>4
<1>4. Entries(tail) \subseteq Entries(f)
  <2> HIDE DEF f, tail
  <2> QED
    BY <1>2, <1>3 DEF Entries
<1>5. PICK t \in Without(tail, Entries(own)) : s = own \o t
  BY <1>0, <1>1
<1> HIDE DEF tail
<1>6. IsList(t) /\ Entries(t) \subseteq Entries(f) \ Entries(own)
  BY <1>3, <1>4, <1>5, WithoutList
<1>7. /\ s \in Seq(Jvms) /\ own \in Seq(Jvms) /\ t \in Seq(Jvms)
      /\ Len(own) \in Nat /\ Len(t) \in Nat /\ Len(s) = Len(own) + Len(t)
      /\ DOMAIN s = 1..Len(s) /\ DOMAIN own = 1..Len(own) /\ DOMAIN t = 1..Len(t)
      /\ \A a \in 1..Len(s) : s[a] = IF a <= Len(own) THEN own[a] ELSE t[a - Len(own)]
  BY <1>5, <1>6 DEF IsList
<1>8. \A a \in 1..Len(s) :
        \/ a \in 1..Len(own) /\ s[a] = own[a]
        \/ a - Len(own) \in 1..Len(t) /\ s[a] = t[a - Len(own)]
  BY <1>7
<1>9. Entries(s) \subseteq Entries(own) \cup Entries(f)
  <2>1. /\ \A c \in 1..Len(own) : own[c] \in Entries(own)
        /\ \A c \in 1..Len(t) : t[c] \in Entries(t)
    BY <1>7 DEF Entries
  <2>2. \A a \in 1..Len(s) : s[a] \in Entries(own) \cup Entries(t)
    BY <1>8, <2>1
  <2>3. \A x \in Entries(s) : \E a \in 1..Len(s) : x = s[a]
    BY <1>7 DEF Entries
  <2> QED
    BY <1>6, <2>2, <2>3
<1>10. IsInjective(s)
  <2> SUFFICES ASSUME NEW a \in 1..Len(s), NEW b \in 1..Len(s), s[a] = s[b]
               PROVE  a = b
    BY <1>7 DEF IsInjective
  <2>1. /\ \A c \in 1..Len(own) : own[c] \in Entries(own)
        /\ \A c \in 1..Len(t) : t[c] \notin Entries(own)
    BY <1>6, <1>7 DEF Entries
  <2>2. /\ \A c, d \in 1..Len(own) : own[c] = own[d] => c = d
        /\ \A c, d \in 1..Len(t) : t[c] = t[d] => c = d
    BY <1>6, <1>7 DEF IsList, IsInjective
  <2>3. a \in Nat /\ b \in Nat /\ Len(own) \in Nat
    BY <1>7
  <2>4. CASE s[a] \in Entries(own)
    <3>1. a \in 1..Len(own) /\ b \in 1..Len(own) /\ own[a] = own[b]
      BY <1>8, <2>1, <2>4
    <3> QED
      BY <2>2, <3>1
  <2>5. CASE s[a] \notin Entries(own)
    <3>1. /\ a - Len(own) \in 1..Len(t) /\ b - Len(own) \in 1..Len(t)
          /\ t[a - Len(own)] = t[b - Len(own)]
      BY <1>8, <2>1, <2>5
    <3>2. a - Len(own) = b - Len(own)
      BY <2>2, <3>1
    <3> QED
      BY <2>3, <3>2
  <2> QED
    BY <2>4, <2>5
<1> QED
  BY <1>7, <1>9, <1>10 DEF IsList

\* At first the files are empty.
LEMMA FileInit == Init => FileInv
<1> SUFFICES ASSUME Init PROVE FileInv
  OBVIOUS
<1>1. IsList(<<>>) /\ Entries(<<>>) = {}
  BY DEF IsList, IsInjective, Entries
<1> QED
  BY <1>1 DEF Init, JvmInit, FileInv, FileShape, FileHolds, ListedHolds, CheckedIsGone,
              Running

\* JVMs that exit take their lists with them; an entry they leave behind is
\* noticed.  The file may be written at the same time, with entries that were
\* in it or in the list of one that exits.
LEMMA ExitKeepsFiles ==
  ASSUME NEW K \in SUBSET Jvms, NEW lives \in [Jvms -> Life], PortInv, FileInv,
         Exit(K, lives), overlapped' = overlapped, UNCHANGED <<tries, known>>,
         faults' \in 0..MaxFaults,
         \A j \in Jvms : lives[j] = life[j] \/ (life[j] = "off" /\ lives[j] = "launched"),
         file' \in [Hosts -> Seq(Jvms)], \A h \in Hosts : IsList(file'[h]),
         \A h \in Hosts : \A k \in Entries(file'[h]) :
            \/ k \in Entries(file[h])
            \/ \E j \in K : j # k /\ HostOf[j] = h /\ k \in Entries(listed[j]),
         \A j \in K : \A k \in Jvms \ {j} :
            HostOf[k] = HostOf[j] /\ life[k] \in Running /\ ~overlapped[HostOf[j]]
            => file'[HostOf[j]] = file[HostOf[j]]
  PROVE  FileInv'
<1> USE DEF FileInv
<1>1. /\ life' = [j \in Jvms |-> IF j \in K THEN "exited" ELSE lives[j]]
      /\ listed' = [j \in Jvms |-> IF j \in K THEN <<>> ELSE listed[j]]
      /\ beat' = [j \in Jvms |-> IF j \in K THEN "none" ELSE beat[j]]
      /\ stranded' = [h \in Hosts |->
            stranded[h] \/ \E j \in K : HostOf[j] = h /\ Lingers(j)]
  BY DEF Exit
<1>2. IsList(<<>>) /\ Entries(<<>>) = {}
  BY DEF IsList, IsInjective, Entries
<1>3. FileShape'
  <2>1. stranded' \in [Hosts -> BOOLEAN]
    BY <1>1 DEF FileShape
  <2>2. listed' \in [Jvms -> Seq(Jvms)] /\ \A j \in Jvms : IsList(listed'[j])
    BY <1>1, <1>2 DEF FileShape, IsList
  <2> QED
    BY <2>1, <2>2 DEF FileShape
<1>4. \A j \in Jvms : life[j] \in Alive /\ j \notin K => life'[j] \in Alive
  BY <1>1 DEF Alive, Starting
<1>5. ASSUME NEW h \in Hosts, ~stranded'[h]
      PROVE  ~stranded[h] /\ \A j \in K : HostOf[j] = h => ~Lingers(j)
  BY <1>1, <1>5
<1>6. FileHolds'
  <2> SUFFICES ASSUME NEW h \in Hosts, NEW k \in Entries(file'[h])
               PROVE  HostOf[k] = h /\ (stranded'[h] \/ life'[k] \in Alive)
    BY DEF FileHolds
  <2>1. CASE k \in Entries(file[h])
    <3>1. HostOf[k] = h /\ (stranded[h] \/ life[k] \in Alive)
      BY <2>1 DEF FileHolds
    <3>2. k \in Jvms
      BY <2>1 DEF FileShape, IsList, Entries
    <3>3. k \in K => stranded'[h]
      BY <1>5, <2>1, <3>1 DEF Lingers
    <3> QED
      BY <1>4, <1>5, <3>1, <3>2, <3>3
  <2>2. ASSUME NEW j \in K, j # k, HostOf[j] = h, k \in Entries(listed[j])
        PROVE  HostOf[k] = h /\ (stranded'[h] \/ life'[k] \in Alive)
    <3>1. HostOf[k] = h /\ (stranded[h] \/ life[k] \in Alive)
      BY <2>2 DEF ListedHolds
    <3>2. k \in Jvms
      BY <2>2 DEF FileShape, IsList, Entries
    <3>3. k \in K => stranded'[h]
      BY <1>5, <2>2, <3>1 DEF Lingers
    <3> QED
      BY <1>4, <1>5, <3>1, <3>2, <3>3
  <2> QED
    BY <2>1, <2>2
<1>7. ListedHolds'
  <2> SUFFICES ASSUME NEW j \in Jvms, NEW k \in Entries(listed'[j])
               PROVE  HostOf[k] = HostOf[j] /\ (stranded'[HostOf[j]] \/ life'[k] \in Alive)
    BY DEF ListedHolds
  <2>1. j \notin K /\ k \in Entries(listed[j])
    BY <1>1, <1>2
  <2>2. HostOf[k] = HostOf[j] /\ (stranded[HostOf[j]] \/ life[k] \in Alive)
    BY <2>1 DEF ListedHolds
  <2>3. k \in Jvms /\ HostOf[j] \in Hosts
    BY <2>1 DEF FileShape, IsList, Entries
  <2>4. k \in K => stranded'[HostOf[j]]
    BY <1>5, <2>1, <2>2, <2>3 DEF Lingers
  <2> QED
    BY <1>4, <1>5, <2>2, <2>3, <2>4
<1>8. CheckedIsGone'
  <2> SUFFICES ASSUME NEW k \in Jvms, life'[k] \in Running, Checked(k)', ~overlapped[HostOf[k]]
               PROVE  k \notin Entries(file'[HostOf[k]])
    BY DEF CheckedIsGone
  <2>1. k \notin K /\ life[k] \in Running /\ Checked(k)
    BY <1>1 DEF Running, Checked
  <2>2. k \notin Entries(file[HostOf[k]])
    BY <2>1 DEF CheckedIsGone
  <2>3. HostOf[k] \in Hosts
    OBVIOUS
  <2>4. \/ k \in Entries(file[HostOf[k]])
        \/ \E j \in K : j # k /\ HostOf[j] = HostOf[k] /\ k \in Entries(listed[j])
        \/ k \notin Entries(file'[HostOf[k]])
    BY <2>3
  <2>5. ASSUME NEW j \in K, j # k, HostOf[j] = HostOf[k]
        PROVE  k \notin Entries(file'[HostOf[k]])
    <3>1. file'[HostOf[j]] = file[HostOf[j]]
      BY <2>1, <2>5
    <3> QED
      BY <2>2, <2>5, <3>1
  <2> QED
    BY <2>2, <2>4, <2>5
<1> QED
  BY <1>3, <1>6, <1>7, <1>8

\* A JVM that exits and leaves the file alone.
LEMMA PlainExitKeepsFiles ==
  ASSUME NEW K \in SUBSET Jvms, NEW lives \in [Jvms -> Life], PortInv, FileInv,
         Exit(K, lives), overlapped' = overlapped, UNCHANGED <<file, tries, known>>,
         faults' \in 0..MaxFaults,
         \A j \in Jvms : lives[j] = life[j] \/ (life[j] = "off" /\ lives[j] = "launched")
  PROVE  FileInv'
  BY ExitKeepsFiles DEF FileInv, FileShape

\* The same of a request to shut down.
LEMMA ShutDownKeepsFiles ==
  ASSUME NEW h \in Hosts, NEW lives \in [Jvms -> Life], PortInv, FileInv,
         ShutDownLocalhost(h, lives), overlapped' = overlapped,
         UNCHANGED <<file, tries, known>>, faults' \in 0..MaxFaults,
         \A j \in Jvms : lives[j] = life[j] \/ (life[j] = "off" /\ lives[j] = "launched")
  PROVE  FileInv'
<1>1. CASE port[h] # None /\ Exit({port[h]}, lives)
  <2>1. {port[h]} \in SUBSET Jvms
    BY <1>1 DEF PortInv, PortShape
  <2> QED
    BY <1>1, <2>1, PlainExitKeepsFiles
<1>2. CASE Exit({}, lives)
  <2>1. {} \in SUBSET Jvms
    OBVIOUS
  <2> QED
    BY <1>2, <2>1, PlainExitKeepsFiles
<1> QED
  BY <1>1, <1>2 DEF ShutDownLocalhost

\* A main thread that goes on, its own entry in the file or not.
LEMMA StartKeepsFiles ==
  ASSUME NEW j \in Jvms, PortInv, RowInv, FileInv, known' = known,
         ReadList(j) \/ Announce(j) \/ AnnounceFlush(j) \/ PortAvailable(j)
         \/ PortTaken(j) \/ Bind(j)
  PROVE  FileInv'
<1> USE DEF FileInv
<1> DEFINE h == HostOf[j]
<1>1. /\ h \in Hosts /\ life \in [Jvms -> Life] /\ file \in [Hosts -> Seq(Jvms)]
      /\ \A g \in Hosts : IsList(file[g])
  BY DEF PortInv, PortShape, FileShape
<1>2. /\ UNCHANGED <<listed, faults, stranded>>
      /\ \A k \in Jvms \ {j} : life'[k] = life[k] /\ beat'[k] = beat[k]
      /\ \A g \in Hosts : overlapped[g] => overlapped'[g]
      /\ life[j] # "off" /\ life[j] # "exited" /\ life[j] # "serve"
      /\ life'[j] \in Alive
  BY <1>1 DEF ReadList, Announce, AnnounceFlush, PortAvailable, PortTaken, Bind, Goes, Alive,
              Starting, PortInv, PortShape
<1>3. /\ file' \in [Hosts -> Seq(Jvms)] /\ \A g \in Hosts : IsList(file'[g])
      /\ \A g \in Hosts : \A k \in Entries(file'[g]) :
            k \in Entries(file[g]) \/ (k = j /\ g = h /\ life[j] = "flush" /\ life'[j] = "probe")
  <2>1. CASE ReadList(j) \/ PortAvailable(j) \/ PortTaken(j) \/ Bind(j)
    BY <1>1, <2>1 DEF ReadList, PortAvailable, PortTaken, Bind
  <2>2. CASE Announce(j)
    <3>1. IsList(<<>>) /\ Entries(<<>>) = {}
      BY DEF IsList, IsInjective, Entries
    <3> QED
      BY <1>1, <2>2, <3>1 DEF Announce
  <2>3. CASE AnnounceFlush(j)
    <3>1. IsList(<<j>>) /\ Entries(<<j>>) = {j}
      BY DEF IsList, IsInjective, Entries
    <3>2. PICK s \in Overlay(h, <<j>>) : file' = [file EXCEPT ![h] = s]
      BY <2>3 DEF AnnounceFlush
    <3>3. IsList(s) /\ Entries(s) \subseteq {j} \cup Entries(file[h])
      BY <1>1, <3>1, OverlayList
    <3>4. life[j] = "flush" /\ life'[j] = "probe"
      BY <1>1, <2>3 DEF AnnounceFlush, Goes
    <3> QED
      BY <1>1, <3>2, <3>3, <3>4 DEF IsList
  <2> QED
    BY <2>1, <2>2, <2>3
<1>4. tries' \in [Jvms -> 0..MaxTries]
  <2>1. CASE PortTaken(j)
    BY <2>1 DEF PortTaken, FileShape
  <2>2. CASE ~PortTaken(j)
    BY <2>2 DEF ReadList, Announce, AnnounceFlush, PortAvailable, Bind, FileShape
  <2> QED
    BY <2>1, <2>2
<1>5. FileShape'
  BY <1>2, <1>3, <1>4 DEF FileShape
<1>6. \A k \in Jvms : life[k] \in Alive => life'[k] \in Alive
  BY <1>2
<1>7. FileHolds'
  <2> SUFFICES ASSUME NEW g \in Hosts, NEW k \in Entries(file'[g])
               PROVE  HostOf[k] = g /\ (stranded[g] \/ life'[k] \in Alive)
    BY <1>2 DEF FileHolds
  <2>1. CASE k = j /\ g = h
    BY <1>2, <2>1
  <2>2. CASE k \in Entries(file[g])
    <3>1. k \in Jvms
      BY <2>2 DEF FileShape, IsList, Entries
    <3> QED
      BY <1>6, <2>2, <3>1 DEF FileHolds
  <2> QED
    BY <1>3, <2>1, <2>2
<1>8. ListedHolds'
  <2>1. \A i \in Jvms : Entries(listed[i]) \subseteq Jvms
    BY DEF FileShape, IsList, Entries
  <2> QED
    BY <1>2, <1>6, <2>1 DEF ListedHolds
<1>9. CheckedIsGone'
  <2> SUFFICES ASSUME NEW k \in Jvms, life'[k] \in Running, Checked(k)', ~overlapped'[HostOf[k]]
               PROVE  k \notin Entries(file'[HostOf[k]])
    BY DEF CheckedIsGone
  <2>0. HostOf[k] \in Hosts /\ ~overlapped[HostOf[k]]
    BY <1>2
  <2>1. CASE k # j
    BY <1>2, <1>3, <2>0, <2>1 DEF CheckedIsGone, Checked
  <2>2. CASE k = j
    <3>1. PortAvailable(j) \/ Bind(j)
      BY <1>1, <2>2 DEF ReadList, Announce, AnnounceFlush, PortTaken, Goes, Running
    <3>2. CASE PortAvailable(j)
      <4>1. beat'[j] = "rest" /\ j \notin known
        BY <3>2 DEF PortAvailable, PortInv, PortShape, RowInv, KnownIsActive, Running
      <4> QED
        BY <2>2, <4>1 DEF Checked
    <3>3. CASE Bind(j)
      BY <2>0, <2>2, <3>3 DEF Bind, CheckedIsGone, Checked, Running
    <3> QED
      BY <3>1, <3>2, <3>3
  <2> QED
    BY <2>1, <2>2
<1> QED
  BY <1>5, <1>7, <1>8, <1>9

\* What a worker writes back is from the list it read and from the file, and
\* it is not in it itself unless another writer has put it there.
LEMMA CheckWriteFile ==
  ASSUME NEW j \in Jvms, FileInv, CheckWrite(j)
  PROVE  /\ file' \in [Hosts -> Seq(Jvms)] /\ \A h \in Hosts : IsList(file'[h])
         /\ \A h \in Hosts : h # HostOf[j] => file'[h] = file[h]
         /\ \A k \in Entries(file'[HostOf[j]]) :
               k \in Entries(file[HostOf[j]]) \/ (k # j /\ k \in Entries(listed[j]))
         /\ UNCHANGED <<tries, faults, overlapped>>
<1> DEFINE h == HostOf[j]
<1>1. /\ beat[j] = "write" /\ UNCHANGED <<tries, faults, overlapped>>
      /\ \E own \in Entered(j) : \E s \in Overlay(h, own) : file' = [file EXCEPT ![h] = s]
  BY DEF CheckWrite
<1>2. PICK own \in Entered(j) : \E s \in Overlay(h, own) : file' = [file EXCEPT ![h] = s]
  BY <1>1
<1>3. PICK s \in Overlay(h, own) : file' = [file EXCEPT ![h] = s]
  BY <1>2
<1>4. IsList(own) /\ Entries(own) \subseteq Entries(listed[j]) \ {j}
  BY <1>2, WithoutList DEF Entered, FileInv, FileShape, IsList
<1>5. /\ h \in Hosts /\ IsList(file[h]) /\ file \in [Hosts -> Seq(Jvms)]
      /\ \A g \in Hosts : IsList(file[g])
  BY DEF FileInv, FileShape
<1>6. IsList(s) /\ Entries(s) \subseteq Entries(own) \cup Entries(file[h])
  BY <1>3, <1>4, <1>5, OverlayList
<1> QED
  BY <1>1, <1>3, <1>4, <1>5, <1>6 DEF IsList

\* The beginning of a beat.
LEMMA CheckKeepsFiles ==
  ASSUME NEW j \in Jvms, PortInv, FileInv, CheckShutDown(j), known' = known
  PROVE  FileInv'
<1> USE DEF FileInv
<1>1. CASE Terminate(j)
  <2>1. /\ Exit({j}, life) /\ CheckWrite(j) /\ {j} \in SUBSET Jvms
        /\ life \in [Jvms -> Life] /\ faults \in 0..MaxFaults
    BY <1>1 DEF Terminate, PortInv, PortShape, FileShape
  <2>2. life[j] \in Running
    BY <2>1 DEF CheckWrite, PortInv, BeatRuns
  <2>3. \A k \in Jvms \ {j} :
          ~(HostOf[k] = HostOf[j] /\ life[k] \in Running /\ ~overlapped[HostOf[j]])
    BY <2>2, PortExcludes DEF OneWorkerPerHost
  <2>4. /\ file' \in [Hosts -> Seq(Jvms)] /\ \A h \in Hosts : IsList(file'[h])
        /\ UNCHANGED <<tries, faults, overlapped>>
    BY <2>1, CheckWriteFile
  <2>5. \A h \in Hosts : \A k \in Entries(file'[h]) :
          \/ k \in Entries(file[h])
          \/ j # k /\ HostOf[j] = h /\ k \in Entries(listed[j])
    BY <2>1, CheckWriteFile
  <2> QED
    BY <2>1, <2>3, <2>4, <2>5, ExitKeepsFiles
<1>2. CASE CheckRead(j)
  <2>1. /\ listed' = [listed EXCEPT ![j] = file[HostOf[j]]]
        /\ beat[j] = "rest" /\ beat' = [beat EXCEPT ![j] = "open"]
        /\ UNCHANGED <<file, life, tries, faults, overlapped, stranded, known>>
    BY <1>2 DEF CheckRead
  <2>2. FileShape' /\ FileHolds'
    BY <2>1 DEF FileShape, FileHolds
  <2>3. ListedHolds'
    BY <2>1 DEF ListedHolds, FileHolds, FileShape
  <2>4. CheckedIsGone'
    BY <2>1 DEF CheckedIsGone, Checked, PortInv, PortShape
  <2> QED
    BY <2>2, <2>3, <2>4
<1>3. CASE CheckOpen(j)
  <2>1. /\ file' = [file EXCEPT ![HostOf[j]] = <<>>] /\ HostOf[j] \in Hosts
        /\ \A k \in Jvms \ {j} : beat'[k] = beat[k]
        /\ UNCHANGED <<listed, life, tries, faults, overlapped, stranded, known>>
    BY <1>3 DEF CheckOpen, PortInv, PortShape
  <2>2. IsList(<<>>) /\ Entries(<<>>) = {}
    BY DEF IsList, IsInjective, Entries
  <2>3. FileShape' /\ FileHolds' /\ ListedHolds'
    BY <2>1, <2>2 DEF FileShape, FileHolds, ListedHolds
  <2>4. CheckedIsGone'
    BY <2>1, <2>2 DEF CheckedIsGone, Checked, FileShape
  <2> QED
    BY <2>3, <2>4
<1>4. CASE KeepListening(j)
  <2> DEFINE h == HostOf[j]
  <2>1. /\ CheckWrite(j) /\ listed' = [listed EXCEPT ![j] = <<>>]
        /\ beat[j] = "write" /\ h \in Hosts
        /\ \A k \in Jvms \ {j} : beat'[k] = beat[k]
        /\ UNCHANGED <<life, stranded, known>>
    BY <1>4 DEF KeepListening, CheckWrite, PortInv, PortShape
  <2>2. /\ file' \in [Hosts -> Seq(Jvms)] /\ \A g \in Hosts : IsList(file'[g])
        /\ \A g \in Hosts : g # h => file'[g] = file[g]
        /\ \A k \in Entries(file'[h]) :
              k \in Entries(file[h]) \/ (k # j /\ k \in Entries(listed[j]))
        /\ UNCHANGED <<tries, faults, overlapped>>
    BY <2>1, CheckWriteFile
  <2>3. life[j] \in Running
    BY <2>1 DEF PortInv, BeatRuns
  <2>4. IsList(<<>>) /\ Entries(<<>>) = {}
    BY DEF IsList, IsInjective, Entries
  <2>5. FileShape'
    BY <2>1, <2>2, <2>4 DEF FileShape
  <2>6. FileHolds'
    <3>1. \A k \in Entries(file'[h]) : HostOf[k] = h /\ (stranded[h] \/ life[k] \in Alive)
      BY <2>1, <2>2 DEF FileHolds, ListedHolds
    <3> SUFFICES ASSUME NEW g \in Hosts, NEW k \in Entries(file'[g])
                 PROVE  HostOf[k] = g /\ (stranded[g] \/ life[k] \in Alive)
      BY <2>1 DEF FileHolds
    <3>2. CASE g = h
      BY <3>1, <3>2
    <3>3. CASE g # h
      BY <2>2, <3>3 DEF FileHolds
    <3> QED
      BY <3>2, <3>3
  <2>7. ListedHolds'
    BY <2>1, <2>4 DEF ListedHolds, FileShape
  <2>8. CheckedIsGone'
    <3> SUFFICES ASSUME NEW k \in Jvms, life[k] \in Running, Checked(k)', ~overlapped[HostOf[k]]
                 PROVE  k \notin Entries(file'[HostOf[k]])
      BY <2>1, <2>2 DEF CheckedIsGone
    <3>1. CASE k = j
      BY <2>1, <2>2, <2>3, <3>1 DEF CheckedIsGone, Checked
    <3>2. CASE k # j
      <4>1. HostOf[k] # h
        BY <2>3, <3>2, PortExcludes DEF OneWorkerPerHost
      <4>2. HostOf[k] \in Hosts /\ Checked(k)
        BY <2>1, <3>2 DEF Checked
      <4> QED
        BY <2>2, <4>1, <4>2 DEF CheckedIsGone
    <3> QED
      BY <3>1, <3>2
  <2> QED
    BY <2>5, <2>6, <2>7, <2>8
<1> QED
  BY <1>1, <1>2, <1>3, <1>4 DEF CheckShutDown

\* A beat that has passed the check leaves the file alone.
LEMMA BeatKeepsFiles ==
  ASSUME NEW j \in Jvms, FileInv, PortInv,
         UNCHANGED <<file, life, listed, tries, overlapped, stranded>>,
         faults' \in 0..MaxFaults, known' \subseteq known \cup {j},
         Checked(j), \A k \in Jvms \ {j} : beat'[k] = beat[k]
  PROVE  FileInv'
<1>1. FileShape' /\ FileHolds' /\ ListedHolds'
  BY DEF FileInv, FileShape, FileHolds, ListedHolds
<1>2. CheckedIsGone'
  BY DEF FileInv, CheckedIsGone, Checked
<1> QED
  BY <1>1, <1>2 DEF FileInv

\* Every step of the program keeps FileInv.
LEMMA NextKeepsFiles == HostInv /\ FileInv /\ [Next]_vars => HostInv' /\ FileInv'
<1> SUFFICES ASSUME PortInv, RowInv, FileInv, [Next]_vars PROVE FileInv'
  BY NextKeepsHost DEF HostInv
<1>0. life \in [Jvms -> Life] /\ faults \in 0..MaxFaults
  BY DEF PortInv, PortShape, FileInv, FileShape
<1>1. CASE Tick \/ UNCHANGED vars
  <2>1. UNCHANGED <<file, life, listed, tries, overlapped, stranded, faults, known, beat>>
    BY <1>1 DEF Tick, vars, jvmVars, workerVars
  <2> QED
    BY <2>1 DEF FileInv, FileShape, FileHolds, ListedHolds, CheckedIsGone, Checked
<1>2. ASSUME NEW j \in Jvms, Forget, Launch(j)
      PROVE  FileInv'
  <2> DEFINE lives == [life EXCEPT ![j] = "launched"]
  <2>1. lives \in [Jvms -> Life]
    BY <1>0 DEF Life
  <2>2. /\ ShutDownLocalhost(HostOf[j], lives) /\ overlapped' = overlapped
        /\ UNCHANGED <<file, tries, known>> /\ faults' \in 0..MaxFaults
    BY <1>0, <1>2 DEF Launch, Forget
  <2>3. \A k \in Jvms : lives[k] = life[k] \/ (life[k] = "off" /\ lives[k] = "launched")
    BY <1>0, <1>2 DEF Launch
  <2>4. HostOf[j] \in Hosts
    OBVIOUS
  <2> HIDE DEF lives
  <2> QED
    BY <2>1, <2>2, <2>3, <2>4, ShutDownKeepsFiles
<1>3. ASSUME NEW j \in Jvms, Forget, MainStep(j)
      PROVE  FileInv'
  <2>1. known' = known /\ {j} \in SUBSET Jvms
    BY <1>3 DEF Forget
  <2>2. CASE SomeWorkerStarting(j) \/ GiveUp(j) \/ BindFails(j)
    <3>1. /\ Exit({j}, life) /\ overlapped' = overlapped /\ UNCHANGED <<file, tries>>
          /\ faults' \in 0..MaxFaults
      BY <1>0, <2>2 DEF SomeWorkerStarting, GiveUp, BindFails
    <3> QED
      BY <1>0, <2>1, <3>1, PlainExitKeepsFiles
  <2>3. CASE ~(SomeWorkerStarting(j) \/ GiveUp(j) \/ BindFails(j))
    BY <1>3, <2>1, <2>3, StartKeepsFiles DEF MainStep
  <2> QED
    BY <2>2, <2>3
<1>4. ASSUME NEW j \in Jvms, Forget, Crash(j)
      PROVE  FileInv'
  <2>1. /\ known' = known /\ {j} \in SUBSET Jvms
        /\ Exit({j}, life) /\ overlapped' = overlapped /\ UNCHANGED <<file, tries>>
        /\ faults' \in 0..MaxFaults
    BY <1>0, <1>4 DEF Forget, Crash
  <2> QED
    BY <1>0, <2>1, PlainExitKeepsFiles
<1>5. ASSUME NEW j \in Jvms, Forget, CheckShutDown(j)
      PROVE  FileInv'
  BY <1>5, CheckKeepsFiles DEF Forget
<1>6. ASSUME NEW j \in Jvms, WorkerStep(j) \/ BeatFails(j)
      PROVE  FileInv'
  <2>1. CASE \E row \in others[j] : TerminateOther(j, row)
    <3>1. UNCHANGED <<file, life, listed, tries, overlapped, stranded, faults, known, beat>>
      BY <2>1 DEF TerminateOther, jvmVars
    <3> QED
      BY <3>1 DEF FileInv, FileShape, FileHolds, ListedHolds, CheckedIsGone, Checked
  <2>2. CASE BeatFails(j) \/ ~\E row \in others[j] : TerminateOther(j, row)
    <3>1. /\ Checked(j) /\ \E b \in Beat : BeatGoes(j, b)
          /\ faults' \in 0..MaxFaults /\ known' \subseteq known \cup {j}
      BY <1>0, <1>6, <2>2 DEF WorkerStep, NotDue, LoadHost, InsertHost, InsertWorker,
            LoadWorker, LoadWorkers, NoActiveWorker, UpdateWorker, EndBeat, AtWork,
            BeatFails, Beat, Checked, workerVars
    <3>2. /\ UNCHANGED <<file, life, listed, tries, overlapped, stranded>>
          /\ \A k \in Jvms \ {j} : beat'[k] = beat[k]
      BY <3>1 DEF BeatGoes, PortInv, PortShape
    <3> QED
      BY <3>1, <3>2, BeatKeepsFiles
  <2> QED
    BY <2>1, <2>2
<1>7. ASSUME NEW h \in Hosts, Command(h), Forget
      PROVE  FileInv'
  <2>1. /\ ShutDownLocalhost(h, life) /\ overlapped' = overlapped
        /\ UNCHANGED <<file, tries, known>> /\ faults' \in 0..MaxFaults
    BY <1>0, <1>7 DEF Command, Forget
  <2> QED
    BY <1>0, <2>1, ShutDownKeepsFiles
<1> QED
  BY <1>1, <1>2, <1>3, <1>4, <1>5, <1>6, <1>7 DEF Next, BeatThread

\* For any hosts and JVMs: a worker terminates itself only for another one
\* that is being started (checkShutDown), unless starts overlap or a JVM left
\* its entry behind.
THEOREM GivesWayToAStart == Spec => LeavesForASuccessor
<1>1. Init => HostInv /\ FileInv
  BY PortInit, RowInit, FileInit DEF HostInv
<1>2. HostInv /\ FileInv /\ [Next]_vars =>
        [\A j \in Jvms :
           Terminate(j) /\ ~overlapped[HostOf[j]] /\ ~stranded[HostOf[j]]
           => \E k \in SameHost(j) \ {j} : life[k] \in Starting]_vars
  <2> SUFFICES ASSUME HostInv, FileInv, NEW j \in Jvms, Terminate(j),
                      ~overlapped[HostOf[j]], ~stranded[HostOf[j]]
               PROVE  \E k \in SameHost(j) \ {j} : life[k] \in Starting
    OBVIOUS
  <2>1. /\ listed[j] \in Seq(Jvms) /\ listed[j] # <<>> /\ Last(listed[j]) # j
        /\ life[j] \in Running
    BY DEF Terminate, GivesWay, CheckWrite, HostInv, PortInv, BeatRuns, FileInv, FileShape, IsList
  <2>2. PICK k : k = Last(listed[j])
    OBVIOUS
  <2>3. k \in Entries(listed[j]) /\ k \in Jvms /\ k # j
    BY <2>1, <2>2 DEF Entries, Last
  <2>4. HostOf[k] = HostOf[j] /\ life[k] \in Alive
    BY <2>3 DEF FileInv, ListedHolds
  <2>5. life[k] \notin Running
    BY <2>1, <2>3, <2>4, PortExcludes DEF OneWorkerPerHost, HostInv
  <2>6. life[k] \in Starting /\ k \in SameHost(j) \ {j}
    BY <2>3, <2>4, <2>5 DEF Alive, Running, SameHost
  <2> QED
    BY <2>6
<1> QED
  BY <1>1, <1>2, NextKeepsFiles, PTL DEF Spec, LeavesForASuccessor

\* For any hosts and JVMs: a start is refused only while another one is under
\* way, up to the first beat of its worker (makeSureThatPortAvailable), again
\* unless starts overlap or a JVM left its entry behind.
THEOREM RefusedForAStart == Spec => RefusedDuringAStart
<1>1. Init => HostInv /\ FileInv
  BY PortInit, RowInit, FileInit DEF HostInv
<1>2. HostInv /\ FileInv /\ [Next]_vars =>
        [\A j \in Jvms :
           SomeWorkerStarting(j) /\ ~overlapped[HostOf[j]] /\ ~stranded[HostOf[j]]
           => \E k \in SameHost(j) \ {j} :
                 life[k] \in Starting \/ (life[k] \in Running /\ k \notin known)]_vars
  <2> SUFFICES ASSUME HostInv, FileInv, NEW j \in Jvms, SomeWorkerStarting(j),
                      ~overlapped[HostOf[j]], ~stranded[HostOf[j]]
               PROVE  \E k \in SameHost(j) \ {j} :
                         life[k] \in Starting \/ (life[k] \in Running /\ k \notin known)
    OBVIOUS
  <2>1. /\ HostOf[j] \in Hosts /\ life[j] = "launched"
        /\ file[HostOf[j]] \in Seq(Jvms) /\ file[HostOf[j]] # <<>>
    BY DEF SomeWorkerStarting, FileInv, FileShape, IsList
  <2>2. PICK k : k = file[HostOf[j]][1]
    OBVIOUS
  <2>3. k \in Entries(file[HostOf[j]]) /\ k \in Jvms
    BY <2>1, <2>2 DEF Entries
  <2>4. HostOf[k] = HostOf[j] /\ life[k] \in Alive
    BY <2>1, <2>3 DEF FileInv, FileHolds
  <2>5. k # j
    BY <2>1, <2>4 DEF Alive, Starting
  <2>6. life[k] \in Running => k \notin known
    BY <2>3, <2>4 DEF FileInv, CheckedIsGone, Checked
  <2>7. k \in SameHost(j) \ {j} /\ (life[k] \in Starting \/ (life[k] \in Running /\ k \notin known))
    BY <2>3, <2>4, <2>5, <2>6 DEF Alive, Running, SameHost
  <2> QED
    BY <2>7
<1> QED
  BY <1>1, <1>2, NextKeepsFiles, PTL DEF Spec, RefusedDuringAStart

------------------------------------------------------------------------------
(* The types, and the times among them.                                    *)

TimesOK ==
    /\ hostRow \subseteq Hosts
    /\ worker \in [Jvms -> [state : WorkerState \cup {"none"}, due : Nat]]
    /\ known \subseteq Jvms
    /\ next \in [Jvms -> Nat]
    /\ DOMAIN others = Jvms
    /\ \A j \in Jvms : others[j] \subseteq [jvm : SameHost(j) \ {j}, due : Nat]

\* A finite set of numbers that is not empty has a largest one: a smallest
\* set without would lose nothing by losing a number.
LEMMA LargestNumber ==
  ASSUME NEW S \in SUBSET Nat, IsFiniteSet(S), S # {}
  PROVE  \E m \in S : \A n \in S : n <= m
<1> DEFINE Largest(T) == \E m \in T : \A n \in T : n <= m
           Bad == {T \in FiniteSubsetsOf(Nat) : T # {} /\ ~Largest(T)}
<1>1. SUFFICES ASSUME Bad # {} PROVE FALSE
  BY DEF FiniteSubsetsOf
<1>2. PICK T \in Bad : \A U \in Bad : ~(<<U, T>> \in StrictSubsetOrdering(Nat))
  <2>1. Bad \subseteq FiniteSubsetsOf(Nat)
    OBVIOUS
  <2> HIDE DEF Bad
  <2> QED
    BY <1>1, <2>1, FS_StrictSubsetOrderingWellFounded, WFMin
<1>3. /\ T \in SUBSET Nat /\ IsFiniteSet(T) /\ T # {} /\ ~Largest(T)
  BY DEF FiniteSubsetsOf
<1>4. PICK x \in T : TRUE
  BY <1>3
<1> DEFINE U == T \ {x}
<1>5. IsFiniteSet(U) /\ U \in SUBSET Nat /\ U # T
  BY <1>3, <1>4, FS_RemoveElement
<1>6. U \notin Bad
  BY <1>2, <1>3, <1>5 DEF StrictSubsetOrdering
<1>7. CASE U = {}
  BY <1>3, <1>4, <1>7
<1>8. CASE U # {}
  <2>1. PICK m \in U : \A n \in U : n <= m
    BY <1>5, <1>6, <1>8 DEF FiniteSubsetsOf
  <2>2. m \in Nat /\ x \in Nat /\ \A n \in T : n = x \/ n <= m
    BY <1>3, <2>1
  <2>3. CASE x <= m
    BY <1>3, <2>1, <2>2, <2>3
  <2>4. CASE m < x
    <3>1. \A n \in T : n <= x
      BY <1>3, <2>2, <2>4
    <3> QED
      BY <1>3, <1>4, <3>1
  <2> QED
    BY <2>2, <2>3, <2>4
<1> QED
  BY <1>7, <1>8

\* The random terms are small numbers, of either sign.
LEMMA TermRange ==
  ASSUME NEW term \in CallRandomizationTerm
  PROVE  term \in Int /\ MaxFireInterval + term <= Longest
<1> DEFINE n == RandomizationInterval
           h == n \div 2
<1>1. n \in Nat \ {0} /\ h \in Nat
  BY RandomizationAssumption
<1>2. PICK r \in (0..(n - 1)) \cup {-MinValueRest} : term = r - h
  BY DEF CallRandomizationTerm
<1> HIDE DEF h
<1>3. r \in Int /\ r <= n - 1
  BY <1>1, RandomizationAssumption
<1>4. Longest = MaxFireInterval + (n - 1 - h)
  BY DEF Longest, h
<1> QED
  BY <1>1, <1>2, <1>3, <1>4, IntervalAssumption

\* The latest of the times that active workers have, and the next beat that is
\* set after it, are times.
LEMMA NextBeatTime ==
  ASSUME TimesOK, Snapshot # {}, NEW term \in CallRandomizationTerm
  PROVE  NextBeat(Latest({worker[k].due : k \in Snapshot}),
                  Delta(Cardinality({HostOf[k] : k \in Snapshot})), term) \in Nat
<1> DEFINE D == {worker[k].due : k \in Snapshot}
           H == {HostOf[k] : k \in Snapshot}
<1>1. Snapshot \subseteq Jvms /\ IsFiniteSet(Snapshot)
  BY FS_Subset DEF Snapshot
<1>2. IsFiniteSet(D)
  <2>1. [k \in Snapshot |-> worker[k].due] \in Surjection(Snapshot, D)
    BY DEF Surjection
  <2> QED
    BY <1>1, <2>1, FS_Surjection
<1>3. IsFiniteSet(H)
  <2>1. [k \in Snapshot |-> HostOf[k]] \in Surjection(Snapshot, H)
    BY DEF Surjection
  <2> QED
    BY <1>1, <2>1, FS_Surjection
<1>4. D \in SUBSET Nat
  BY <1>1 DEF TimesOK
<1>5. H # {}
  OBVIOUS
<1> HIDE DEF D, H
<1>6. Latest(D) \in Nat
  <2>1. D \cup {0} \in SUBSET Nat /\ D \cup {0} # {} /\ IsFiniteSet(D \cup {0})
    BY <1>2, <1>4, FS_AddElement
  <2>2. \E m \in D \cup {0} : \A n \in D \cup {0} : n <= m
    BY <2>1, LargestNumber
  <2>3. \E m \in D \cup {0} : \A n \in D : n <= m
    BY <2>2
  <2>4. Latest(D) \in D \cup {0}
    BY <2>3 DEF Latest
  <2> QED
    BY <2>1, <2>4
<1>7. PICK c \in Nat \ {0} : c = Cardinality(H)
  BY <1>3, <1>5, FS_CardinalityType, FS_EmptySet
<1>8. Delta(c) \in Nat
  BY DEF Delta, Max2
<1>9. NextBeat(Latest(D), Delta(Cardinality(H)), term) \in Nat
  BY <1>6, <1>7, <1>8, TermRange DEF NextBeat, Max2
<1> QED
  BY <1>9 DEF D, H

\* Every statement of a beat keeps the types of the rows and of what the
\* workers have read of them.
LEMMA WorkerKeepsTimes ==
  ASSUME NEW j \in Jvms, TimesOK, WorkerStep(j)
  PROVE  TimesOK'
<1> USE DEF TimesOK
<1>1. CASE NotDue(j) \/ LoadHost(j) \/ NoActiveWorker(j) \/ EndBeat(j)
  BY <1>1 DEF NotDue, LoadHost, NoActiveWorker, EndBeat, workerVars
<1>2. CASE InsertHost(j)
  BY <1>2 DEF InsertHost
<1>3. CASE InsertWorker(j)
  BY <1>3 DEF InsertWorker, WorkerState
<1>4. CASE LoadWorker(j)
  BY <1>4 DEF LoadWorker
<1>5. CASE LoadWorkers(j)
  <2>1. PICK n \in Nat : next' = [next EXCEPT ![j] = n]
    BY <1>5, NextBeatTime DEF LoadWorkers
  <2>2. ToTerminate(j) \subseteq [jvm : SameHost(j) \ {j}, due : Nat]
    BY DEF ToTerminate, Snapshot, SameHost
  <2> QED
    BY <1>5, <2>1, <2>2 DEF LoadWorkers
<1>6. CASE UpdateWorker(j)
  BY <1>6 DEF UpdateWorker, WorkerState
<1>7. ASSUME NEW row \in others[j], TerminateOther(j, row)
      PROVE  TimesOK'
  <2>1. row.jvm \in Jvms /\ row.due \in Nat
    BY DEF SameHost
  <2> QED
    BY <1>7, <2>1 DEF TerminateOther, WorkerState
<1> QED
  BY <1>1, <1>2, <1>3, <1>4, <1>5, <1>6, <1>7 DEF WorkerStep

\* Every step of the program keeps the types of the rows.
LEMMA NextKeepsTimes == TimesOK /\ [Next]_vars => TimesOK'
<1> SUFFICES ASSUME TimesOK, [Next]_vars PROVE TimesOK'
  OBVIOUS
<1>1. CASE Tick
  <2>1. \A n \in Nat : Passed(n) \in Nat
    BY DEF Passed
  <2>2. UNCHANGED <<hostRow, known>>
    BY <1>1 DEF Tick
  <2>3. worker' \in [Jvms -> [state : WorkerState \cup {"none"}, due : Nat]]
    BY <1>1, <2>1 DEF Tick, TimesOK
  <2>4. next' \in [Jvms -> Nat]
    BY <1>1, <2>1 DEF Tick, TimesOK
  <2>5. DOMAIN others' = Jvms
        /\ \A j \in Jvms : others'[j] \subseteq [jvm : SameHost(j) \ {j}, due : Nat]
    BY <1>1, <2>1 DEF Tick, TimesOK
  <2> QED
    BY <2>2, <2>3, <2>4, <2>5 DEF TimesOK
<1>2. CASE UNCHANGED vars
  BY <1>2 DEF vars, workerVars, TimesOK
<1>3. CASE Forget
  BY <1>3 DEF Forget, TimesOK
<1>4. ASSUME NEW j \in Jvms, WorkerStep(j)
      PROVE  TimesOK'
  BY <1>4, WorkerKeepsTimes
<1>5. ASSUME NEW j \in Jvms, BeatFails(j)
      PROVE  TimesOK'
  BY <1>5 DEF BeatFails, TimesOK
<1> QED
  BY <1>1, <1>2, <1>3, <1>4, <1>5 DEF Next, BeatThread

\* For any hosts and JVMs: every step of the main threads, of the beats and
\* of the faults keeps the file, the port, the rows and the memory of the
\* JVMs well typed; the next beat of a worker is always a time.
THEOREM HostTypes == Spec => []TypeOK
<1>1. Init => HostInv /\ FileInv /\ TimesOK
  <2>1. Init => TimesOK
    BY DEF Init, TimesOK
  <2> QED
    BY <2>1, PortInit, RowInit, FileInit DEF HostInv
<1>2. HostInv /\ FileInv /\ TimesOK => TypeOK
  BY DEF HostInv, PortInv, PortShape, FileInv, FileShape, IsList, TimesOK, TypeOK, JvmListOK
<1> QED
  BY <1>1, <1>2, NextKeepsFiles, NextKeepsTimes, PTL DEF Spec

------------------------------------------------------------------------------
(* ScheduleInv: how far off the beats are.  A worker that terminates the   *)
(* row of another writes back the next beat it has read of it, so NN_WORKER *)
(* may fall behind what its JVM has in memory, and memory is lost with the *)
(* JVM.  What bounds the rows is therefore not among them: it is the last  *)
(* next beat each worker has set itself (beats).                           *)

\* The latest next beat does not go beyond the longest distance without another
\* one within it: who sets a beat sets it no further from one it sees.
Steady(beats) ==
    \A j \in Jvms : beats[j] > Longest =>
        \E k \in Jvms : beats[j] <= beats[k] + Longest /\ beats[k] < beats[j]

\* Rows, and copies of rows, are not ahead of the beats their workers set.
\* While a worker runs it knows its own, and looks after nothing before it.
Ahead(beats) ==
    /\ \A j \in Jvms : worker[j].due <= beats[j]
    /\ \A j \in Jvms : \A row \in others[j] : row.due <= beats[row.jvm]
    /\ \A j \in Jvms : life[j] \in Running => next[j] = beats[j]
    /\ \A j \in Jvms : j \notin known => beats[j] = 0 /\ next[j] = 0

KnownHasRow == \A j \in known : worker[j].state # "none"

StartsWhenDue ==
    \A j \in known : beat[j] \in {"insertHost", "worker", "load"} => next[j] = 0

ScheduleInv ==
    /\ KnownHasRow /\ StartsWhenDue
    /\ \E beats \in [Jvms -> Nat] : Steady(beats) /\ Ahead(beats)

\* A set of numbers that is not empty has a least one.
LEMMA LeastNumber ==
  ASSUME NEW S \in SUBSET Nat, S # {}
  PROVE  \E n \in S : \A m \in S : n <= m
<1>1. PICK x \in S : TRUE
  OBVIOUS
<1> DEFINE D == {d \in 0..x : x - d \in S}
<1>2. D \in SUBSET Nat /\ 0 \in D /\ IsFiniteSet(D)
  <2>1. D \subseteq 0..x /\ IsFiniteSet(0..x)
    BY <1>1, FS_Interval
  <2>2. IsFiniteSet(D)
    <3> HIDE DEF D
    <3> QED
      BY <2>1, FS_Subset
  <2> QED
    BY <1>1, <2>2
<1>3. PICK d \in D : \A e \in D : e <= d
  <2> HIDE DEF D
  <2> QED
    BY <1>2, LargestNumber
<1>4. ASSUME NEW m \in S
      PROVE  x - d <= m
  <2>1. CASE m <= x
    <3>1. x - m \in D
      BY <1>1, <2>1
    <3>2. x - m <= d
      BY <1>3, <3>1
    <3> QED
      BY <1>1, <1>3, <3>2
  <2> QED
    BY <1>1, <1>3, <2>1
<1> QED
  BY <1>3, <1>4

\* The intervals between beats are between the two of WorkerConfig.
LEMMA DeltaRange ==
  ASSUME NEW c \in Nat \ {0}
  PROVE  Delta(c) \in 1..MaxFireInterval
<1>1. MaxFireInterval \div c \in 0..MaxFireInterval
  <2> DEFINE q == MaxFireInterval \div c
             r == MaxFireInterval % c
  <2>1. q \in Int /\ r \in 0..(c - 1) /\ MaxFireInterval = c * q + r
    OBVIOUS
  <2> HIDE DEF q, r
  <2>2. q >= 0
    <3>1. SUFFICES ASSUME q <= -1 PROVE FALSE
      BY <2>1
    <3>2. c * q <= c * (-1)
      BY <2>1, <3>1
    <3> QED
      BY <2>1, <3>2
  <2>3. c * q >= q
    BY <2>1, <2>2
  <2> QED
    BY <2>1, <2>2, <2>3 DEF q
<1> QED
  BY <1>1 DEF Delta, Max2

\* The longest distance is not 0.
LEMMA LongestType == Longest \in Nat \ {0}
<1> DEFINE h == RandomizationInterval \div 2
<1>1. h \in Nat /\ h <= RandomizationInterval - 1
  BY RandomizationAssumption
<1> HIDE DEF h
<1>2. Longest = MaxFireInterval + (RandomizationInterval - 1 - h)
  BY DEF Longest, h
<1> QED
  BY <1>1, <1>2, IntervalAssumption, RandomizationAssumption

\* From any of them down: below each number there is one of the beats, or 0,
\* no more than the longest distance away.
LEMMA NoGap ==
  ASSUME NEW beats \in [Jvms -> Nat], Steady(beats), NEW v \in Nat, v > Longest,
         NEW k \in Jvms, v <= beats[k] + Longest
  PROVE  \E i \in Jvms : v <= beats[i] + Longest /\ beats[i] < v
<1> USE LongestType
<1>1. CASE beats[k] < v
  BY <1>1
<1>2. CASE beats[k] >= v
  <2> DEFINE T == {beats[i] : i \in {e \in Jvms : beats[e] >= v}}
  <2>1. T \in SUBSET Nat /\ T # {}
    BY <1>2
  <2>2. PICK t \in T : \A m \in T : t <= m
    <3> HIDE DEF T
    <3> QED
      BY <2>1, LeastNumber
  <2>3. PICK i \in Jvms : beats[i] = t /\ beats[i] >= v
    BY <2>2
  <2>4. PICK e \in Jvms : beats[i] <= beats[e] + Longest /\ beats[e] < beats[i]
    BY <2>3 DEF Steady
  <2>5. ~(beats[e] >= v)
    <3>1. beats[e] >= v => beats[e] \in T
      OBVIOUS
    <3> HIDE DEF T
    <3> QED
      BY <2>2, <2>3, <2>4, <3>1
  <2> QED
    BY <2>3, <2>4, <2>5
<1> QED
  BY <1>1, <1>2

\* Beats that go down in steps of the longest distance go no higher than that
\* distance for each step.
LEMMA StepsBound ==
  ASSUME NEW beats \in [Jvms -> Nat], Steady(beats), NEW rank \in [Jvms -> Nat],
         \A j \in Jvms : beats[j] > 0 => rank[j] >= 1,
         \A j, k \in Jvms : beats[k] > 0 /\ beats[k] < beats[j] => rank[k] < rank[j]
  PROVE  \A j \in Jvms : beats[j] <= Longest * rank[j]
<1> DEFINE High == {j \in Jvms : ~(beats[j] <= Longest * rank[j])}
           T == {beats[j] : j \in High}
<1>1. SUFFICES ASSUME High # {} PROVE FALSE
  OBVIOUS
<1>2. T \in SUBSET Nat /\ T # {}
  BY <1>1
<1> USE LongestType
<1>3. PICK t \in T : \A m \in T : t <= m
  <2> HIDE DEF T
  <2> QED
    BY <1>2, LeastNumber
<1>4. PICK j \in High : beats[j] = t
  BY <1>3
<1>5. \A i \in Jvms : Longest * rank[i] \in Nat
  OBVIOUS
<1>6. beats[j] > Longest * rank[j] /\ beats[j] > 0
  BY <1>4, <1>5
<1>7. CASE beats[j] <= Longest
  <2>1. rank[j] \in Nat /\ rank[j] >= 1
    BY <1>4, <1>6
  <2>2. Longest * rank[j] >= Longest
    BY <2>1
  <2> QED
    BY <1>4, <1>5, <1>6, <1>7, <2>2
<1>8. CASE beats[j] > Longest
  <2>1. PICK k \in Jvms : beats[j] <= beats[k] + Longest /\ beats[k] < beats[j]
    BY <1>4, <1>8 DEF Steady
  <2>2. beats[k] <= Longest * rank[k]
    <3>1. k \in High => beats[k] \in T
      OBVIOUS
    <3>2. k \notin High
      <4>1. beats[j] \in Nat /\ beats[k] \in Nat
        BY <1>4
      <4> HIDE DEF T, High
      <4> QED
        BY <1>3, <1>4, <2>1, <3>1, <4>1
    <3> QED
      BY <3>2
  <2>3. beats[k] > 0
    BY <1>4, <1>8, <2>1
  <2> DEFINE a == rank[k]
             b == rank[j]
  <2>4. a \in Nat /\ b \in Nat /\ a + 1 <= b
    BY <1>4, <2>1, <2>3
  <2>5. beats[j] <= Longest * a + Longest
    BY <1>4, <1>5, <2>1, <2>2
  <2>6. beats[j] > Longest * b /\ beats[j] \in Nat
    BY <1>4, <1>6
  <2> HIDE DEF a, b
  <2>7. Longest * (a + 1) <= Longest * b
    BY <2>4
  <2>8. Longest * (a + 1) = Longest * a + Longest
    BY <2>4
  <2>9. Longest * a \in Nat /\ Longest * b \in Nat
    BY <2>4
  <2> QED
    BY <2>5, <2>6, <2>7, <2>8, <2>9
<1> QED
  BY <1>4, <1>7, <1>8

\* So they go no higher than that for each worker that has a row.
LEMMA SteadyIsBounded ==
  ASSUME NEW beats \in [Jvms -> Nat], Steady(beats), NEW R \in SUBSET Jvms,
         \A j \in Jvms : beats[j] > 0 => j \in R
  PROVE  \A j \in Jvms : beats[j] <= Longest * Cardinality(R)
<1> USE LongestType
<1> DEFINE Below(j) == {k \in R : beats[k] <= beats[j] /\ beats[k] > 0}
           rank == [j \in Jvms |-> Cardinality(Below(j))]
<1>1. IsFiniteSet(R) /\ Cardinality(R) \in Nat
  BY FS_Subset, FS_CardinalityType
<1>2. ASSUME NEW j \in Jvms
      PROVE  /\ IsFiniteSet(Below(j)) /\ Cardinality(Below(j)) \in Nat
             /\ Cardinality(Below(j)) <= Cardinality(R)
  <2>1. Below(j) \subseteq R
    OBVIOUS
  <2> HIDE DEF Below
  <2> QED
    BY <1>1, <2>1, FS_Subset, FS_CardinalityType
<1>3. ASSUME NEW j \in Jvms, beats[j] > 0
      PROVE  Cardinality(Below(j)) >= 1
  <2>1. Below(j) # {}
    BY <1>3
  <2> HIDE DEF Below
  <2>2. Cardinality(Below(j)) # 0
    BY <1>2, <2>1, FS_EmptySet
  <2> QED
    BY <1>2, <2>2
<1>4. ASSUME NEW j \in Jvms, NEW k \in Jvms, beats[k] > 0, beats[k] < beats[j]
      PROVE  Cardinality(Below(k)) < Cardinality(Below(j))
  <2>1. j \in Below(j) /\ Below(k) \subseteq Below(j) \ {j}
    BY <1>4
  <2> HIDE DEF Below
  <2>2. /\ IsFiniteSet(Below(j) \ {j})
        /\ Cardinality(Below(j) \ {j}) = Cardinality(Below(j)) - 1
    BY <1>2, <2>1, FS_RemoveElement
  <2>3. Cardinality(Below(k)) <= Cardinality(Below(j) \ {j})
    BY <2>1, <2>2, FS_Subset
  <2> QED
    BY <1>2, <2>2, <2>3
<1> HIDE DEF Below
<1>5. rank \in [Jvms -> Nat] /\ \A j \in Jvms : rank[j] = Cardinality(Below(j))
  BY <1>2
<1> HIDE DEF rank
<1>6. \A j \in Jvms : beats[j] <= Longest * rank[j]
  <2>1. \A j \in Jvms : beats[j] > 0 => rank[j] >= 1
    BY <1>3, <1>5
  <2>2. \A j, k \in Jvms : beats[k] > 0 /\ beats[k] < beats[j] => rank[k] < rank[j]
    BY <1>4, <1>5
  <2> QED
    BY <1>5, <2>1, <2>2, StepsBound
<1>7. ASSUME NEW j \in Jvms
      PROVE  beats[j] <= Longest * Cardinality(R)
  <2> DEFINE a == rank[j]
             b == Cardinality(R)
  <2>1. a \in Nat /\ b \in Nat /\ a <= b
    BY <1>1, <1>2, <1>5
  <2>2. beats[j] <= Longest * a /\ beats[j] \in Nat
    BY <1>6
  <2> HIDE DEF a, b
  <2>3. Longest * a <= Longest * b
    BY <2>1
  <2>4. Longest * a \in Nat /\ Longest * b \in Nat
    BY <2>1
  <2>5. beats[j] <= Longest * b
    BY <2>2, <2>3, <2>4
  <2> QED
    BY <2>5 DEF b
<1> QED
  BY <1>7

\* What main threads, the check of the file and faults do to the schedule: a
\* JVM that exits takes its next beat along, the rows and the others stay.
LEMMA LifeKeepsSchedule ==
  ASSUME HostInv, PortInv', ScheduleInv, LifeChanges, Forget
  PROVE  ScheduleInv'
<1> USE DEF ScheduleInv, Forget
<1>1. PICK beats \in [Jvms -> Nat] : Steady(beats) /\ Ahead(beats)
  OBVIOUS
<1>2. KnownHasRow' /\ Steady(beats)'
  BY <1>1 DEF KnownHasRow, Steady
<1>3. \A j \in known : life'[j] \in Running => life[j] \in Running
  BY DEF HostInv, RowInv, RowShape, KnownIsActive, LifeChanges, Running, Starting
<1>4. \A j \in Jvms : j \notin known => beats[j] = 0 /\ next'[j] = 0
  BY <1>1 DEF Ahead
<1>5. \A j \in Jvms : life'[j] \in Running => next'[j] = beats[j]
  BY <1>1, <1>3, <1>4 DEF Ahead, Running
<1>6. (\A j \in Jvms : worker'[j].due <= beats[j])
      /\ \A j \in Jvms : \A row \in others'[j] : row.due <= beats[row.jvm]
  BY <1>1 DEF Ahead
<1>7. Ahead(beats)'
  BY <1>4, <1>5, <1>6 DEF Ahead
<1>8. StartsWhenDue'
  <2> SUFFICES ASSUME NEW j \in known, beat'[j] \in Statements, next'[j] # 0
               PROVE  beat'[j] \notin {"insertHost", "worker", "load"}
    BY DEF StartsWhenDue, Statements
  <2>1. j \in Jvms /\ beat[j] = beat'[j] /\ next'[j] = next[j]
    BY DEF HostInv, RowInv, RowShape, LifeChanges
  <2> QED
    BY <2>1 DEF StartsWhenDue
<1> QED
  BY <1>1, <1>2, <1>7, <1>8

\* Statements that only move the beat, and its end.
LEMMA ReadKeepsSchedule ==
  ASSUME NEW j \in Jvms, HostInv, ScheduleInv,
         NotDue(j) \/ LoadHost(j) \/ InsertHost(j) \/ NoActiveWorker(j)
           \/ EndBeat(j) \/ BeatFails(j)
  PROVE  ScheduleInv'
<1> USE DEF ScheduleInv
<1>1. PICK beats \in [Jvms -> Nat] : Steady(beats) /\ Ahead(beats)
  OBVIOUS
<1>2. /\ UNCHANGED <<life, worker, known, next>>
      /\ others' = others \/ others' = [others EXCEPT ![j] = {}]
  BY DEF NotDue, LoadHost, InsertHost, NoActiveWorker, EndBeat, BeatFails, BeatGoes, workerVars
<1>3. KnownHasRow' /\ Steady(beats)'
  BY <1>1, <1>2 DEF KnownHasRow, Steady
<1>4. \A i \in Jvms : others'[i] \subseteq others[i]
  BY <1>2 DEF HostInv, RowInv, RowShape
<1>5. Ahead(beats)'
  BY <1>1, <1>2, <1>4 DEF Ahead
<1>6. StartsWhenDue'
  <2>1. /\ \A i \in Jvms \ {j} : beat'[i] = beat[i]
        /\ beat'[j] \in {"insertHost", "worker", "load"} => j \notin known \/ next[j] = 0
    <3>1. CASE NotDue(j) \/ NoActiveWorker(j) \/ EndBeat(j) \/ BeatFails(j)
      BY <3>1 DEF NotDue, NoActiveWorker, EndBeat, BeatFails, BeatGoes, HostInv, PortInv, PortShape
    <3>2. CASE LoadHost(j)
      BY <3>2 DEF LoadHost, BeatGoes, IsDue, HostInv, PortInv, PortShape
    <3>3. CASE InsertHost(j)
      BY <3>3 DEF InsertHost, BeatGoes, StartsWhenDue, HostInv, PortInv, PortShape
    <3> QED
      BY <3>1, <3>2, <3>3
  <2> QED
    BY <1>2, <2>1 DEF StartsWhenDue, HostInv, RowInv, RowShape
<1> QED
  BY <1>1, <1>3, <1>5, <1>6

\* A worker that makes its row, or reads it, is not before its time; so is
\* the row.
LEMMA OwnRowKeepsSchedule ==
  ASSUME NEW j \in Jvms, HostInv, ScheduleInv, TimesOK,
         InsertWorker(j) \/ LoadWorker(j) \/ UpdateWorker(j)
  PROVE  ScheduleInv'
<1> USE DEF ScheduleInv
<1>1. PICK beats \in [Jvms -> Nat] : Steady(beats) /\ Ahead(beats)
  OBVIOUS
<1>0. beat \in [Jvms -> Beat] /\ life' = life /\ others' = others
      /\ \A i \in Jvms \ {j} : beat'[i] = beat[i]
  BY DEF InsertWorker, LoadWorker, UpdateWorker, BeatGoes, HostInv, PortInv, PortShape
<1>2. life[j] \in Running
  BY DEF InsertWorker, LoadWorker, UpdateWorker, HostInv, PortInv, BeatRuns
<1>3. CASE InsertWorker(j)
  <2>1. beats[j] = 0 /\ next'[j] = 0 /\ worker'[j].due = 0 /\ worker'[j].state # "none"
        /\ (\A i \in Jvms \ {j} : next'[i] = next[i] /\ worker'[i] = worker[i])
        /\ known' = known \cup {j}
    BY <1>1, <1>3 DEF InsertWorker, Ahead, TimesOK
  <2>2. Ahead(beats)'
    BY <1>0, <1>1, <2>1 DEF Ahead
  <2>3. KnownHasRow' /\ StartsWhenDue'
    BY <1>0, <2>1 DEF KnownHasRow, StartsWhenDue, TimesOK
  <2> QED
    BY <1>1, <2>2, <2>3 DEF Steady
<1>4. CASE LoadWorker(j)
  <2>1. beats[j] = 0
    BY <1>1, <1>2, <1>4 DEF LoadWorker, Ahead, StartsWhenDue
  <2>2. worker[j].due = 0
    BY <1>1, <2>1 DEF Ahead, TimesOK
  <2>3. next'[j] = 0 /\ (\A i \in Jvms \ {j} : next'[i] = next[i])
        /\ worker' = worker /\ known' = known
    BY <1>4, <2>2 DEF LoadWorker, TimesOK
  <2>4. Ahead(beats)'
    BY <1>0, <1>1, <2>1, <2>3 DEF Ahead
  <2>5. KnownHasRow' /\ StartsWhenDue'
    BY <1>0, <2>3 DEF KnownHasRow, StartsWhenDue, TimesOK
  <2> QED
    BY <1>1, <2>4, <2>5 DEF Steady
<1>5. CASE UpdateWorker(j)
  <2>1. worker'[j].due = beats[j] /\ worker'[j].state # "none"
        /\ (\A i \in Jvms \ {j} : worker'[i] = worker[i])
        /\ next' = next /\ known' = known
    BY <1>1, <1>2, <1>5 DEF UpdateWorker, Ahead, TimesOK
  <2>2. Ahead(beats)'
    BY <1>0, <1>1, <2>1 DEF Ahead
  <2>3. beat'[j] = "terminate"
    BY <1>0, <1>5 DEF UpdateWorker, BeatGoes
  <2>4. KnownHasRow' /\ StartsWhenDue'
    BY <1>0, <2>1, <2>3 DEF KnownHasRow, StartsWhenDue, TimesOK
  <2> QED
    BY <1>1, <2>2, <2>4 DEF Steady
<1> QED
  BY <1>3, <1>4, <1>5

\* The latest of the next beats is 0 or that of an active row.
LEMMA LatestIsThere ==
  ASSUME TimesOK
  PROVE  LET l == Latest({worker[k].due : k \in Snapshot})
         IN  l = 0 \/ \E k \in Snapshot : l = worker[k].due
<1> DEFINE D == {worker[k].due : k \in Snapshot}
<1>1. Snapshot \subseteq Jvms /\ IsFiniteSet(Snapshot)
  BY FS_Subset DEF Snapshot
<1>2. IsFiniteSet(D) /\ D \in SUBSET Nat
  <2>1. [k \in Snapshot |-> worker[k].due] \in Surjection(Snapshot, D)
    BY DEF Surjection
  <2>2. D \in SUBSET Nat
    BY <1>1 DEF TimesOK
  <2> QED
    BY <1>1, <2>1, <2>2, FS_Surjection
<1>3. \A l : l \in D => \E k \in Snapshot : l = worker[k].due
  OBVIOUS
<1> HIDE DEF D
<1>4. Latest(D) \in D \cup {0}
  <2>1. D \cup {0} \in SUBSET Nat /\ D \cup {0} # {} /\ IsFiniteSet(D \cup {0})
    BY <1>2, FS_AddElement
  <2>2. \E m \in D \cup {0} : \A n \in D \cup {0} : n <= m
    BY <2>1, LargestNumber
  <2>3. \E m \in D \cup {0} : \A n \in D : n <= m
    BY <2>2
  <2> QED
    BY <2>3 DEF Latest
<1> QED
  BY <1>3, <1>4 DEF D

\* A worker that reads the active rows sets its next beat no further than the
\* longest distance after the latest of them, so no gap opens below it; nor
\* does one when the random term takes it back before that.
LEMMA LoadKeepsSchedule ==
  ASSUME NEW j \in Jvms, HostInv, ScheduleInv, TimesOK, LoadWorkers(j)
  PROVE  ScheduleInv'
<1> USE DEF ScheduleInv
<1>1. PICK beats \in [Jvms -> Nat] : Steady(beats) /\ Ahead(beats)
  OBVIOUS
<1>2. j \in known /\ life[j] \in Running /\ beat[j] = "load"
  BY DEF LoadWorkers, HostInv, PortInv, BeatRuns, RowInv, BeatIsKnown
<1>3. beats[j] = 0
  BY <1>1, <1>2 DEF Ahead, StartsWhenDue
<1> DEFINE l == Latest({worker[k].due : k \in Snapshot})
           d == Delta(Cardinality({HostOf[k] : k \in Snapshot}))
<1>4. l \in Nat /\ (l = 0 \/ \E k \in Jvms : l <= beats[k])
  <2>1. l = 0 \/ \E k \in Snapshot : l = worker[k].due
    BY LatestIsThere
  <2> HIDE DEF l
  <2> QED
    BY <1>1, <2>1 DEF Ahead, TimesOK, Snapshot
<1>5. d \in 1..MaxFireInterval
  <2> DEFINE H == {HostOf[k] : k \in Snapshot}
  <2>1. IsFiniteSet(H) /\ H # {}
    <3>1. [k \in Snapshot |-> HostOf[k]] \in Surjection(Snapshot, H)
      BY DEF Surjection
    <3>2. IsFiniteSet(Snapshot)
      BY FS_Subset DEF Snapshot
    <3>3. H # {}
      BY DEF LoadWorkers
    <3> QED
      BY <3>1, <3>2, <3>3, FS_Surjection
  <2> HIDE DEF H
  <2>2. Cardinality(H) \in Nat \ {0}
    BY <2>1, FS_CardinalityType, FS_EmptySet
  <2>3. Delta(Cardinality(H)) \in 1..MaxFireInterval
    BY <2>2, DeltaRange
  <2> QED
    BY <2>3 DEF H
<1>0. PICK term \in CallRandomizationTerm : next' = [next EXCEPT ![j] = NextBeat(l, d, term)]
  BY DEF LoadWorkers
<1> DEFINE v == NextBeat(l, d, term)
<1>6. next' = [next EXCEPT ![j] = v]
  BY <1>0
<1>13. v \in Nat /\ (v > Longest => l > 0 /\ v <= l + Longest)
  <2> USE LongestType
  <2> HIDE DEF l, d
  <2>1. term \in Int /\ MaxFireInterval + term <= Longest
    BY TermRange
  <2>2. d + term <= Longest
    BY <1>5, <2>1, IntervalAssumption
  <2>3. v = l + d + term \/ v = 0
    BY DEF NextBeat, Max2
  <2>4. v \in Nat
    BY <1>4, <1>5, <2>1 DEF NextBeat, Max2
  <2> HIDE DEF v
  <2> QED
    BY <1>4, <1>5, <2>1, <2>2, <2>3, <2>4
<1>7. others' = [others EXCEPT ![j] = ToTerminate(j)] /\ beat'[j] = "update"
      /\ (\A i \in Jvms \ {j} : beat'[i] = beat[i])
      /\ UNCHANGED <<life, worker, known>>
  BY DEF LoadWorkers, BeatGoes, HostInv, PortInv, PortShape
<1> HIDE DEF l, d, v
<1> USE LongestType
<1>8. PICK new \in [Jvms -> Nat] :
         /\ new[j] = v
         /\ \A k \in Jvms \ {j} : new[k] = beats[k]
         /\ \A k \in Jvms : beats[k] <= new[k]
  <2> DEFINE f == [beats EXCEPT ![j] = v]
  <2>1. f \in [Jvms -> Nat] /\ f[j] = v /\ \A k \in Jvms \ {j} : f[k] = beats[k]
    BY <1>13
  <2> HIDE DEF f
  <2>2. \A k \in Jvms : beats[k] <= f[k]
    BY <1>3, <1>13, <2>1
  <2> QED
    BY <2>1, <2>2
<1>9. Steady(new)
  <2> SUFFICES ASSUME NEW i \in Jvms, new[i] > Longest
               PROVE  \E k \in Jvms : new[i] <= new[k] + Longest /\ new[k] < new[i]
    BY DEF Steady
  <2>1. \E k \in Jvms : new[i] <= beats[k] + Longest /\ beats[k] < new[i]
    <3>1. CASE i # j
      BY <1>1, <1>8, <3>1 DEF Steady
    <3>2. CASE i = j
      <4>1. v > Longest /\ new[i] = v
        BY <1>8, <3>2
      <4>2. PICK k \in Jvms : v <= beats[k] + Longest
        BY <1>4, <1>13, <4>1
      <4> QED
        BY <1>1, <1>13, <4>1, <4>2, NoGap
    <3> QED
      BY <3>1, <3>2
  <2>2. PICK k \in Jvms : new[i] <= beats[k] + Longest /\ beats[k] < new[i]
    BY <2>1
  <2>3. k # j
    BY <1>3, <1>8, <2>2
  <2> QED
    BY <1>8, <2>2, <2>3
<1>10. Ahead(new)'
  <2>1. \A i \in Jvms : worker'[i].due <= new[i]
    BY <1>1, <1>7, <1>8 DEF Ahead, TimesOK
  <2>2. \A i \in Jvms : \A row \in others'[i] : row.due <= new[row.jvm]
    <3> SUFFICES ASSUME NEW i \in Jvms, NEW row \in others'[i]
                 PROVE  row.due <= new[row.jvm]
      OBVIOUS
    <3>1. row \in others[i] \/ row \in ToTerminate(j)
      BY <1>7 DEF TimesOK
    <3>2. row.jvm \in Jvms /\ row.due \in Nat /\ row.due <= beats[row.jvm]
      <4>1. CASE row \in others[i]
        BY <1>1, <4>1 DEF Ahead, TimesOK, SameHost
      <4>2. CASE row \in ToTerminate(j)
        BY <1>1, <4>2 DEF ToTerminate, Snapshot, Ahead, TimesOK
      <4> QED
        BY <3>1, <4>1, <4>2
    <3> QED
      BY <1>8, <3>2
  <2>3. \A i \in Jvms : life'[i] \in Running => next'[i] = new[i]
    BY <1>1, <1>6, <1>7, <1>8 DEF Ahead, TimesOK
  <2>4. \A i \in Jvms : i \notin known' => new[i] = 0 /\ next'[i] = 0
    BY <1>1, <1>2, <1>6, <1>7, <1>8 DEF Ahead, TimesOK
  <2> QED
    BY <2>1, <2>2, <2>3, <2>4 DEF Ahead
<1>11. KnownHasRow' /\ StartsWhenDue'
  BY <1>6, <1>7 DEF KnownHasRow, StartsWhenDue, TimesOK
<1>12. Steady(new)'
  BY <1>9 DEF Steady
<1> QED
  BY <1>8, <1>10, <1>11, <1>12

\* A row that is terminated goes back to what was read of it, which its
\* worker has set itself, too.
LEMMA TerminateKeepsSchedule ==
  ASSUME NEW j \in Jvms, NEW row \in others[j], ScheduleInv, TimesOK,
         TerminateOther(j, row)
  PROVE  ScheduleInv'
<1> USE DEF ScheduleInv
<1>1. PICK beats \in [Jvms -> Nat] : Steady(beats) /\ Ahead(beats)
  OBVIOUS
<1>2. row.jvm \in Jvms /\ row.due \in Nat /\ row.due <= beats[row.jvm]
  BY <1>1 DEF Ahead, TimesOK, SameHost
<1>3. UNCHANGED <<life, beat, known, next>>
      /\ (\A i \in Jvms : others'[i] \subseteq others[i])
      /\ worker' = [worker EXCEPT ![row.jvm] = [state |-> "TERMINATED", due |-> row.due]]
  BY DEF TerminateOther, jvmVars, TimesOK
<1>4. Ahead(beats)'
  BY <1>1, <1>2, <1>3 DEF Ahead, TimesOK
<1>5. KnownHasRow' /\ StartsWhenDue'
  BY <1>2, <1>3 DEF KnownHasRow, StartsWhenDue, TimesOK
<1> QED
  BY <1>1, <1>4, <1>5 DEF Steady

\* Time brings all beats nearer at the same pace.
LEMMA TickKeepsSchedule ==
  ASSUME ScheduleInv, TimesOK, Tick
  PROVE  ScheduleInv'
<1> USE LongestType DEF ScheduleInv
<1>1. PICK beats \in [Jvms -> Nat] : Steady(beats) /\ Ahead(beats)
  OBVIOUS
<1>2. \A n \in Nat : Passed(n) \in Nat /\ (n > 0 => Passed(n) = n - 1) /\ (n = 0 => Passed(n) = 0)
  BY DEF Passed
<1>3. PICK new \in [Jvms -> Nat] : \A k \in Jvms : new[k] = Passed(beats[k])
  <2>1. [k \in Jvms |-> Passed(beats[k])] \in [Jvms -> Nat]
    BY <1>2
  <2> QED
    BY <2>1
<1>4. Steady(new)
  <2> SUFFICES ASSUME NEW i \in Jvms, new[i] > Longest
               PROVE  \E k \in Jvms : new[i] <= new[k] + Longest /\ new[k] < new[i]
    BY DEF Steady
  <2>1. beats[i] = new[i] + 1
    BY <1>2, <1>3
  <2>2. PICK k \in Jvms : beats[i] <= beats[k] + Longest /\ beats[k] < beats[i]
    BY <1>1, <1>3, <2>1 DEF Steady
  <2>3. beats[k] > 0 /\ new[k] = beats[k] - 1
    BY <1>2, <1>3, <2>1, <2>2
  <2> QED
    BY <1>3, <2>1, <2>2, <2>3
<1>5. \A m, n \in Nat : m <= n => Passed(m) <= Passed(n)
  BY DEF Passed
<1>6. UNCHANGED <<life, beat, known>>
  BY DEF Tick, jvmVars
<1>7. Ahead(new)'
  <2>1. \A i \in Jvms : worker'[i].due <= new[i]
    BY <1>1, <1>3, <1>5 DEF Tick, Ahead, TimesOK
  <2>2. \A i \in Jvms : \A row \in others'[i] : row.due <= new[row.jvm]
    <3> SUFFICES ASSUME NEW i \in Jvms, NEW old \in others[i]
                 PROVE  Passed(old.due) <= new[old.jvm]
      BY DEF Tick
    <3>1. old.jvm \in Jvms /\ old.due \in Nat
      BY DEF TimesOK, SameHost
    <3> QED
      BY <1>1, <1>3, <1>5, <3>1 DEF Ahead
  <2>3. \A i \in Jvms : next'[i] = Passed(next[i])
    BY DEF Tick
  <2>4. \A i \in Jvms : life'[i] \in Running => next'[i] = new[i]
    BY <1>1, <1>3, <1>6, <2>3 DEF Ahead
  <2>5. \A i \in Jvms : i \notin known' => new[i] = 0 /\ next'[i] = 0
    BY <1>1, <1>2, <1>3, <1>6, <2>3 DEF Ahead
  <2> QED
    BY <2>1, <2>2, <2>4, <2>5 DEF Ahead
<1>8. KnownHasRow' /\ StartsWhenDue'
  BY <1>2, <1>6 DEF Tick, KnownHasRow, StartsWhenDue, TimesOK
<1>9. Steady(new)'
  BY <1>4 DEF Steady
<1> QED
  BY <1>3, <1>7, <1>8, <1>9

\* Every step of the program keeps ScheduleInv.
LEMMA NextKeepsSchedule ==
  HostInv /\ TimesOK /\ ScheduleInv /\ [Next]_vars => ScheduleInv'
<1> SUFFICES ASSUME HostInv, TimesOK, ScheduleInv, [Next]_vars
             PROVE  ScheduleInv'
  OBVIOUS
<1>0. HostInv'
  BY NextKeepsHost
<1>1. CASE UNCHANGED vars
  BY <1>1 DEF vars, workerVars, jvmVars, ScheduleInv, KnownHasRow, StartsWhenDue, Ahead, Steady
<1>2. CASE Tick
  BY <1>2, TickKeepsSchedule
<1>3. ASSUME NEW j \in Jvms,
             Launch(j) \/ MainStep(j) \/ CheckShutDown(j) \/ Crash(j), Forget
      PROVE  ScheduleInv'
  BY <1>0, <1>3, LifeStep, LifeKeepsSchedule DEF HostInv
<1>4. ASSUME NEW h \in Hosts, Command(h), Forget
      PROVE  ScheduleInv'
  BY <1>0, <1>4, CommandStep, LifeKeepsSchedule DEF HostInv
<1>5. ASSUME NEW j \in Jvms, WorkerStep(j) \/ BeatFails(j)
      PROVE  ScheduleInv'
  BY <1>5, ReadKeepsSchedule, OwnRowKeepsSchedule, LoadKeepsSchedule,
     TerminateKeepsSchedule DEF WorkerStep
<1> QED
  BY <1>1, <1>2, <1>3, <1>4, <1>5 DEF Next, BeatThread

\* For any hosts, JVMs, intervals and random terms, starts that overlap and lost
\* memory included: no beat is further off than the longest distance for each
\* row there ever was, although every beat adds its delay to the latest of all
\* (calculateNextBeat) and rows may go back to an older one (ensureWorker).
THEOREM ScheduleStaysBounded == Spec => []ScheduleBounded
<1>1. Init => HostInv /\ TimesOK /\ ScheduleInv
  <2> SUFFICES ASSUME Init
               PROVE  HostInv /\ TimesOK /\ ScheduleInv
    OBVIOUS
  <2>1. HostInv /\ TimesOK
    BY PortInit, RowInit DEF HostInv, Init, TimesOK
  <2> DEFINE beats == [j \in Jvms |-> 0]
  <2>2. beats \in [Jvms -> Nat] /\ Steady(beats) /\ Ahead(beats)
    BY LongestType DEF Init, Steady, Ahead
  <2>3. KnownHasRow /\ StartsWhenDue
    BY DEF Init, KnownHasRow, StartsWhenDue
  <2> QED
    BY <2>1, <2>2, <2>3 DEF ScheduleInv
<1>2. HostInv /\ TimesOK /\ ScheduleInv => ScheduleBounded
  <2> USE LongestType
  <2> SUFFICES ASSUME TimesOK, ScheduleInv, NEW j \in Jvms
               PROVE  worker[j].due
                        <= Longest * Cardinality({k \in Jvms : worker[k].state # "none"})
    BY DEF ScheduleBounded
  <2>1. PICK beats \in [Jvms -> Nat] : Steady(beats) /\ Ahead(beats)
    BY DEF ScheduleInv
  <2> DEFINE R == {k \in Jvms : worker[k].state # "none"}
  <2>2. R \in SUBSET Jvms /\ \A k \in Jvms : beats[k] > 0 => k \in R
    BY <2>1 DEF ScheduleInv, KnownHasRow, Ahead
  <2>3. IsFiniteSet(R) /\ Cardinality(R) \in Nat
    BY <2>2, FS_Subset, FS_CardinalityType
  <2> HIDE DEF R
  <2>4. beats[j] <= Longest * Cardinality(R)
    BY <2>1, <2>2, SteadyIsBounded
  <2>5. worker[j].due \in Nat /\ worker[j].due <= beats[j] /\ beats[j] \in Nat
    BY <2>1 DEF Ahead, TimesOK
  <2>6. worker[j].due <= Longest * Cardinality(R)
    BY <2>3, <2>4, <2>5
  <2> QED
    BY <2>6 DEF R
<1>3. HostInv /\ TimesOK /\ ScheduleInv /\ [Next]_vars => HostInv' /\ TimesOK' /\ ScheduleInv'
  BY NextKeepsHost, NextKeepsTimes, NextKeepsSchedule
<1> QED
  BY <1>1, <1>2, <1>3, PTL DEF Spec
==============================================================================
