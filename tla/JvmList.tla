------------------------------- MODULE JvmList -------------------------------
(***************************************************************************)
(* How a newly started worker JVM takes over a host.  The JVMs of a host   *)
(* share a port, which only one web server can have, and a file,           *)
(* jvm.<port>.csv, which each of them reads, changes in memory and writes  *)
(* back as a whole.  A new JVM asks the one that serves the port to exit,  *)
(* lists itself as STARTING, and tries the port; a JVM that finds another  *)
(* one STARTING at the beginning of a beat terminates.                     *)
(*                                                                         *)
(* LISTENING and TERMINATED entries are written and carried along, but     *)
(* never acted upon: the file is modelled by its STARTING entries.         *)
(***************************************************************************)
EXTENDS Naturals, Sequences, SequencesExt

CONSTANTS Jvms,     \* every JVM that is ever started; none is started twice
          Hosts,    \* the machines
          HostOf,   \* the host of each JVM
          None,     \* no JVM
          MaxTries, \* attempts to get the port: 6
          MaxFaults, \* bound: crashes, command line tools and failing beats
          Starts    \* bound: the sets of JVMs that may be started together

ASSUME JvmListAssumption ==
    /\ HostOf \in [Jvms -> Hosts] /\ None \notin Jvms
    /\ MaxTries \in Nat \ {0} /\ MaxFaults \in Nat
    /\ IsFiniteSet(Jvms)
    /\ Starts \subseteq SUBSET Jvms

VARIABLES file,       \* per host: the JVMs listed as STARTING, in order
          port,       \* per host: the JVM whose web server has the port
          life,       \* per JVM: where its main thread is
          beat,       \* per JVM: where its beat thread is
          listed,     \* per JVM: what checkShutDown has read from the file
          tries,      \* per JVM: attempts to get the port so far
          faults,     \* number of faults so far
          overlapped, \* history, per host: a JVM was started next to one that
                      \* had not got its port yet
          stranded    \* history, per host: a JVM exited while it was listed

jvmVars == <<file, port, life, beat, listed, tries, faults, overlapped, stranded>>

Life == {"off", "launched", "announce", "flush", "probe", "run", "serve", "exited"}
Starting == {"announce", "flush", "probe", "run"}
Running == {"run", "serve"}

SameHost(j) == {k \in Jvms : HostOf[k] = HostOf[j]}

JvmInit ==
    /\ file = [h \in Hosts |-> <<>>]
    /\ port = [h \in Hosts |-> None]
    /\ \E S \in Starts : life = [j \in Jvms |-> IF j \in S THEN "off" ELSE "exited"]
    /\ beat = [j \in Jvms |-> "none"]
    /\ listed = [j \in Jvms |-> <<>>]
    /\ tries = [j \in Jvms |-> 0]
    /\ faults = 0
    /\ overlapped = [h \in Hosts |-> FALSE]
    /\ stranded = [h \in Hosts |-> FALSE]

JvmListOK ==
    /\ \A h \in Hosts : IsInjective(file[h])
    /\ file \in [Hosts -> Seq(Jvms)] /\ port \in [Hosts -> Jvms \cup {None}]
    /\ life \in [Jvms -> Life]
    /\ listed \in [Jvms -> Seq(Jvms)] /\ tries \in [Jvms -> 0..MaxTries]
    /\ faults \in 0..MaxFaults
    /\ overlapped \in [Hosts -> BOOLEAN] /\ stranded \in [Hosts -> BOOLEAN]

------------------------------------------------------------------------------
(* The file, and the end of a JVM.                                         *)

Entries(s) == {s[i] : i \in DOMAIN s}

\* The list s without the entries in K: the set of this one sequence.
Without(s, K) ==
    {t \in SetToSeqs(Entries(s) \ K) :
        \A a, b \in DOMAIN t : a < b =>
            \E c, d \in DOMAIN s : c < d /\ s[c] = t[a] /\ s[d] = t[b]}

\* What the file may hold once a writer closes it: its own entries, and a
\* tail of what another writer put there since this one truncated the file.
Overlay(h, own) ==
    {own \o t : t \in UNION {Without(SubSeq(file[h], i, Len(file[h])), Entries(own)) :
                                i \in 1..(Len(file[h]) + 1)}}

\* An entry of j would outlive it.
Lingers(j) == j \in Entries(file[HostOf[j]]) \/ \E k \in Jvms \ {j} : j \in Entries(listed[k])

\* The JVMs in K exit; the others are where `lives' says.
Exit(K, lives) ==
    /\ life' = [j \in Jvms |-> IF j \in K THEN "exited" ELSE lives[j]]
    /\ port' = [h \in Hosts |-> IF port[h] \in K THEN None ELSE port[h]]
    /\ beat' = [j \in Jvms |-> IF j \in K THEN "none" ELSE beat[j]]
    /\ listed' = [j \in Jvms |-> IF j \in K THEN <<>> ELSE listed[j]]
    /\ stranded' = [h \in Hosts |->
          stranded[h] \/ \E j \in K : HostOf[j] = h /\ Lingers(j)]

\* A request to the shut down path of the port: whoever serves it exits,
\* unless the request fails, which is ignored.
ShutDownLocalhost(h, lives) ==
    \/ port[h] # None /\ Exit({port[h]}, lives)
    \/ Exit({}, lives)

------------------------------------------------------------------------------
(* The main thread of RunServer.                                           *)

Goes(j, l) == life' = [life EXCEPT ![j] = l]

Launch(j) ==
    /\ life[j] = "off"
    /\ ShutDownLocalhost(HostOf[j], [life EXCEPT ![j] = "launched"])
    /\ UNCHANGED <<file, tries, faults, overlapped>>

\* makeSureThatPortAvailable reads the file.
ReadList(j) ==
    /\ life[j] = "launched"
    /\ file[HostOf[j]] = <<>>
    /\ Goes(j, "announce")
    /\ overlapped' = [overlapped EXCEPT ![HostOf[j]] =
          @ \/ \E k \in SameHost(j) : life[k] \in Starting]
    /\ UNCHANGED <<file, port, beat, listed, tries, faults, stranded>>

\* "It's odd. Some worker already starting."
SomeWorkerStarting(j) ==
    /\ life[j] = "launched"
    /\ file[HostOf[j]] # <<>>
    /\ Exit({j}, life)
    /\ UNCHANGED <<file, tries, faults, overlapped>>

\* write: the FileWriter truncates the file; its buffer reaches it on close.
Announce(j) ==
    /\ life[j] = "announce"
    /\ file' = [file EXCEPT ![HostOf[j]] = <<>>]
    /\ Goes(j, "flush")
    /\ UNCHANGED <<port, beat, listed, tries, faults, overlapped, stranded>>

AnnounceFlush(j) ==
    /\ life[j] = "flush"
    /\ \E s \in Overlay(HostOf[j], <<j>>) : file' = [file EXCEPT ![HostOf[j]] = s]
    /\ Goes(j, "probe")
    /\ UNCHANGED <<port, beat, listed, tries, faults, overlapped, stranded>>

\* Mutant of PortAvailable: the port is not tried.
PortIgnored(j) ==
    /\ life[j] = "probe"
    /\ Goes(j, "run")
    /\ beat' = [beat EXCEPT ![j] = "rest"]
    /\ UNCHANGED <<file, port, listed, tries, faults, overlapped, stranded>>

\* Mutant of PortAvailable: the socket of the attempt is not closed.
PortKept(j) ==
    /\ life[j] = "probe"
    /\ port[HostOf[j]] = None
    /\ port' = [port EXCEPT ![HostOf[j]] = j]
    /\ Goes(j, "run")
    /\ beat' = [beat EXCEPT ![j] = "rest"]
    /\ UNCHANGED <<file, listed, tries, faults, overlapped, stranded>>

\* portAvailable; runServer starts the scheduler of the beats.
PortAvailable(j) ==
    /\ life[j] = "probe"
    /\ port[HostOf[j]] = None
    /\ Goes(j, "run")
    /\ beat' = [beat EXCEPT ![j] = "rest"]
    /\ UNCHANGED <<file, port, listed, tries, faults, overlapped, stranded>>

\* Mutant of PortTaken: no end to the attempts.
PortAwaited(j) ==
    /\ life[j] = "probe"
    /\ port[HostOf[j]] # None
    /\ tries' = [tries EXCEPT ![j] = @ + 1]
    /\ Goes(j, "announce")
    /\ UNCHANGED <<file, port, beat, listed, faults, overlapped, stranded>>

\* The port is taken: wait, and announce again.
PortTaken(j) ==
    /\ life[j] = "probe"
    /\ port[HostOf[j]] # None
    /\ tries[j] + 1 < MaxTries
    /\ tries' = [tries EXCEPT ![j] = @ + 1]
    /\ Goes(j, "announce")
    /\ UNCHANGED <<file, port, beat, listed, faults, overlapped, stranded>>

\* "Gave up to get port."
GiveUp(j) ==
    /\ life[j] = "probe"
    /\ port[HostOf[j]] # None
    /\ tries[j] + 1 = MaxTries
    /\ Exit({j}, life)
    /\ UNCHANGED <<file, tries, faults, overlapped>>

\* BuzzServer.start, after the scheduler was started.
Bind(j) ==
    /\ life[j] = "run"
    /\ port[HostOf[j]] = None
    /\ port' = [port EXCEPT ![HostOf[j]] = j]
    /\ Goes(j, "serve")
    /\ UNCHANGED <<file, beat, listed, tries, faults, overlapped, stranded>>

BindFails(j) ==
    /\ life[j] = "run"
    /\ port[HostOf[j]] # None
    /\ Exit({j}, life)
    /\ UNCHANGED <<file, tries, faults, overlapped>>

MainStep(j) ==
    \/ ReadList(j) \/ SomeWorkerStarting(j) \/ Announce(j) \/ AnnounceFlush(j)
    \/ PortAvailable(j) \/ PortTaken(j) \/ GiveUp(j) \/ Bind(j) \/ BindFails(j)

------------------------------------------------------------------------------
(* checkShutDown, at the beginning of each beat.                           *)

\* Mutant of GivesWay: starting.isMe() is not asked.
GivesWayToItself(j) == listed[j] # <<>>

\* The last STARTING entry is that of another JVM.
GivesWay(j) == listed[j] # <<>> /\ Last(listed[j]) # j

CheckRead(j) ==
    /\ beat[j] = "rest"
    /\ listed' = [listed EXCEPT ![j] = file[HostOf[j]]]
    /\ beat' = [beat EXCEPT ![j] = "open"]
    /\ UNCHANGED <<file, port, life, tries, faults, overlapped, stranded>>

CheckOpen(j) ==
    /\ beat[j] = "open"
    /\ file' = [file EXCEPT ![HostOf[j]] = <<>>]
    /\ beat' = [beat EXCEPT ![j] = "write"]
    /\ UNCHANGED <<port, life, listed, tries, faults, overlapped, stranded>>

\* Mutant of Entered: ensureMeInList does not change an entry it finds.
NotEntered(j) == {listed[j]}

\* ensureMeInList: j is TERMINATED or LISTENING, not STARTING any more.
Entered(j) == Without(listed[j], {j})

CheckWrite(j) ==
    /\ beat[j] = "write"
    /\ \E own \in Entered(j) : \E s \in Overlay(HostOf[j], own) :
          file' = [file EXCEPT ![HostOf[j]] = s]
    /\ UNCHANGED <<tries, faults, overlapped>>

\* "Shutting down"
Terminate(j) == GivesWay(j) /\ CheckWrite(j) /\ Exit({j}, life)

KeepListening(j) ==
    /\ ~GivesWay(j)
    /\ CheckWrite(j)
    /\ listed' = [listed EXCEPT ![j] = <<>>]
    /\ beat' = [beat EXCEPT ![j] = "checked"]
    /\ UNCHANGED <<port, life, stranded>>

CheckShutDown(j) == CheckRead(j) \/ CheckOpen(j) \/ Terminate(j) \/ KeepListening(j)

------------------------------------------------------------------------------
(* Faults.                                                                 *)

Crash(j) ==
    /\ faults < MaxFaults
    /\ life[j] \notin {"off", "exited"}
    /\ faults' = faults + 1
    /\ Exit({j}, life)
    /\ UNCHANGED <<file, tries, overlapped>>

\* Any command on the host (SendMessage, PushConfig) makes a BeeQueueHome,
\* which makes a BuzzServer, which asks the port to shut down.
Command(h) ==
    /\ faults < MaxFaults
    /\ port[h] # None
    /\ faults' = faults + 1
    /\ ShutDownLocalhost(h, life)
    /\ UNCHANGED <<file, tries, overlapped>>
==============================================================================
