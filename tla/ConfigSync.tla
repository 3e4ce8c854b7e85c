------------------------------ MODULE ConfigSync ------------------------------
(***************************************************************************)
(* How a pushed configuration reaches the workers.  checkGlobalConfig      *)
(* compares the version in NN_TREE with the one the JVM remembers, pulls   *)
(* it into a directory next to the configuration, swaps the two, remembers *)
(* the version, and refreshes the objects made from the old files one by   *)
(* one.  Then the beat takes the templates of its domains from the global  *)
(* configuration and brings NN_DOMAIN up to date with them.                *)
(*                                                                         *)
(* Commands like SendMessage pull the configuration, too, into the same    *)
(* directory as the worker of their host.                                  *)
(***************************************************************************)
EXTENDS ContentStore, Naturals, SequencesExt

CONSTANTS Jvms,      \* workers and commands
          Commands,  \* the JVMs that run one command and end
          Dirs, DirOf, \* configuration directories, and that of each JVM
          Global,    \* the path of global.json; the others are one per domain
          Listed,    \* per content: the domains it lists as global.json
          Order,     \* the paths in the order of the map of singletons
          Starts     \* bound: pushers and JVMs that are run together, how many
                     \* of them break off, and the version there is before

ASSUME SyncAssumption ==
    /\ Commands \subseteq Jvms /\ DirOf \in [Jvms -> Dirs]
    /\ Global \in Paths /\ Listed \in [Contents -> SUBSET (Paths \ {Global})]
    /\ IsInjective(Order) /\ {Order[i] : i \in DOMAIN Order} = Paths
    /\ Starts \subseteq [pushers : SUBSET Pushers, jvms : SUBSET Jvms,
                        pushed : Versions \cup {None}, aborts : Nat]

VARIABLES dest,    \* the configuration directories
          tmp,     \* the directories next to them
          config,  \* per JVM: the version it remembers (WorkerData.config)
          at,      \* per JVM: where it is
          pull,    \* per JVM: version, target directory and files to write
          loaded,  \* per JVM and path: what the object was made from
          active,  \* per JVM and domain: the template in activeDomains
          todo,    \* per JVM: paths still to refresh
          domain,  \* NN_DOMAIN
          plan,    \* per JVM: rows of NN_DOMAIN to insert and to update
          aborts,  \* how many things may still break off
          crossed, \* history: two JVMs were in checkGlobalConfig at once
          latest   \* history: the version put into a directory last

memory == <<config, pull, loaded, active, todo, plan>>
syncVars == <<dest, tmp, memory, at, domain, aborts, crossed, latest>>
vars == <<storeVars, syncVars>>

Domains == Paths \ {Global}
Nothing == [f \in Paths |-> None]
Absent == <<>>                       \* a directory that is not there
NoPull == [version |-> None, into |-> "none", files |-> {}]
NoPlan == [insert |-> {}, update |-> {}]
Phase == {"off", "idle", "pull", "write", "install", "record", "refresh",
          "configure", "load", "domains"}
Syncing == {"pull", "write", "install", "record", "refresh"}

Init ==
    /\ \E S \in Starts :
          /\ StoreInit(S.pushers, S.pushed)
          /\ at = [j \in Jvms |-> IF j \in S.jvms THEN "idle" ELSE "off"]
          /\ aborts = S.aborts
    /\ dest = [h \in Dirs |-> Nothing]
    /\ tmp = [h \in Dirs |-> Absent]
    /\ config = [j \in Jvms |-> None]
    /\ pull = [j \in Jvms |-> NoPull]
    /\ loaded = [j \in Jvms |-> Nothing]
    /\ active = [j \in Jvms |-> Nothing]
    /\ todo = [j \in Jvms |-> {}]
    /\ domain = [d \in Domains |-> "none"]
    /\ plan = [j \in Jvms |-> NoPlan]
    /\ crossed = [h \in Dirs |-> FALSE]
    /\ latest = [h \in Dirs |-> None]

Files == [Paths -> Contents \cup {None}]
Pulls == [version : Versions \cup {None}, into : {"none", "dest", "tmp"}, files : SUBSET Paths]

TypeOK ==
    /\ StoreOK
    /\ dest \in [Dirs -> Files \cup {Absent}] /\ tmp \in [Dirs -> Files \cup {Absent}]
    /\ config \in [Jvms -> Versions \cup {None}]
    /\ at \in [Jvms -> Phase]
    /\ pull \in [Jvms -> Pulls]
    /\ loaded \in [Jvms -> Files] /\ active \in [Jvms -> Files]
    /\ todo \in [Jvms -> SUBSET Paths]
    /\ domain \in [Domains -> {"none", "UP", "DEJA_VU"}]
    /\ plan \in [Jvms -> [insert : SUBSET Domains,
                          update : SUBSET (Domains \X {"UP", "DEJA_VU"})]]
    /\ aborts \in Nat
    /\ crossed \in [Dirs -> BOOLEAN] /\ latest \in [Dirs -> Versions \cup {None}]

------------------------------------------------------------------------------
(* sync and pull.                                                          *)

Goes(j, phase) == at' = [at EXCEPT ![j] = phase]

\* Mutant of IsBehind: only the first version is pulled.
HasNone(j) == tree # None /\ config[j] = None

\* CHECK_CONTENT_TREE_UPDATE finds a row.
IsBehind(j) == tree \notin {None, config[j]}

Sync(j) ==
    /\ at[j] = "idle"
    /\ IF IsBehind(j)
          THEN pull' = [pull EXCEPT ![j].version = tree] /\ Goes(j, "pull")
          ELSE Goes(j, "configure") /\ UNCHANGED pull
    /\ UNCHANGED <<storeVars, dest, tmp, config, loaded, active, todo, plan, domain,
                   aborts, crossed, latest>>

\* The directory d with content c in file f; it is made if need be.
With(d, f, c) == [(IF d = Absent THEN Nothing ELSE d) EXCEPT ![f] = c]

FileList(v) == {f \in Paths : Content[v][f] # None}

\* Mutant of ToWrite: files that an earlier pull has left are not read again.
ToWriteMissing(j) ==
    {f \in FileList(pull[j].version) : tmp[DirOf[j]] = Absent \/ tmp[DirOf[j]][f] = None}

ToWrite(j) == FileList(pull[j].version)

\* The target is chosen, and the list of files is written there and read
\* back.  What an earlier pull has left in the target stays.
BeginPull(j) ==
    /\ at[j] = "pull"
    /\ LET h == DirOf[j]
       IN /\ pull' = [pull EXCEPT ![j] =
                [version |-> pull[j].version, files |-> ToWrite(j),
                 into |-> IF dest[h] = Absent THEN "dest" ELSE "tmp"]]
          /\ IF dest[h] = Absent
                THEN dest' = [dest EXCEPT ![h] = Nothing] /\ UNCHANGED tmp
                ELSE /\ tmp' = [tmp EXCEPT ![h] = IF @ = Absent THEN Nothing ELSE @]
                     /\ UNCHANGED dest
          /\ crossed' = [crossed EXCEPT ![h] =
                @ \/ \E i \in Jvms \ {j} : DirOf[i] = h /\ at[i] \in Syncing]
    /\ Goes(j, "write")
    /\ UNCHANGED <<storeVars, config, loaded, active, todo, plan, domain, aborts, latest>>

\* STREAM_CONTENT_OUT of one file; no row, no content.  The order is that of
\* the list, by hash and path, which is as good as any.
WriteFile(j, f) ==
    /\ at[j] = "write"
    /\ f \in pull[j].files
    /\ LET h == DirOf[j]
           c == Content[pull[j].version][f]
           written == IF c \in store THEN c ELSE None
       IN IF pull[j].into = "dest"
             THEN dest' = [dest EXCEPT ![h] = With(@, f, written)] /\ UNCHANGED tmp
             ELSE tmp' = [tmp EXCEPT ![h] = With(@, f, written)] /\ UNCHANGED dest
    /\ pull' = [pull EXCEPT ![j].files = @ \ {f}]
    /\ UNCHANGED <<storeVars, config, at, loaded, active, todo, plan, domain, aborts,
                   crossed, latest>>

\* The directory is renamed to the backup, which nobody reads.
SwapOut(j) ==
    /\ at[j] = "write"
    /\ pull[j].files = {} /\ pull[j].into = "tmp"
    /\ dest' = [dest EXCEPT ![DirOf[j]] = Absent]
    /\ Goes(j, "install")
    /\ UNCHANGED <<storeVars, tmp, memory, domain, aborts, crossed, latest>>

\* The new one is renamed in its place, if there is one and the place is
\* free; the result of renameTo is ignored.
SwapIn(j) ==
    /\ at[j] = "install"
    /\ LET h == DirOf[j]
       IN IF tmp[h] # Absent /\ dest[h] \in {Absent, Nothing}
             THEN dest' = [dest EXCEPT ![h] = tmp[h]] /\ tmp' = [tmp EXCEPT ![h] = Absent]
             ELSE UNCHANGED <<dest, tmp>>
    /\ latest' = [latest EXCEPT ![DirOf[j]] = pull[j].version]
    /\ Goes(j, "record")
    /\ UNCHANGED <<storeVars, memory, domain, aborts, crossed>>

PulledInPlace(j) ==
    /\ at[j] = "write"
    /\ pull[j].files = {} /\ pull[j].into = "dest"
    /\ latest' = [latest EXCEPT ![DirOf[j]] = pull[j].version]
    /\ Goes(j, "record")
    /\ UNCHANGED <<storeVars, dest, tmp, memory, domain, aborts, crossed>>

------------------------------------------------------------------------------
(* checkGlobalConfig, and the objects made from the files.                 *)

\* Mutant of ToRefresh: only the global configuration.
ToRefreshGlobal(j) == {f \in {Global} : loaded[j][f] # None}

\* refreshAll visits the singletons there are.
ToRefresh(j) == {f \in Paths : loaded[j][f] # None}

\* The version is remembered first.
Record(j) ==
    /\ at[j] = "record"
    /\ config' = [config EXCEPT ![j] = pull[j].version]
    /\ pull' = [pull EXCEPT ![j] = NoPull]
    /\ todo' = [todo EXCEPT ![j] = ToRefresh(j)]
    /\ Goes(j, "refresh")
    /\ UNCHANGED <<storeVars, dest, tmp, loaded, active, plan, domain, aborts, crossed,
                   latest>>

\* What a file holds, if it is there.
Read(j, f) == IF dest[DirOf[j]] = Absent THEN None ELSE dest[DirOf[j]][f]

\* The object of domain d: the one there is, or else one made from the file.
Template(j, d) == IF loaded[j][d] # None THEN loaded[j][d] ELSE Read(j, d)

\* GlobalConfig.init takes the templates of the listed domains as they are.
CanLoadGlobal(j) ==
    /\ Read(j, Global) # None
    /\ \A d \in Listed[Read(j, Global)] : Template(j, d) # None

LoadGlobal(j) ==
    LET g == Read(j, Global)
    IN /\ loaded' = [loaded EXCEPT ![j] = [f \in Paths |->
             CASE f = Global -> g
               [] f \in Listed[g] -> Template(j, f)
               [] OTHER -> loaded[j][f]]]
       /\ active' = [active EXCEPT ![j] = [f \in Paths |->
             IF f \in Listed[g] THEN Template(j, f) ELSE None]]

\* init fails at a domain that is not there; those found before stay loaded.
LoadGlobalFails(j) ==
    /\ ~CanLoadGlobal(j)
    /\ \E S \in SUBSET (IF Read(j, Global) = None THEN {} ELSE Listed[Read(j, Global)]) :
          loaded' = [loaded EXCEPT ![j] = [f \in Paths |->
             IF f \in S THEN Template(j, f) ELSE loaded[j][f]]]
    /\ UNCHANGED active

\* The next one, in the order of the map.
IsNext(j, f) ==
    /\ f \in todo[j]
    /\ \A g \in todo[j] \ {f} :
          \E a, b \in DOMAIN Order : a < b /\ Order[a] = f /\ Order[b] = g

Refresh(j, f) ==
    /\ at[j] = "refresh"
    /\ IsNext(j, f)
    /\ IF f = Global
          THEN CanLoadGlobal(j) /\ LoadGlobal(j)
          ELSE /\ Read(j, f) # None
               /\ loaded' = [loaded EXCEPT ![j][f] = Read(j, f)]
               /\ UNCHANGED active
    /\ todo' = [todo EXCEPT ![j] = @ \ {f}]
    /\ UNCHANGED <<storeVars, dest, tmp, config, at, pull, plan, domain, aborts,
                   crossed, latest>>

\* A file is not there: the exception leaves refreshAll, and ends the beat.
RefreshFails(j, f) ==
    /\ at[j] = "refresh"
    /\ IsNext(j, f)
    /\ IF f = Global
          THEN LoadGlobalFails(j)
          ELSE Read(j, f) = None /\ UNCHANGED <<loaded, active>>
    /\ todo' = [todo EXCEPT ![j] = {}]
    /\ Goes(j, IF j \in Commands THEN "off" ELSE "idle")
    /\ UNCHANGED <<storeVars, dest, tmp, config, pull, plan, domain, aborts, crossed,
                   latest>>

Refreshed(j) ==
    /\ at[j] = "refresh"
    /\ todo[j] = {}
    /\ Goes(j, "configure")
    /\ UNCHANGED <<storeVars, dest, tmp, memory, domain, aborts, crossed, latest>>

\* getGlobalConfig().activeDomains(), all a command needs
GetGlobalConfig(j) ==
    /\ at[j] = "configure"
    /\ \/ loaded[j][Global] # None /\ UNCHANGED <<loaded, active>>
       \/ loaded[j][Global] = None /\ CanLoadGlobal(j) /\ LoadGlobal(j)
    /\ Goes(j, IF j \in Commands THEN "off" ELSE "load")
    /\ UNCHANGED <<storeVars, dest, tmp, config, pull, todo, plan, domain, aborts,
                   crossed, latest>>

NoGlobalConfig(j) ==
    /\ at[j] = "configure"
    /\ loaded[j][Global] = None /\ LoadGlobalFails(j)
    /\ Goes(j, IF j \in Commands THEN "off" ELSE "idle")
    /\ UNCHANGED <<storeVars, dest, tmp, config, pull, todo, plan, domain, aborts,
                   crossed, latest>>

SyncStep(j) ==
    \/ Sync(j) \/ BeginPull(j)
    \/ \E f \in pull[j].files : WriteFile(j, f)
    \/ SwapOut(j) \/ SwapIn(j) \/ PulledInPlace(j) \/ Record(j)
    \/ \E f \in todo[j] : Refresh(j, f) \/ RefreshFails(j, f)
    \/ Refreshed(j)
    \/ GetGlobalConfig(j) \/ NoGlobalConfig(j)

------------------------------------------------------------------------------
(* ensureDomains.                                                          *)

Uses(j) == {d \in Domains : active[j][d] # None}

\* Mutant of Revived: what was marked as gone stays so.
NeverRevived(j) == {}

\* Domains in use that were marked as gone
Revived(j) == {<<d, "UP">> : d \in {e \in Uses(j) : domain[e] = "DEJA_VU"}}

\* Domains that are not in use
Retired(j) == {<<d, "DEJA_VU">> : d \in {e \in Domains \ Uses(j) : domain[e] = "UP"}}

\* LOAD_DOMAINS, and what follows from it
LoadDomains(j) ==
    /\ at[j] = "load"
    /\ plan' = [plan EXCEPT ![j] =
          [insert |-> {d \in Uses(j) : domain[d] = "none"},
           update |-> Revived(j) \cup Retired(j)]]
    /\ Goes(j, "domains")
    /\ UNCHANGED <<storeVars, dest, tmp, config, pull, loaded, active, todo, domain,
                   aborts, crossed, latest>>

\* Mutant of InsertDomain: a domain begins DOWN.
InsertDomainDown(j, d) ==
    /\ at[j] = "domains"
    /\ d \in plan[j].insert /\ domain[d] = "none"
    /\ domain' = [domain EXCEPT ![d] = "DOWN"]
    /\ plan' = [plan EXCEPT ![j].insert = @ \ {d}]
    /\ UNCHANGED <<storeVars, dest, tmp, config, at, pull, loaded, active, todo, aborts,
                   crossed, latest>>

\* INSERT_DOMAIN; the primary key ends the beat of a worker that comes second.
InsertDomain(j, d) ==
    /\ at[j] = "domains"
    /\ d \in plan[j].insert
    /\ IF domain[d] = "none"
          THEN /\ domain' = [domain EXCEPT ![d] = "UP"]
               /\ plan' = [plan EXCEPT ![j].insert = @ \ {d}]
               /\ UNCHANGED at
          ELSE plan' = [plan EXCEPT ![j] = NoPlan] /\ Goes(j, "idle") /\ UNCHANGED domain
    /\ UNCHANGED <<storeVars, dest, tmp, config, pull, loaded, active, todo, aborts,
                   crossed, latest>>

\* UPDATE_DOMAIN, by name, whatever the state is by now
UpdateDomain(j, u) ==
    /\ at[j] = "domains"
    /\ plan[j].insert = {} /\ u \in plan[j].update
    /\ domain' = [domain EXCEPT ![u[1]] = u[2]]
    /\ plan' = [plan EXCEPT ![j].update = @ \ {u}]
    /\ UNCHANGED <<storeVars, dest, tmp, config, at, pull, loaded, active, todo, aborts,
                   crossed, latest>>

\* The rest of the beat.
EndBeat(j) ==
    /\ at[j] = "domains"
    /\ plan[j] = NoPlan
    /\ Goes(j, "idle")
    /\ UNCHANGED <<storeVars, dest, tmp, memory, domain, aborts, crossed, latest>>

DomainStep(j) ==
    \/ LoadDomains(j)
    \/ \E d \in plan[j].insert : InsertDomain(j, d)
    \/ \E u \in plan[j].update : UpdateDomain(j, u)
    \/ EndBeat(j)

------------------------------------------------------------------------------
(* Things that break off.                                                  *)

\* A statement or a write fails in the middle of a pull.
PullFails(j) ==
    /\ aborts > 0
    /\ at[j] \in {"pull", "write"}
    /\ aborts' = aborts - 1
    /\ pull' = [pull EXCEPT ![j] = NoPull]
    /\ Goes(j, IF j \in Commands THEN "off" ELSE "idle")
    /\ UNCHANGED <<storeVars, dest, tmp, config, loaded, active, todo, plan, domain,
                   crossed, latest>>

\* A worker's JVM dies and is started again; the new one makes sure of its
\* configuration directory (BeeQueueHome).
Restart(j) ==
    /\ aborts > 0
    /\ at[j] # "off" /\ j \notin Commands
    /\ aborts' = aborts - 1
    /\ dest' = [dest EXCEPT ![DirOf[j]] = IF @ = Absent THEN Nothing ELSE @]
    /\ config' = [config EXCEPT ![j] = None]
    /\ pull' = [pull EXCEPT ![j] = NoPull]
    /\ loaded' = [loaded EXCEPT ![j] = Nothing]
    /\ active' = [active EXCEPT ![j] = Nothing]
    /\ todo' = [todo EXCEPT ![j] = {}]
    /\ plan' = [plan EXCEPT ![j] = NoPlan]
    /\ Goes(j, "idle")
    /\ UNCHANGED <<storeVars, tmp, domain, crossed, latest>>

PushBreaksOff(p) ==
    /\ aborts > 0
    /\ aborts' = aborts - 1
    /\ PushAborts(p)
    /\ UNCHANGED <<dest, tmp, memory, at, domain, crossed, latest>>

Next ==
    \/ \E p \in Pushers : (PushStep(p) /\ UNCHANGED syncVars) \/ PushBreaksOff(p)
    \/ \E j \in Jvms : SyncStep(j) \/ DomainStep(j) \/ PullFails(j) \/ Restart(j)

Spec == Init /\ [][Next]_vars

\* Pushes come to an end, and workers repeat their beats.
FairSpec ==
    /\ Spec
    /\ \A p \in Pushers : WF_vars(PushStep(p) /\ UNCHANGED syncVars)
    /\ \A j \in Jvms : WF_vars(SyncStep(j) \/ DomainStep(j))

------------------------------------------------------------------------------
(* Properties.                                                             *)

\* The configuration directory holds every file of the version put there
\* last, also after pulls that were cut short anywhere; except if two
\* JVMs pulled into it at once (pull, WorkerData.checkGlobalConfig).
DirHasVersion ==
    \A h \in Dirs :
        /\ latest[h] # None /\ ~crossed[h]
        /\ \A j \in Jvms : DirOf[j] = h => at[j] # "install"
        => \/ dest[h] = Nothing  \* a JVM died between the renames
           \/ \A f \in Paths :
                 Content[latest[h]][f] # None
                 => dest[h] # Absent /\ dest[h][f] = Content[latest[h]][f]

\* When a beat comes to its domains, the templates it goes by are those of
\* the version it remembers: "if configuration was updated and load all
\* updates" (BeatLogic.doLaundryList).
AllUpdatesLoaded ==
    \A j \in Jvms :
        LET v == config[j]
        IN /\ at[j] = "load" /\ v # None
           /\ v = latest[DirOf[j]] /\ ~crossed[DirOf[j]]
           => active[j] = [f \in Paths |->
                IF f \in Listed[Content[v][Global]] THEN Content[v][f] ELSE None]

Up(j) == at[j] # "off" /\ j \notin Commands

\* The workers end up with the version pushed last, whatever broke off
\* (sync).
EveryUpdateArrives == <>[](\A j \in Jvms : Up(j) /\ tree # None => config[j] = tree)

\* NN_DOMAIN ends up with the domains of that version, though workers that
\* are behind mark what they do not know as gone (ensureDomains).
DomainsSettle ==
    <>[](\A j \in Jvms :
           Up(j) /\ tree # None /\ ~crossed[DirOf[j]]
           => \A d \in Domains :
                 domain[d] = "UP" <=> d \in Listed[Content[tree][Global]])
==============================================================================
