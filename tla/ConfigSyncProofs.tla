---------------------------- MODULE ConfigSyncProofs ----------------------------
(***************************************************************************)
(* Pushed configurations, for every number of pushers, JVMs, directories,  *)
(* versions and files, wherever pushes and pulls break off.  The store is  *)
(* closed because a pusher inserts the list of files last; a configuration *)
(* directory is replaced as a whole because it is filled next to its       *)
(* place, from a list whose files are all in the store, as long as one JVM *)
(* at a time does so.  The objects made from a directory follow it version *)
(* by version if the versions only go forward.                             *)
(***************************************************************************)
EXTENDS ConfigSync, TLAPS

(* StoreInv: what pushes keep up.                                          *)

StoreShape ==
    /\ store \subseteq Contents \cup Versions
    /\ tree \in Versions \cup {None}
    /\ pushing \in [Pushers -> PushPhase]
    /\ missing \in [Pushers -> SUBSET Contents]

\* What each phase of a push relies on.
PushPrepared ==
    \A p \in Pushers :
        /\ pushing[p] = "files" => Codes(Pushes[p]) \subseteq store \cup missing[p]
        /\ pushing[p] = "streamTree" => Codes(Pushes[p]) \subseteq store
        /\ pushing[p] \in {"update", "insert", "again"} => Pushes[p] \in store

StoreInv == StoreShape /\ StoreClosed /\ PushPrepared

USE ContentAssumption, SyncAssumption

\* Lists of files name contents.
LEMMA CodesAreContents == \A v \in Versions : Codes(v) \subseteq Contents
  BY DEF Codes

\* Before the first push the store is empty, or has one whole version.
LEMMA StoreStarts == Init => StoreInv
<1> SUFFICES ASSUME NEW S \in Starts, StoreInit(S.pushers, S.pushed)
             PROVE  StoreInv
  BY DEF Init
<1>1. S.pushed \in Versions \cup {None}
  OBVIOUS
<1>2. StoreShape
  BY <1>1, CodesAreContents DEF StoreInit, StoreShape, PushPhase
<1>3. StoreClosed
  BY <1>1, CodesAreContents DEF StoreInit, StoreClosed
<1>4. PushPrepared
  BY DEF StoreInit, PushPrepared
<1> QED
  BY <1>2, <1>3, <1>4 DEF StoreInv

\* A step of a push keeps StoreInv; it is the only thing that can touch it.
LEMMA PushKeepsStore ==
  ASSUME NEW p \in Pushers, StoreInv, PushStep(p) \/ PushAborts(p)
  PROVE  StoreInv'
<1> USE DEF StoreInv, StoreShape, Pushing
<1>1. Pushes[p] \in Versions /\ Codes(Pushes[p]) \subseteq Contents
  BY CodesAreContents
<1>2. CASE Check(p)
  BY <1>1, <1>2 DEF Check, StoreClosed, PushPrepared, PushPhase
<1>3. ASSUME NEW c \in missing[p], StreamFile(p, c)
      PROVE  StoreInv'
  <2> USE <1>3 DEF StreamFile
  <2>1. StoreShape'
    OBVIOUS
  <2>2. StoreClosed'
    BY DEF StoreClosed
  <2>3. PushPrepared'
    BY DEF PushPrepared
  <2> QED
    BY <2>1, <2>2, <2>3
<1>4. ASSUME NEW c \in missing[p], StreamClash(p, c)
      PROVE  StoreInv'
  BY <1>4 DEF StreamClash, StoreClosed, PushPrepared, PushPhase
<1>5. CASE CheckTree(p)
  BY <1>5 DEF CheckTree, StoreClosed, PushPrepared, PushPhase
<1>6. CASE StreamTree(p)
  <2> USE <1>1, <1>6 DEF StreamTree
  <2>1. StoreShape'
    BY DEF PushPhase
  <2>2. StoreClosed'
    BY DEF StoreClosed, PushPrepared
  <2>3. PushPrepared'
    BY DEF PushPrepared
  <2> QED
    BY <2>1, <2>2, <2>3
<1>7. CASE UpdateTree(p)
  BY <1>1, <1>7 DEF UpdateTree, StoreClosed, PushPrepared, PushPhase
<1>8. CASE InsertTree(p)
  BY <1>1, <1>8 DEF InsertTree, StoreClosed, PushPrepared, PushPhase
<1>9. CASE AddHistory(p)
  BY <1>9 DEF AddHistory, StoreClosed, PushPrepared, PushPhase
<1>10. CASE PushAborts(p)
  BY <1>10 DEF PushAborts, StoreClosed, PushPrepared, PushPhase
<1> QED
  BY <1>2, <1>3, <1>4, <1>5, <1>6, <1>7, <1>8, <1>9, <1>10 DEF PushStep

\* The JVMs only read the store.
LEMMA JvmsOnlyRead ==
  ASSUME NEW j \in Jvms, SyncStep(j) \/ DomainStep(j) \/ PullFails(j) \/ Restart(j)
  PROVE  UNCHANGED storeVars
  BY DEF SyncStep, DomainStep, PullFails, Restart, Sync, BeginPull, WriteFile, SwapOut,
         SwapIn, PulledInPlace, Record, Refresh, RefreshFails, Refreshed,
         GetGlobalConfig, NoGlobalConfig, LoadDomains, InsertDomain, UpdateDomain, EndBeat

\* Every step of the program keeps StoreInv.
LEMMA NextKeepsStore == StoreInv /\ [Next]_vars => StoreInv'
<1> SUFFICES ASSUME StoreInv, [Next]_vars PROVE StoreInv'
  OBVIOUS
<1>1. CASE UNCHANGED storeVars
  BY <1>1 DEF storeVars, StoreInv, StoreShape, StoreClosed, PushPrepared
<1>2. ASSUME NEW p \in Pushers, PushStep(p) \/ PushAborts(p)
      PROVE  StoreInv'
  BY <1>2, PushKeepsStore
<1> QED
  BY <1>1, <1>2, JvmsOnlyRead DEF Next, PushBreaksOff, vars

\* For any pushers, versions and files: what NN_TREE names, and every list
\* of files that is in the store, can be pulled as a whole
\* (DbCoordinator.push).
THEOREM StoreAlwaysClosed == Spec => []StoreClosed
<1>1. StoreInv => StoreClosed
  BY DEF StoreInv
<1> QED
  BY <1>1, StoreStarts, NextKeepsStore, PTL DEF Spec

------------------------------------------------------------------------------
(* PullInv: what pulls keep up.                                            *)

PullShape ==
    /\ dest \in [Dirs -> Files \cup {Absent}] /\ tmp \in [Dirs -> Files \cup {Absent}]
    /\ at \in [Jvms -> Phase]
    /\ pull \in [Jvms -> Pulls]
    /\ crossed \in [Dirs -> BOOLEAN] /\ latest \in [Dirs -> Versions \cup {None}]

\* One JVM at a time pulls into a directory.
PullsAlone ==
    \A i, j \in Jvms :
        /\ DirOf[i] = DirOf[j] /\ ~crossed[DirOf[i]]
        /\ at[i] \in Syncing \ {"pull"} /\ at[j] \in Syncing \ {"pull"}
        => i = j

\* What is pulled is in the store.
PullsStored ==
    \A j \in Jvms :
        at[j] \in {"pull", "write", "install"} => pull[j].version \in Versions \cap store

\* The file f of version v is where it should be, if there is such a file.
In(d, v, f) == Content[v][f] # None => d[f] = Content[v][f]

\* The directory next to the configuration fills up; once it is full, there
\* is room for it.
Filled ==
    \A j \in Jvms :
        LET h == DirOf[j]
        IN ~crossed[h] =>
             /\ at[j] = "write" =>
                  /\ pull[j].into = "tmp" /\ tmp[h] # Absent
                  /\ \A f \in Paths \ pull[j].files : In(tmp[h], pull[j].version, f)
             /\ at[j] = "install" =>
                  /\ dest[h] \in {Absent, Nothing} /\ tmp[h] # Absent
                  /\ \A f \in Paths : In(tmp[h], pull[j].version, f)

\* A configuration is away only while it is being replaced.
Replaced ==
    \A h \in Dirs :
        ~crossed[h] /\ dest[h] = Absent => \E j \in Jvms : DirOf[j] = h /\ at[j] = "install"

PullInv ==
    PullShape /\ PullsAlone /\ PullsStored /\ Filled /\ Replaced /\ DirHasVersion

\* An empty directory is one.
LEMMA NothingIsNotAbsent == Nothing \in Files /\ Nothing # Absent
<1>1. DOMAIN Nothing = Paths /\ Global \in Paths
  BY DEF Nothing
<1>2. DOMAIN Absent = {}
  BY DEF Absent
<1> QED
  BY <1>1, <1>2 DEF Nothing, Files

\* At first nobody pulls, and no version has been put anywhere.
LEMMA PullStarts == Init => PullInv
<1> SUFFICES ASSUME Init PROVE PullInv
  OBVIOUS
<1> USE DEF Init
<1>1. PullShape
  BY NothingIsNotAbsent DEF PullShape, NoPull, Pulls, Phase
<1>2. \A j \in Jvms : at[j] \in {"idle", "off"}
  OBVIOUS
<1>3. Replaced /\ DirHasVersion
  BY NothingIsNotAbsent DEF Replaced, DirHasVersion
<1> QED
  BY <1>1, <1>2, <1>3 DEF PullInv, PullsAlone, PullsStored, Filled, Syncing

\* Directories that stay as they are keep their version.
LEMMA SameDirs ==
  ASSUME DirHasVersion,
         \A h \in Dirs : ~crossed'[h] =>
            ~crossed[h] /\ dest'[h] = dest[h] /\ latest'[h] = latest[h],
         \A i \in Jvms : at'[i] = "install" <=> at[i] = "install"
  PROVE  DirHasVersion'
<1> SUFFICES ASSUME NEW h \in Dirs, latest'[h] # None, ~crossed'[h],
                    \A i \in Jvms : DirOf[i] = h => at'[i] # "install"
             PROVE  \/ dest'[h] = Nothing
                    \/ \A f \in Paths : Content[latest'[h]][f] # None
                          => dest'[h] # Absent /\ dest'[h][f] = Content[latest'[h]][f]
  BY DEF DirHasVersion
<1>1. \A i \in Jvms : DirOf[i] = h => at[i] # "install"
  OBVIOUS
<1>2. ~crossed[h] /\ dest'[h] = dest[h] /\ latest'[h] = latest[h]
  OBVIOUS
<1> QED
  BY <1>1, <1>2 DEF DirHasVersion

\* Changing a field of a pull gives a pull.
LEMMA PullTyped ==
  \A r \in Pulls :
     /\ \A v \in Versions \cup {None} : [r EXCEPT !.version = v] \in Pulls
     /\ \A S \in SUBSET Paths : [r EXCEPT !.files = S] \in Pulls
  BY DEF Pulls

\* Nothing happens to directories, and one JVM goes on, but not to a pull
\* nor from between the renames.
LEMMA QuietKeepsPull ==
  ASSUME NEW j \in Jvms, PullInv, PullShape',
         UNCHANGED <<dest, tmp, crossed, latest, store>>,
         \A i \in Jvms \ {j} : at'[i] = at[i] /\ pull'[i] = pull[i],
         at[j] # "install", at'[j] \notin {"pull", "write", "install"},
         at'[j] \in Syncing => at[j] \in Syncing \ {"pull"}
  PROVE  PullInv'
<1> USE DEF PullInv
<1>1. PullsAlone'
  BY DEF PullsAlone
<1>2. PullsStored'
  BY DEF PullsStored
<1>3. Filled'
  BY DEF Filled, In
<1>4. Replaced'
  BY DEF Replaced
<1>5. DirHasVersion'
  BY SameDirs
<1> QED
  BY <1>1, <1>2, <1>3, <1>4, <1>5

\* The store only grows.
LEMMA PushKeepsPull ==
  ASSUME NEW p \in Pushers, PullInv, PushStep(p) \/ PushAborts(p),
         UNCHANGED <<dest, tmp, memory, at, domain, crossed, latest>>
  PROVE  PullInv'
<1>1. store \subseteq store'
  BY DEF PushStep, PushAborts, Check, StreamFile, StreamClash, CheckTree, StreamTree,
         UpdateTree, InsertTree, AddHistory
<1> QED
  BY <1>1 DEF memory, PullInv, PullShape, PullsAlone, PullsStored, Filled, In, Replaced,
              DirHasVersion

\* The pull begins: alone, and next to the configuration, or else it crosses
\* another one.
LEMMA BeginKeepsPull ==
  ASSUME NEW j \in Jvms, PullInv, BeginPull(j)
  PROVE  PullInv'
<1> DEFINE h == DirOf[j]
<1> USE DEF PullInv, PullShape, BeginPull, Goes
<1>1. h \in Dirs /\ pull[j].version \in Versions \cap store
  BY DEF PullsStored
<1>2. ToWrite(j) \subseteq Paths
  BY DEF ToWrite, FileList
<1>3. PullShape'
  <2>1. at' \in [Jvms -> Phase]
    BY DEF Phase
  <2>2. pull' \in [Jvms -> Pulls]
    <3> DEFINE r == [version |-> pull[j].version, files |-> ToWrite(j),
                     into |-> IF dest[h] = Absent THEN "dest" ELSE "tmp"]
    <3>1. r \in Pulls
      BY <1>1, <1>2 DEF Pulls
    <3>2. pull' = [pull EXCEPT ![j] = r]
      OBVIOUS
    <3> HIDE DEF r
    <3> QED
      BY <3>1, <3>2
  <2>3. dest' \in [Dirs -> Files \cup {Absent}] /\ tmp' \in [Dirs -> Files \cup {Absent}]
    <3>1. CASE dest[h] = Absent
      <4>1. dest' = [dest EXCEPT ![h] = Nothing] /\ tmp' = tmp
        BY <3>1
      <4> HIDE DEF BeginPull, Nothing, Absent
      <4> QED
        BY <4>1, NothingIsNotAbsent
    <3>2. CASE dest[h] # Absent
      <4>1. tmp' = [tmp EXCEPT ![h] = IF tmp[h] = Absent THEN Nothing ELSE tmp[h]]
            /\ dest' = dest
        BY <3>2
      <4> HIDE DEF BeginPull, Nothing, Absent
      <4> QED
        BY <1>1, <4>1, NothingIsNotAbsent
    <3> QED
      BY <3>1, <3>2
  <2>4. crossed' \in [Dirs -> BOOLEAN] /\ latest' \in [Dirs -> Versions \cup {None}]
    BY <1>1
  <2> QED
    BY <2>1, <2>2, <2>3, <2>4
<1>4. ~crossed'[h] => \A i \in Jvms \ {j} : DirOf[i] = h => at[i] \notin Syncing
  BY <1>1
<1>5. \A d \in Dirs : ~crossed'[d] => ~crossed[d]
  BY <1>1
<1>6. ~crossed'[h] => dest[h] # Absent
  BY <1>1, <1>4, <1>5 DEF Replaced, Syncing
<1>7. PullsAlone'
  BY <1>4, <1>5 DEF PullsAlone
<1>8. PullsStored'
  BY <1>1, NothingIsNotAbsent DEF PullsStored, storeVars
<1>9. Filled'
  <2> SUFFICES ASSUME NEW i \in Jvms, ~crossed'[DirOf[i]]
               PROVE  /\ at'[i] = "write" =>
                           /\ pull'[i].into = "tmp" /\ tmp'[DirOf[i]] # Absent
                           /\ \A f \in Paths \ pull'[i].files :
                                 In(tmp'[DirOf[i]], pull'[i].version, f)
                      /\ at'[i] = "install" =>
                           /\ dest'[DirOf[i]] \in {Absent, Nothing}
                           /\ tmp'[DirOf[i]] # Absent
                           /\ \A f \in Paths : In(tmp'[DirOf[i]], pull'[i].version, f)
    BY DEF Filled, In
  <2>1. CASE i = j
    <3>1. at'[j] = "write" /\ pull'[j].into = "tmp" /\ pull'[j].version = pull[j].version
          /\ pull'[j].files = FileList(pull[j].version) /\ tmp'[h] # Absent
      BY <1>1, <1>6, <2>1, NothingIsNotAbsent DEF ToWrite
    <3> QED
      BY <2>1, <3>1 DEF FileList, In
  <2>2. CASE DirOf[i] = h /\ i # j
    BY <1>4, <2>2 DEF Syncing
  <2>3. CASE DirOf[i] # h
    <3>1. dest'[DirOf[i]] = dest[DirOf[i]] /\ tmp'[DirOf[i]] = tmp[DirOf[i]]
          /\ at'[i] = at[i] /\ pull'[i] = pull[i] /\ ~crossed[DirOf[i]]
      BY <1>1, <1>5, <2>3
    <3> QED
      BY <3>1 DEF Filled
  <2> QED
    BY <2>1, <2>2, <2>3
<1>10. \A i \in Jvms : at'[i] = "install" <=> at[i] = "install"
  OBVIOUS
<1>11. \A d \in Dirs : ~crossed'[d] => dest'[d] = dest[d]
  BY <1>1, <1>6
<1>12. Replaced'
  BY <1>5, <1>10, <1>11 DEF Replaced
<1>13. DirHasVersion'
  BY <1>5, <1>10, <1>11, SameDirs
<1> QED
  BY <1>3, <1>7, <1>8, <1>9, <1>12, <1>13

\* The version that is current is in the store.
LEMMA SyncKeepsPull ==
  ASSUME NEW j \in Jvms, StoreInv, PullInv, Sync(j)
  PROVE  PullInv'
<1> USE DEF PullInv, PullShape, Sync, Goes
<1>1. CASE IsBehind(j)
  <2>1. tree \in Versions \cap store /\ pull'[j].version = tree
    <3>1. tree \in Versions \cap store
      BY <1>1 DEF IsBehind, StoreInv, StoreShape, StoreClosed
    <3>2. pull[j] \in Pulls /\ pull'[j] = [pull[j] EXCEPT !.version = tree]
      BY <1>1
    <3> QED
      BY <3>1, <3>2 DEF Pulls
  <2>2. PullShape'
    <3>1. pull[j] \in Pulls /\ pull' = [pull EXCEPT ![j].version = tree]
      BY <1>1
    <3> QED
      BY <1>1, <2>1, <3>1, PullTyped DEF Phase
  <2>3. PullsAlone'
    BY <1>1 DEF PullsAlone
  <2>4. PullsStored'
    BY <1>1, <2>1 DEF PullsStored, storeVars
  <2>5. Filled'
    <3>1. at' = [at EXCEPT ![j] = "pull"] /\ UNCHANGED <<dest, tmp, crossed>>
          /\ \A i \in Jvms \ {j} : pull'[i] = pull[i]
      BY <1>1
    <3> HIDE DEF Sync
    <3> QED
      BY <3>1 DEF Filled, In
  <2>6. \A i \in Jvms : at'[i] = "install" <=> at[i] = "install"
    BY <1>1
  <2>7. Replaced' /\ DirHasVersion'
    BY <2>6, SameDirs DEF Replaced
  <2> QED
    BY <2>2, <2>3, <2>4, <2>5, <2>7
<1>2. CASE ~IsBehind(j)
  <2>1. PullShape'
    BY <1>2 DEF Phase
  <2>2. at' = [at EXCEPT ![j] = "configure"] /\ pull' = pull
        /\ UNCHANGED <<dest, tmp, crossed, latest, store>> /\ at[j] = "idle"
    BY <1>2 DEF storeVars
  <2> QED
    BY <2>1, <2>2, QuietKeepsPull DEF Syncing
<1> QED
  BY <1>1, <1>2

\* A file is written to the directory of its JVM, with what the store has.
LEMMA WriteKeepsPull ==
  ASSUME NEW j \in Jvms, NEW f \in Paths, StoreInv, PullInv, WriteFile(j, f)
  PROVE  PullInv'
<1> DEFINE h == DirOf[j]
           c == Content[pull[j].version][f]
           written == IF c \in store THEN c ELSE None
<1> USE DEF PullInv, PullShape, WriteFile
<1>1. h \in Dirs /\ pull[j].version \in Versions \cap store
      /\ c \in Contents \cup {None} /\ written \in Contents \cup {None}
  BY DEF PullsStored
<1>2. c # None => written = c
  BY <1>1 DEF StoreInv, StoreClosed, Codes
<1>3. \A d \in Files \cup {Absent} :
         /\ With(d, f, written) \in Files
         /\ d # Absent => With(d, f, written) = [d EXCEPT ![f] = written]
  BY <1>1, NothingIsNotAbsent DEF With, Files
<1> HIDE DEF written
<1>4. PullShape'
  <2>1. pull' \in [Jvms -> Pulls]
    <3>1. pull[j] \in Pulls /\ pull' = [pull EXCEPT ![j].files = pull[j].files \ {f}]
      OBVIOUS
    <3>2. pull[j].files \ {f} \in SUBSET Paths
      BY <3>1 DEF Pulls
    <3>3. [pull[j] EXCEPT !.files = pull[j].files \ {f}] \in Pulls
      BY <3>1, <3>2, PullTyped
    <3> QED
      BY <3>1, <3>3
  <2>2. CASE pull[j].into = "dest"
    <3>1. dest' = [dest EXCEPT ![h] = With(dest[h], f, written)] /\ tmp' = tmp
      BY <2>2 DEF written
    <3> QED
      BY <1>1, <1>3, <2>1, <3>1
  <2>3. CASE pull[j].into # "dest"
    <3>1. tmp' = [tmp EXCEPT ![h] = With(tmp[h], f, written)] /\ dest' = dest
      BY <2>3 DEF written
    <3> QED
      BY <1>1, <1>3, <2>1, <3>1
  <2> QED
    BY <2>2, <2>3
<1>5. PullsAlone'
  BY DEF PullsAlone
<1>6. PullsStored'
  BY DEF PullsStored, storeVars
<1>7. ~crossed[h] =>
        /\ pull[j].into = "tmp" /\ tmp[h] # Absent /\ dest' = dest
        /\ tmp' = [tmp EXCEPT ![h] = [tmp[h] EXCEPT ![f] = written]]
  BY <1>1, <1>3 DEF Filled, written
<1>8. \A d \in Dirs : d # h => dest'[d] = dest[d] /\ tmp'[d] = tmp[d]
  BY <1>1
<1>9. Filled'
  <2> SUFFICES ASSUME NEW i \in Jvms, ~crossed[DirOf[i]], at[i] \in {"write", "install"}
               PROVE  /\ at[i] = "write" =>
                           /\ pull'[i].into = "tmp" /\ tmp'[DirOf[i]] # Absent
                           /\ \A g \in Paths \ pull'[i].files :
                                 In(tmp'[DirOf[i]], pull'[i].version, g)
                      /\ at[i] = "install" =>
                           /\ dest'[DirOf[i]] \in {Absent, Nothing}
                           /\ tmp'[DirOf[i]] # Absent
                           /\ \A g \in Paths : In(tmp'[DirOf[i]], pull'[i].version, g)
    BY DEF Filled, In
  <2>1. CASE i = j
    <3>1. at[j] = "write" /\ pull'[j].version = pull[j].version /\ pull'[j].into = "tmp"
          /\ pull'[j].files = pull[j].files \ {f}
      BY <1>7, <2>1
    <3>2. tmp[h] \in Files /\ tmp'[h] = [tmp[h] EXCEPT ![f] = written]
      BY <1>1, <1>7, <2>1
    <3>3. \A g \in Paths \ pull[j].files : In(tmp[h], pull[j].version, g)
      BY <2>1, <3>1 DEF Filled
    <3>4. tmp'[h] \in Files
      BY <1>1, <3>2 DEF Files, written
    <3>5. \A g \in Paths \ pull'[j].files : In(tmp'[h], pull[j].version, g)
      BY <1>2, <3>1, <3>2, <3>3 DEF In, Files
    <3>6. tmp'[h] # Absent
      <4>1. DOMAIN tmp'[h] = Paths /\ Global \in Paths
        BY <3>4 DEF Files
      <4> QED
        BY <4>1 DEF Absent
    <3> QED
      BY <2>1, <3>1, <3>5, <3>6
  <2>2. CASE i # j
    <3>1. DirOf[i] # h
      BY <2>2 DEF PullsAlone, Syncing
    <3>2. tmp'[DirOf[i]] = tmp[DirOf[i]] /\ dest'[DirOf[i]] = dest[DirOf[i]]
          /\ pull'[i] = pull[i]
      BY <1>8, <2>2, <3>1
    <3> QED
      BY <3>2 DEF Filled
  <2> QED
    BY <2>1, <2>2
<1>10. \A d \in Dirs : ~crossed[d] => dest'[d] = dest[d]
  BY <1>7, <1>8
<1>11. Replaced'
  BY <1>10 DEF Replaced
<1>12. DirHasVersion'
  BY <1>10, SameDirs
<1> QED
  BY <1>4, <1>5, <1>6, <1>9, <1>11, <1>12

\* The configuration is renamed away: the directory next to it is full.
LEMMA SwapOutKeepsPull ==
  ASSUME NEW j \in Jvms, PullInv, SwapOut(j)
  PROVE  PullInv'
<1> DEFINE h == DirOf[j]
<1>1. /\ at[j] = "write" /\ pull[j].files = {} /\ pull' = pull /\ h \in Dirs
      /\ dest' = [dest EXCEPT ![h] = Absent] /\ at' = [at EXCEPT ![j] = "install"]
      /\ UNCHANGED <<tmp, crossed, latest, store>>
  BY DEF SwapOut, Goes, memory, storeVars
<1> USE DEF PullInv, PullShape
<1>2. PullShape'
  BY <1>1 DEF Phase
<1>3. PullsAlone' /\ PullsStored'
  BY <1>1 DEF PullsAlone, PullsStored, Syncing
<1>4. \A i \in Jvms \ {j} : DirOf[i] = h /\ ~crossed[h] => at[i] \notin {"write", "install"}
  BY <1>1 DEF PullsAlone, Syncing
<1>5. Filled'
  <2> SUFFICES ASSUME NEW i \in Jvms, ~crossed[DirOf[i]]
               PROVE  /\ at'[i] = "write" =>
                           /\ pull[i].into = "tmp" /\ tmp[DirOf[i]] # Absent
                           /\ \A g \in Paths \ pull[i].files :
                                 In(tmp[DirOf[i]], pull[i].version, g)
                      /\ at'[i] = "install" =>
                           /\ dest'[DirOf[i]] \in {Absent, Nothing}
                           /\ tmp[DirOf[i]] # Absent
                           /\ \A g \in Paths : In(tmp[DirOf[i]], pull[i].version, g)
    BY <1>1 DEF Filled, In
  <2>1. CASE i = j
    BY <1>1, <2>1 DEF Filled
  <2>2. CASE i # j /\ DirOf[i] = h
    BY <1>1, <1>4, <2>2
  <2>3. CASE DirOf[i] # h
    BY <1>1, <2>3 DEF Filled
  <2> QED
    BY <2>1, <2>2, <2>3
<1>6. Replaced'
  <2> SUFFICES ASSUME NEW d \in Dirs, ~crossed[d], dest'[d] = Absent
               PROVE  \E i \in Jvms : DirOf[i] = d /\ at'[i] = "install"
    BY <1>1 DEF Replaced
  <2>1. CASE d = h
    BY <1>1, <2>1
  <2>2. CASE d # h
    <3>1. PICK i \in Jvms : DirOf[i] = d /\ at[i] = "install"
      BY <1>1, <2>2 DEF Replaced
    <3> QED
      BY <1>1, <2>2, <3>1
  <2> QED
    BY <2>1, <2>2
<1>7. DirHasVersion'
  <2> SUFFICES ASSUME NEW d \in Dirs, latest[d] # None, ~crossed[d],
                      \A i \in Jvms : DirOf[i] = d => at'[i] # "install"
               PROVE  \/ dest'[d] = Nothing
                      \/ \A f \in Paths : Content[latest[d]][f] # None
                            => dest'[d] # Absent /\ dest'[d][f] = Content[latest[d]][f]
    BY <1>1 DEF DirHasVersion
  <2>1. d # h
    BY <1>1
  <2>2. \A i \in Jvms : DirOf[i] = d => at[i] # "install"
    BY <1>1, <2>1
  <2> QED
    BY <1>1, <2>1, <2>2 DEF DirHasVersion
<1> QED
  BY <1>2, <1>3, <1>5, <1>6, <1>7

\* The full directory takes the place of the configuration.
LEMMA SwapInKeepsPull ==
  ASSUME NEW j \in Jvms, PullInv, SwapIn(j)
  PROVE  PullInv'
<1> DEFINE h == DirOf[j]
           v == pull[j].version
<1>1. /\ at[j] = "install" /\ pull' = pull /\ h \in Dirs
      /\ \/ dest' = [dest EXCEPT ![h] = tmp[h]] /\ tmp' = [tmp EXCEPT ![h] = Absent]
         \/ dest' = dest /\ tmp' = tmp /\ ~(tmp[h] # Absent /\ dest[h] \in {Absent, Nothing})
      /\ latest' = [latest EXCEPT ![h] = v] /\ at' = [at EXCEPT ![j] = "record"]
      /\ UNCHANGED <<crossed, store>>
  BY DEF SwapIn, Goes, memory, storeVars
<1> USE DEF PullInv, PullShape
<1>2. v \in Versions
  BY <1>1 DEF PullsStored
<1>3. PullShape'
  BY <1>1, <1>2 DEF Phase
<1>4. PullsAlone' /\ PullsStored'
  BY <1>1 DEF PullsAlone, PullsStored, Syncing
<1>5. \A i \in Jvms \ {j} : DirOf[i] = h /\ ~crossed[h] => at[i] \notin {"write", "install"}
  BY <1>1 DEF PullsAlone, Syncing
<1>6. ~crossed[h] =>
        /\ dest' = [dest EXCEPT ![h] = tmp[h]] /\ tmp[h] # Absent
        /\ \A f \in Paths : In(tmp[h], v, f)
  BY <1>1 DEF Filled
<1>7. \A d \in Dirs \ {h} : dest'[d] = dest[d] /\ tmp'[d] = tmp[d] /\ latest'[d] = latest[d]
  BY <1>1
<1>8. Filled'
  <2> SUFFICES ASSUME NEW i \in Jvms, ~crossed[DirOf[i]], at'[i] \in {"write", "install"}
               PROVE  /\ at'[i] = "write" =>
                           /\ pull[i].into = "tmp" /\ tmp'[DirOf[i]] # Absent
                           /\ \A g \in Paths \ pull[i].files :
                                 In(tmp'[DirOf[i]], pull[i].version, g)
                      /\ at'[i] = "install" =>
                           /\ dest'[DirOf[i]] \in {Absent, Nothing}
                           /\ tmp'[DirOf[i]] # Absent
                           /\ \A g \in Paths : In(tmp'[DirOf[i]], pull[i].version, g)
    BY <1>1 DEF Filled, In
  <2>1. i # j /\ at[i] = at'[i]
    BY <1>1
  <2>2. DirOf[i] \in Dirs \ {h}
    BY <1>5, <2>1
  <2> QED
    BY <1>7, <2>1, <2>2 DEF Filled
<1>9. Replaced'
  <2> SUFFICES ASSUME NEW d \in Dirs, ~crossed[d], dest'[d] = Absent
               PROVE  \E i \in Jvms : DirOf[i] = d /\ at'[i] = "install"
    BY <1>1 DEF Replaced
  <2>1. d # h
    BY <1>6
  <2>2. PICK i \in Jvms : DirOf[i] = d /\ at[i] = "install"
    BY <1>7, <2>1 DEF Replaced
  <2> QED
    BY <1>1, <2>1, <2>2
<1>10. DirHasVersion'
  <2> SUFFICES ASSUME NEW d \in Dirs, latest'[d] # None, ~crossed[d],
                      \A i \in Jvms : DirOf[i] = d => at'[i] # "install"
               PROVE  \/ dest'[d] = Nothing
                      \/ \A f \in Paths : Content[latest'[d]][f] # None
                            => dest'[d] # Absent /\ dest'[d][f] = Content[latest'[d]][f]
    BY <1>1 DEF DirHasVersion
  <2>1. CASE d = h
    <3>1. dest'[d] = tmp[h] /\ latest'[d] = v
      BY <1>1, <1>6, <2>1
    <3> QED
      BY <1>6, <2>1, <3>1 DEF In
  <2>2. CASE d # h
    <3>1. \A i \in Jvms : DirOf[i] = d => at[i] # "install"
      BY <1>1, <2>2
    <3>2. dest'[d] = dest[d] /\ latest'[d] = latest[d]
      BY <1>7, <2>2
    <3> QED
      BY <3>1, <3>2 DEF DirHasVersion
  <2> QED
    BY <2>1, <2>2
<1> QED
  BY <1>3, <1>4, <1>8, <1>9, <1>10

\* A pull in the place of the configuration has crossed another one.
LEMMA InPlaceKeepsPull ==
  ASSUME NEW j \in Jvms, PullInv, PulledInPlace(j)
  PROVE  PullInv'
<1> DEFINE h == DirOf[j]
<1>1. /\ at[j] = "write" /\ pull[j].into = "dest" /\ h \in Dirs
      /\ latest' = [latest EXCEPT ![h] = pull[j].version]
      /\ at' = [at EXCEPT ![j] = "record"]
      /\ UNCHANGED <<dest, tmp, pull, crossed, store>>
  BY DEF PulledInPlace, Goes, memory, storeVars
<1> USE DEF PullInv, PullShape
<1>2. crossed[h]
  BY <1>1 DEF Filled
<1>3. pull[j].version \in Versions
  BY <1>1 DEF PullsStored
<1>4. PullShape'
  BY <1>1, <1>3 DEF Phase
<1>5. PullsAlone' /\ PullsStored'
  BY <1>1 DEF PullsAlone, PullsStored, Syncing
<1>6. Filled'
  BY <1>1 DEF Filled, In
<1>7. \A i \in Jvms : at'[i] = "install" <=> at[i] = "install"
  BY <1>1
<1>8. Replaced' /\ DirHasVersion'
  BY <1>1, <1>2, <1>7, SameDirs DEF Replaced
<1> QED
  BY <1>4, <1>5, <1>6, <1>8

\* A restart makes sure of a directory: if the old JVM died between the
\* renames, the configuration starts over empty.
LEMMA RestartKeepsPull ==
  ASSUME NEW j \in Jvms, PullInv, Restart(j)
  PROVE  PullInv'
<1> DEFINE h == DirOf[j]
<1>1. /\ h \in Dirs
      /\ dest' = [dest EXCEPT ![h] = IF dest[h] = Absent THEN Nothing ELSE dest[h]]
      /\ pull' = [pull EXCEPT ![j] = NoPull] /\ at' = [at EXCEPT ![j] = "idle"]
      /\ UNCHANGED <<tmp, crossed, latest, store>>
  BY DEF Restart, Goes, storeVars
<1>2. NoPull \in Pulls
  BY DEF NoPull, Pulls
<1> USE DEF PullInv, PullShape
<1>3. PullShape'
  BY <1>1, <1>2, NothingIsNotAbsent DEF Phase
<1>4. PullsAlone' /\ PullsStored'
  BY <1>1 DEF PullsAlone, PullsStored, Syncing
<1>5. \A d \in Dirs : dest'[d] = dest[d] \/ (dest[d] = Absent /\ dest'[d] = Nothing)
  BY <1>1
<1>6. Filled'
  BY <1>1, <1>5 DEF Filled, In
<1>7. dest'[h] # Absent
  BY <1>1, NothingIsNotAbsent
<1>8. \A d \in Dirs \ {h} : dest'[d] = dest[d]
  BY <1>1
<1>9. Replaced'
  <2> SUFFICES ASSUME NEW d \in Dirs, ~crossed[d], dest'[d] = Absent
               PROVE  \E i \in Jvms : DirOf[i] = d /\ at'[i] = "install"
    BY <1>1 DEF Replaced
  <2>1. d # h
    BY <1>7
  <2>2. PICK i \in Jvms : DirOf[i] = d /\ at[i] = "install"
    BY <1>8, <2>1 DEF Replaced
  <2> QED
    BY <1>1, <2>1, <2>2
<1>10. DirHasVersion'
  <2> SUFFICES ASSUME NEW d \in Dirs, latest[d] # None, ~crossed[d],
                      \A i \in Jvms : DirOf[i] = d => at'[i] # "install"
               PROVE  \/ dest'[d] = Nothing
                      \/ \A f \in Paths : Content[latest[d]][f] # None
                            => dest'[d] # Absent /\ dest'[d][f] = Content[latest[d]][f]
    BY <1>1 DEF DirHasVersion
  <2>1. CASE dest'[d] # dest[d]
    BY <1>5, <2>1
  <2>2. CASE dest'[d] = dest[d] /\ \A i \in Jvms : DirOf[i] = d => at[i] # "install"
    BY <2>2 DEF DirHasVersion
  <2>3. CASE dest'[d] = dest[d] /\ \E i \in Jvms : DirOf[i] = d /\ at[i] = "install"
    <3>1. DirOf[j] = d /\ at[j] = "install"
      BY <1>1, <2>3
    <3>2. dest[d] \in {Absent, Nothing}
      BY <3>1 DEF Filled
    <3> QED
      BY <1>7, <2>3, <3>1, <3>2
  <2> QED
    BY <2>1, <2>2, <2>3
<1> QED
  BY <1>3, <1>4, <1>6, <1>9, <1>10

\* What a JVM does once its pull is over, and a pull that fails.
LEMMA RestKeepsPull ==
  ASSUME NEW j \in Jvms, PullInv,
         \/ Record(j) \/ Refreshed(j)
         \/ \E f \in todo[j] : Refresh(j, f) \/ RefreshFails(j, f)
         \/ GetGlobalConfig(j) \/ NoGlobalConfig(j) \/ DomainStep(j) \/ PullFails(j)
  PROVE  PullInv'
<1>1. NoPull \in Pulls
  BY DEF NoPull, Pulls
<1>2. ASSUME NEW phase \in Phase \ {"pull", "write", "install"},
             at' = [at EXCEPT ![j] = phase],
             \/ pull' = pull \/ pull' = [pull EXCEPT ![j] = NoPull],
             at[j] # "install", phase \in Syncing => at[j] \in Syncing \ {"pull"},
             UNCHANGED <<dest, tmp, crossed, latest, store>>
      PROVE  PullInv'
  <2>1. PullShape'
    BY <1>1, <1>2 DEF PullInv, PullShape
  <2>2. at'[j] = phase /\ \A i \in Jvms \ {j} : at'[i] = at[i] /\ pull'[i] = pull[i]
    BY <1>2 DEF PullInv, PullShape
  <2> QED
    BY <1>2, <2>1, <2>2, QuietKeepsPull
<1>3. CASE Record(j)
  BY <1>2, <1>3 DEF Record, Goes, storeVars, Phase, Syncing
<1>4. CASE PullFails(j)
  <2>1. PICK phase \in {"off", "idle"} : at' = [at EXCEPT ![j] = phase]
    BY <1>4 DEF PullFails, Goes
  <2> QED
    BY <1>2, <1>4, <2>1 DEF PullFails, storeVars, Phase, Syncing
<1>5. CASE (\E f \in todo[j] : RefreshFails(j, f)) \/ Refreshed(j) \/ GetGlobalConfig(j) \/ NoGlobalConfig(j)
  <2>1. PICK phase \in {"off", "idle", "configure", "load"} :
           at' = [at EXCEPT ![j] = phase]
    BY <1>5 DEF RefreshFails, Refreshed, GetGlobalConfig, NoGlobalConfig, Goes
  <2>2. pull' = pull /\ at[j] \in {"refresh", "configure"}
        /\ UNCHANGED <<dest, tmp, crossed, latest, store>>
    BY <1>5 DEF RefreshFails, Refreshed, GetGlobalConfig, NoGlobalConfig, memory, storeVars
  <2> QED
    BY <1>2, <2>1, <2>2 DEF Phase, Syncing
<1>6. CASE LoadDomains(j) \/ EndBeat(j)
  BY <1>2, <1>6 DEF LoadDomains, EndBeat, Goes, memory, storeVars, Phase, Syncing
<1>7. ASSUME NEW d, InsertDomain(j, d)
      PROVE  PullInv'
  <2>1. PICK phase \in {"domains", "idle"} : at' = [at EXCEPT ![j] = phase]
    BY <1>7 DEF InsertDomain, Goes, PullInv, PullShape
  <2> QED
    BY <1>2, <1>7, <2>1 DEF InsertDomain, storeVars, Phase, Syncing
<1>8. CASE (\E f \in todo[j] : Refresh(j, f)) \/ \E u \in plan[j].update : UpdateDomain(j, u)
  <2>1. at' = at /\ pull' = pull /\ at[j] # "install"
        /\ UNCHANGED <<dest, tmp, crossed, latest, store>>
    BY <1>8 DEF Refresh, UpdateDomain, storeVars
  <2> QED
    BY <2>1 DEF PullInv, PullShape, PullsAlone, PullsStored, Filled, In, Replaced,
                DirHasVersion
<1> QED
  BY <1>3, <1>4, <1>5, <1>6, <1>7, <1>8 DEF DomainStep

\* Every step of the program keeps PullInv.
LEMMA NextKeepsPull == StoreInv /\ PullInv /\ [Next]_vars => PullInv'
<1> SUFFICES ASSUME StoreInv, PullInv, [Next]_vars PROVE PullInv'
  OBVIOUS
<1>1. CASE UNCHANGED vars
  BY <1>1 DEF vars, syncVars, storeVars, memory, PullInv, PullShape, PullsAlone,
              PullsStored, Filled, In, Replaced, DirHasVersion
<1>2. ASSUME NEW p \in Pushers, (PushStep(p) /\ UNCHANGED syncVars) \/ PushBreaksOff(p)
      PROVE  PullInv'
  BY <1>2, PushKeepsPull DEF syncVars, PushBreaksOff
<1>3. ASSUME NEW j \in Jvms, SyncStep(j) \/ DomainStep(j) \/ PullFails(j) \/ Restart(j)
      PROVE  PullInv'
  <2>1. CASE \E f \in pull[j].files : WriteFile(j, f)
    <3>1. pull[j].files \subseteq Paths
      BY DEF PullInv, PullShape, Pulls
    <3> QED
      BY <2>1, <3>1, WriteKeepsPull
  <2> QED
    BY <1>3, <2>1, SyncKeepsPull, BeginKeepsPull, SwapOutKeepsPull, SwapInKeepsPull,
       InPlaceKeepsPull, RestKeepsPull, RestartKeepsPull DEF SyncStep
<1> QED
  BY <1>1, <1>2, <1>3 DEF Next

\* For any JVMs, directories, versions and files: a configuration directory
\* has every file of the version put there last, or is empty, wherever pulls
\* were cut short, unless two JVMs pulled into it at once
\* (DbCoordinator.pull).
THEOREM DirAlwaysHasVersion == Spec => []DirHasVersion
<1>1. Init => StoreInv /\ PullInv
  BY StoreStarts, PullStarts
<1>2. StoreInv /\ PullInv /\ [Next]_vars => (StoreInv /\ PullInv)'
  BY NextKeepsStore, NextKeepsPull
<1>3. StoreInv /\ PullInv => DirHasVersion
  BY DEF PullInv
<1> QED
  BY <1>1, <1>2, <1>3, PTL DEF Spec

------------------------------------------------------------------------------
(* The types of what the JVMs remember and of NN_DOMAIN.                   *)

DomainState == {"none", "UP", "DEJA_VU"}
Plans == [insert : SUBSET Domains, update : SUBSET (Domains \X {"UP", "DEJA_VU"})]

MemoryShape ==
    /\ history \in Seq(Versions)
    /\ config \in [Jvms -> Versions \cup {None}]
    /\ loaded \in [Jvms -> Files] /\ active \in [Jvms -> Files]
    /\ todo \in [Jvms -> SUBSET Paths]
    /\ domain \in [Domains -> DomainState]
    /\ plan \in [Jvms -> Plans]
    /\ aborts \in Nat

\* What is read of a file, and what a template is made from, is a content.
LEMMA ReadTyped ==
  ASSUME PullShape, MemoryShape, NEW j \in Jvms, NEW f \in Paths
  PROVE  /\ Read(j, f) \in Contents \cup {None}
         /\ Template(j, f) \in Contents \cup {None}
<1>1. DirOf[j] \in Dirs /\ dest[DirOf[j]] \in Files \cup {Absent}
  BY DEF PullShape
<1>2. dest[DirOf[j]] # Absent => dest[DirOf[j]][f] \in Contents \cup {None}
  BY <1>1 DEF Files
<1>3. Read(j, f) \in Contents \cup {None}
  BY <1>2 DEF Read
<1>4. loaded[j][f] \in Contents \cup {None}
  BY DEF MemoryShape, Files
<1> QED
  BY <1>3, <1>4 DEF Template

\* Loading the global configuration keeps the types of what is loaded.
LEMMA LoadTyped ==
  ASSUME PullShape, MemoryShape, NEW j \in Jvms, CanLoadGlobal(j), LoadGlobal(j)
  PROVE  loaded' \in [Jvms -> Files] /\ active' \in [Jvms -> Files]
<1>1. PICK g \in Contents : g = Read(j, Global)
  BY ReadTyped DEF CanLoadGlobal
<1>0. Listed[g] \subseteq Paths \ {Global}
  OBVIOUS
<1> DEFINE L == [f \in Paths |-> CASE f = Global -> g
                                   [] f \in Listed[g] -> Template(j, f)
                                   [] OTHER -> loaded[j][f]]
           A == [f \in Paths |-> IF f \in Listed[g] THEN Template(j, f) ELSE None]
<1>2. loaded' = [loaded EXCEPT ![j] = L] /\ active' = [active EXCEPT ![j] = A]
  BY <1>1 DEF LoadGlobal
<1>3. \A f \in Paths : /\ Template(j, f) \in Contents \cup {None}
                       /\ loaded[j][f] \in Contents \cup {None}
  BY ReadTyped DEF MemoryShape, Files
<1>4. L \in Files
  <2>1. ASSUME NEW f \in Paths PROVE L[f] \in Contents \cup {None}
    <3>1. CASE f = Global
      BY <1>0, <3>1
    <3>2. CASE f # Global /\ f \in Listed[g]
      BY <1>3, <3>2
    <3>3. CASE f # Global /\ f \notin Listed[g]
      BY <1>3, <3>3
    <3> QED
      BY <3>1, <3>2, <3>3
  <2> QED
    BY <2>1 DEF Files
<1>5. A \in Files
  BY <1>3 DEF Files
<1> HIDE DEF L, A
<1> QED
  BY <1>2, <1>4, <1>5 DEF MemoryShape

\* A plan of which a part is done is a plan.
LEMMA PlansTyped ==
  \A r \in Plans : /\ \A d : [r EXCEPT !.insert = @ \ {d}] \in Plans
                  /\ \A u : [r EXCEPT !.update = @ \ {u}] \in Plans
  BY DEF Plans

\* At first nothing is loaded.
LEMMA MemoryStarts == Init => MemoryShape
<1> SUFFICES ASSUME Init PROVE MemoryShape
  OBVIOUS
<1>1. PICK S \in Starts : StoreInit(S.pushers, S.pushed) /\ aborts = S.aborts
  BY DEF Init
<1>2. S.pushed \in Versions \cup {None} /\ S.aborts \in Nat
  OBVIOUS
<1>3. history \in Seq(Versions)
  BY <1>1, <1>2 DEF StoreInit
<1>4. Nothing \in Files /\ NoPlan \in Plans
  BY DEF Nothing, Files, NoPlan, Plans
<1> QED
  BY <1>1, <1>2, <1>3, <1>4 DEF Init, MemoryShape, DomainState

\* Pushes add to the history only.
LEMMA PushKeepsMemory ==
  ASSUME NEW p \in Pushers, MemoryShape,
         (PushStep(p) /\ UNCHANGED syncVars) \/ PushBreaksOff(p)
  PROVE  MemoryShape'
<1>1. aborts' \in Nat /\ UNCHANGED <<memory, domain>>
  BY DEF syncVars, PushBreaksOff, MemoryShape
<1>2. history' \in Seq(Versions)
  <2>1. CASE AddHistory(p)
    BY <2>1 DEF AddHistory, MemoryShape
  <2>2. CASE ~AddHistory(p)
    BY <2>2 DEF PushStep, PushBreaksOff, PushAborts, Check, StreamFile, StreamClash,
                CheckTree, StreamTree, UpdateTree, InsertTree, MemoryShape
  <2> QED
    BY <2>1, <2>2
<1> QED
  BY <1>1, <1>2 DEF MemoryShape, memory

\* So does what a JVM does before it has its configuration,
LEMMA PullKeepsMemory ==
  ASSUME NEW j \in Jvms, PullShape, MemoryShape,
         \/ Sync(j) \/ BeginPull(j) \/ (\E f \in pull[j].files : WriteFile(j, f))
         \/ SwapOut(j) \/ SwapIn(j) \/ PulledInPlace(j) \/ Record(j) \/ PullFails(j)
  PROVE  MemoryShape'
<1>1. UNCHANGED <<history, loaded, active, plan, domain>>
  BY DEF Sync, BeginPull, WriteFile, SwapOut, SwapIn, PulledInPlace, Record, PullFails,
         memory, storeVars
<1>2. aborts' \in Nat
  BY DEF Sync, BeginPull, WriteFile, SwapOut, SwapIn, PulledInPlace, Record, PullFails,
         MemoryShape
<1>3. CASE Record(j)
  <2>1. pull[j].version \in Versions \cup {None}
    BY DEF PullShape, Pulls
  <2>2. ToRefresh(j) \in SUBSET Paths
    BY DEF ToRefresh
  <2>3. config' \in [Jvms -> Versions \cup {None}] /\ todo' \in [Jvms -> SUBSET Paths]
    BY <1>3, <2>1, <2>2 DEF Record, MemoryShape
  <2> QED
    BY <1>1, <1>2, <2>3 DEF MemoryShape
<1>4. CASE ~Record(j)
  <2>1. UNCHANGED <<config, todo>>
    BY <1>4 DEF Sync, BeginPull, WriteFile, SwapOut, SwapIn, PulledInPlace, PullFails,
                memory
  <2> QED
    BY <1>1, <1>2, <2>1 DEF MemoryShape
<1> QED
  BY <1>3, <1>4

\* and what it does to make its objects from it,
LEMMA LoadKeepsMemory ==
  ASSUME NEW j \in Jvms, PullShape, MemoryShape,
         \/ (\E f \in todo[j] : Refresh(j, f) \/ RefreshFails(j, f)) \/ Refreshed(j)
         \/ GetGlobalConfig(j) \/ NoGlobalConfig(j)
  PROVE  MemoryShape'
<1>1. UNCHANGED <<history, config, plan, domain, aborts>>
  BY DEF Refresh, RefreshFails, Refreshed, GetGlobalConfig, NoGlobalConfig, memory, storeVars
<1>2. todo' \in [Jvms -> SUBSET Paths]
  BY DEF Refresh, RefreshFails, Refreshed, GetGlobalConfig, NoGlobalConfig, memory, MemoryShape
<1>3. loaded' \in [Jvms -> Files] /\ active' \in [Jvms -> Files]
  <2>1. ASSUME NEW f \in todo[j], Refresh(j, f), f # Global
        PROVE  loaded' \in [Jvms -> Files] /\ active' \in [Jvms -> Files]
    <3>1. f \in Paths
      BY DEF MemoryShape
    <3>2. PICK c \in Contents \cup {None} : c = Read(j, f)
      BY <3>1, ReadTyped
    <3>3. loaded' = [loaded EXCEPT ![j][f] = c] /\ active' = active
      BY <2>1, <3>2 DEF Refresh
    <3>4. [loaded[j] EXCEPT ![f] = c] \in Files
      BY <3>1 DEF MemoryShape, Files
    <3> QED
      BY <3>3, <3>4 DEF MemoryShape
  <2>2. CASE CanLoadGlobal(j) /\ LoadGlobal(j)
    BY <2>2, LoadTyped
  <2>3. CASE LoadGlobalFails(j)
    <3>1. PICK S : loaded' = [loaded EXCEPT ![j] = [f \in Paths |->
                                 IF f \in S THEN Template(j, f) ELSE loaded[j][f]]]
      BY <2>3 DEF LoadGlobalFails
    <3>2. [f \in Paths |-> IF f \in S THEN Template(j, f) ELSE loaded[j][f]] \in Files
      BY ReadTyped DEF MemoryShape, Files
    <3>3. active' = active
      BY <2>3 DEF LoadGlobalFails
    <3> QED
      BY <3>1, <3>2, <3>3 DEF MemoryShape
  <2>4. CASE UNCHANGED <<loaded, active>>
    BY <2>4 DEF MemoryShape
  <2> QED
    BY <2>1, <2>2, <2>3, <2>4
       DEF Refresh, RefreshFails, Refreshed, GetGlobalConfig, NoGlobalConfig, memory
<1> QED
  BY <1>1, <1>2, <1>3 DEF MemoryShape

\* and what it does to the domains, or a restart.
LEMMA DomainKeepsMemory ==
  ASSUME NEW j \in Jvms, MemoryShape, DomainStep(j) \/ Restart(j)
  PROVE  MemoryShape'
<1> USE DEF MemoryShape
<1>1. CASE LoadDomains(j)
  <2> DEFINE r == [insert |-> {d \in Uses(j) : domain[d] = "none"},
                   update |-> Revived(j) \cup Retired(j)]
  <2>1. r \in Plans
    BY DEF Plans, Uses, Revived, Retired
  <2>2. plan' = [plan EXCEPT ![j] = r]
        /\ UNCHANGED <<history, config, loaded, active, todo, domain, aborts>>
    BY <1>1 DEF LoadDomains, storeVars
  <2> HIDE DEF r
  <2> QED
    BY <2>1, <2>2
<1>2. ASSUME NEW d \in plan[j].insert, InsertDomain(j, d)
      PROVE  MemoryShape'
  <2>1. d \in Domains /\ NoPlan \in Plans
    BY DEF Plans, NoPlan
  <2>2. [plan[j] EXCEPT !.insert = @ \ {d}] \in Plans
    BY PlansTyped
  <2>3. UNCHANGED <<history, config, loaded, active, todo, aborts>>
    BY <1>2 DEF InsertDomain, storeVars
  <2>4. domain' \in [Domains -> DomainState]
    BY <1>2, <2>1 DEF InsertDomain, DomainState
  <2>5. \/ plan' = [plan EXCEPT ![j] = [plan[j] EXCEPT !.insert = @ \ {d}]]
        \/ plan' = [plan EXCEPT ![j] = NoPlan]
    BY <1>2 DEF InsertDomain
  <2>6. plan' \in [Jvms -> Plans]
    BY <2>1, <2>2, <2>5
  <2> QED
    BY <2>3, <2>4, <2>6
<1>3. ASSUME NEW u \in plan[j].update, UpdateDomain(j, u)
      PROVE  MemoryShape'
  <2>1. u[1] \in Domains /\ u[2] \in DomainState
    BY DEF Plans, DomainState
  <2>2. [plan[j] EXCEPT !.update = @ \ {u}] \in Plans
    BY PlansTyped
  <2>3. UNCHANGED <<history, config, loaded, active, todo, aborts>>
    BY <1>3 DEF UpdateDomain, storeVars
  <2>4. plan' = [plan EXCEPT ![j] = [plan[j] EXCEPT !.update = @ \ {u}]]
        /\ domain' = [domain EXCEPT ![u[1]] = u[2]]
    BY <1>3 DEF UpdateDomain
  <2> QED
    BY <2>1, <2>2, <2>3, <2>4
<1>4. CASE EndBeat(j)
  BY <1>4 DEF EndBeat, memory, storeVars
<1>5. CASE Restart(j)
  <2>1. Nothing \in Files /\ NoPlan \in Plans
    BY DEF Nothing, Files, NoPlan, Plans
  <2> QED
    BY <1>5, <2>1 DEF Restart, storeVars
<1> QED
  BY <1>1, <1>2, <1>3, <1>4, <1>5 DEF DomainStep

\* Every step of the program keeps the types of the memory.
LEMMA NextKeepsMemory == PullInv /\ MemoryShape /\ [Next]_vars => MemoryShape'
<1> SUFFICES ASSUME PullInv, MemoryShape, [Next]_vars PROVE MemoryShape'
  OBVIOUS
<1>1. PullShape
  BY DEF PullInv
<1>2. CASE UNCHANGED vars
  BY <1>2 DEF vars, syncVars, storeVars, memory, MemoryShape
<1>3. ASSUME NEW p \in Pushers, (PushStep(p) /\ UNCHANGED syncVars) \/ PushBreaksOff(p)
      PROVE  MemoryShape'
  BY <1>3, PushKeepsMemory
<1>4. ASSUME NEW j \in Jvms, SyncStep(j) \/ DomainStep(j) \/ PullFails(j) \/ Restart(j)
      PROVE  MemoryShape'
  BY <1>1, <1>4, PullKeepsMemory, LoadKeepsMemory, DomainKeepsMemory DEF SyncStep
<1> QED
  BY <1>2, <1>3, <1>4 DEF Next

\* For any pushers, JVMs, versions and files: every step keeps the store, the
\* directories, NN_DOMAIN and the memory of the JVMs well typed.
THEOREM SyncTypes == Spec => []TypeOK
<1> DEFINE I == StoreInv /\ PullInv /\ MemoryShape
<1>1. Init => I
  BY StoreStarts, PullStarts, MemoryStarts
<1>2. I /\ [Next]_vars => I'
  BY NextKeepsStore, NextKeepsPull, NextKeepsMemory
<1>3. I => TypeOK
  BY DEF StoreInv, StoreShape, PullInv, PullShape, MemoryShape, Plans, DomainState,
         TypeOK, StoreOK
<1> QED
  BY <1>1, <1>2, <1>3, PTL DEF Spec

------------------------------------------------------------------------------
(* NewsInv: how the objects in memory follow the directory, and the        *)
(* directory the versions in NN_TREE.                                      *)

CONSTANT Age \* any order of the versions

AgeOK ==
    /\ Age \in [Versions -> Nat]
    /\ \A v, w \in Versions : Age[v] = Age[w] => v = w

\* Version w is v or comes after it, and has all its files.
Upto(v, w) == Age[v] <= Age[w] /\ FileList(v) \subseteq FileList(w)

\* The hypotheses: versions come in an order, and none takes a file away;
Forward == tree # None => Upto(tree, tree')

\* each has a global.json and the domains that it lists;
Whole ==
    \A v \in Versions :
        LET g == Content[v][Global]
        IN g # None /\ \A d \in Listed[g] : Content[v][d] # None

\* and the map of singletons comes to global.json last.
GlobalIsLast == Order \in Seq(Paths) /\ Order[Len(Order)] = Global

Pulling == {"pull", "write", "install"}

\* What is pulled is on the way from the latest version to the current one.
PullsForward ==
    \A i \in Jvms :
        LET h == DirOf[i]
            v == pull[i].version
        IN ~crossed[h] /\ at[i] \in Pulling =>
             /\ tree # None /\ Upto(v, tree) /\ v # config[i]
             /\ latest[h] # None => Upto(latest[h], v)
             /\ \A k \in Jvms :
                   DirOf[k] = h /\ at[i] # "pull" /\ at[k] = "pull" => Upto(v, pull[k].version)

\* So are the files in the directories, leftovers included.
FilesForward ==
    \A h \in Dirs : ~crossed[h] =>
        /\ latest[h] # None => tree # None /\ Upto(latest[h], tree)
        /\ \A f \in Paths : tmp[h] # Absent /\ tmp[h][f] # None =>
              /\ tree # None /\ f \in FileList(tree)
              /\ \A i \in Jvms :
                    DirOf[i] = h /\ at[i] \in Pulling => f \in FileList(pull[i].version)
        /\ \A f \in Paths : dest[h] # Absent /\ dest[h][f] # None =>
              latest[h] # None /\ f \in FileList(latest[h])

\* From the second rename to the end of the refresh the directory has the
\* version that the JVM is about to remember, or does.
RecordHolds ==
    \A j \in Jvms :
        LET h == DirOf[j]
        IN ~crossed[h] /\ at[j] \in {"record", "refresh"} =>
             /\ latest[h] # None /\ dest[h] # Absent
             /\ \A f \in Paths : In(dest[h], latest[h], f)
             /\ at[j] = "record" => pull[j].version = latest[h] /\ config[j] # latest[h]
             /\ at[j] = "refresh" => config[j] = latest[h]

\* Nothing in memory is ahead of the directory.
MemoryForward ==
    \A j \in Jvms :
        LET h == DirOf[j]
        IN ~crossed[h] =>
             /\ config[j] # None => latest[h] # None /\ Upto(config[j], latest[h])
             /\ \A f \in Paths : loaded[j][f] # None =>
                   latest[h] # None /\ f \in FileList(latest[h])

\* Objects wait for a refresh only while it goes on; and a beat comes to its
\* domains with a global configuration.
TodoHolds ==
    \A j \in Jvms :
        /\ at[j] = "load" => loaded[j][Global] # None
        /\ at[j] # "refresh" => todo[j] = {}
        /\ \A f \in todo[j] : loaded[j][f] # None

Templates(v) ==
    [f \in Paths |-> IF f \in Listed[Content[v][Global]] THEN Content[v][f] ELSE None]

\* The objects of a JVM that remembers the latest version are made from it,
\* except for those still to be refreshed.
UpToDate(j) ==
    /\ \A f \in Paths \ todo[j] :
          Content[config[j]][f] # None => loaded[j][f] \in {None, Content[config[j]][f]}
    /\ Global \notin todo[j] /\ loaded[j][Global] # None => active[j] = Templates(config[j])

MemoryCurrent ==
    \A j \in Jvms :
        ~crossed[DirOf[j]] /\ config[j] # None /\ config[j] = latest[DirOf[j]] => UpToDate(j)

NewsInv ==
    PullsForward /\ FilesForward /\ RecordHolds /\ MemoryForward /\ TodoHolds /\ MemoryCurrent

\* Upto is an order.
LEMMA UptoLaws ==
  ASSUME AgeOK
  PROVE  /\ \A v \in Versions : Upto(v, v)
         /\ \A u, v, w \in Versions : Upto(u, v) /\ Upto(v, w) => Upto(u, w)
         /\ \A v, w \in Versions : Upto(v, w) /\ Upto(w, v) => v = w
<1>1. \A v \in Versions : Age[v] \in Nat
  BY DEF AgeOK
<1>2. \A v \in Versions : Upto(v, v)
  BY <1>1 DEF Upto
<1>3. ASSUME NEW u \in Versions, NEW v \in Versions, NEW w \in Versions,
             Upto(u, v), Upto(v, w)
      PROVE  Upto(u, w)
  <2>1. Age[u] <= Age[w]
    BY <1>1, <1>3 DEF Upto
  <2>2. FileList(u) \subseteq FileList(w)
    BY <1>3 DEF Upto
  <2> QED
    BY <2>1, <2>2 DEF Upto
<1>4. ASSUME NEW v \in Versions, NEW w \in Versions, Upto(v, w), Upto(w, v)
      PROVE  v = w
  <2>1. Age[v] <= Age[w] /\ Age[w] <= Age[v] /\ Age[v] \in Nat /\ Age[w] \in Nat
    BY <1>1, <1>4 DEF Upto
  <2>2. \A m, n \in Nat : m <= n /\ n <= m => m = n
    OBVIOUS
  <2>3. Age[v] = Age[w]
    BY <2>1, <2>2
  <2> QED
    BY <2>3 DEF AgeOK
<1> QED
  BY <1>2, <1>3, <1>4

\* At first there is nothing to be ahead or behind.
LEMMA NewsStarts == Init => NewsInv
<1> SUFFICES ASSUME Init PROVE NewsInv
  OBVIOUS
<1>1. \A j \in Jvms :
         /\ at[j] \in {"idle", "off"} /\ todo[j] = {} /\ config[j] = None
         /\ \A f \in Paths : loaded[j][f] = None
  BY DEF Init, Nothing
<1>2. \A h \in Dirs :
         tmp[h] = Absent /\ latest[h] = None /\ \A f \in Paths : dest[h][f] = None
  BY DEF Init, Nothing
<1>3. PullsForward /\ FilesForward /\ RecordHolds
  BY <1>1, <1>2 DEF PullsForward, FilesForward, RecordHolds, Pulling
<1>4. MemoryForward /\ TodoHolds /\ MemoryCurrent
  BY <1>1 DEF MemoryForward, TodoHolds, MemoryCurrent
<1> QED
  BY <1>3, <1>4 DEF NewsInv

(* What keeps the parts of NewsInv: the things they are about stay.        *)

LEMMA PullsFrame ==
  ASSUME PullsForward, tree' = tree,
         \A h \in Dirs : ~crossed'[h] => ~crossed[h] /\ latest'[h] = latest[h],
         \A i \in Jvms : at'[i] \in Pulling =>
            /\ at[i] \in Pulling /\ (at'[i] = "pull" <=> at[i] = "pull")
            /\ pull'[i].version = pull[i].version /\ config'[i] = config[i]
  PROVE  PullsForward'
<1> SUFFICES ASSUME NEW i \in Jvms, ~crossed'[DirOf[i]], at'[i] \in Pulling
             PROVE  LET v == pull'[i].version
                    IN /\ tree' # None /\ Upto(v, tree') /\ v # config'[i]
                       /\ latest'[DirOf[i]] # None => Upto(latest'[DirOf[i]], v)
                       /\ \A k \in Jvms :
                             DirOf[k] = DirOf[i] /\ at'[i] # "pull" /\ at'[k] = "pull"
                                => Upto(v, pull'[k].version)
  BY DEF PullsForward
<1>1. ~crossed[DirOf[i]] /\ latest'[DirOf[i]] = latest[DirOf[i]]
  OBVIOUS
<1>2. \A k \in Jvms :
         at'[k] = "pull" => at[k] = "pull" /\ pull'[k].version = pull[k].version
  BY DEF Pulling
<1> QED
  BY <1>1, <1>2 DEF PullsForward

LEMMA FilesFrame ==
  ASSUME FilesForward, tree' = tree,
         \A h \in Dirs : ~crossed'[h] =>
            /\ ~crossed[h] /\ latest'[h] = latest[h]
            /\ tmp'[h] \in {tmp[h], Nothing} /\ dest'[h] \in {dest[h], Absent, Nothing},
         \A i \in Jvms : at'[i] \in Pulling =>
            at[i] \in Pulling /\ pull'[i].version = pull[i].version
  PROVE  FilesForward'
<1> SUFFICES ASSUME NEW h \in Dirs, ~crossed'[h]
             PROVE  /\ latest'[h] # None => tree' # None /\ Upto(latest'[h], tree')
                    /\ \A f \in Paths : tmp'[h] # Absent /\ tmp'[h][f] # None =>
                          /\ tree' # None /\ f \in FileList(tree')
                          /\ \A i \in Jvms : DirOf[i] = h /\ at'[i] \in Pulling
                                => f \in FileList(pull'[i].version)
                    /\ \A f \in Paths : dest'[h] # Absent /\ dest'[h][f] # None =>
                          latest'[h] # None /\ f \in FileList(latest'[h])
  BY DEF FilesForward
<1>1. \A f \in Paths : Nothing[f] = None
  BY DEF Nothing
<1>2. ~crossed[h] /\ latest'[h] = latest[h]
  OBVIOUS
<1>3. \A f \in Paths :
         tmp'[h] # Absent /\ tmp'[h][f] # None => tmp[h] # Absent /\ tmp[h][f] # None
  BY <1>1
<1>4. \A f \in Paths :
         dest'[h] # Absent /\ dest'[h][f] # None => dest[h] # Absent /\ dest[h][f] # None
  BY <1>1
<1> QED
  BY <1>2, <1>3, <1>4 DEF FilesForward

LEMMA RecordFrame ==
  ASSUME RecordHolds,
         \A i \in Jvms : ~crossed'[DirOf[i]] /\ at'[i] \in {"record", "refresh"} =>
            /\ ~crossed[DirOf[i]] /\ at'[i] = at[i]
            /\ latest'[DirOf[i]] = latest[DirOf[i]] /\ dest'[DirOf[i]] = dest[DirOf[i]]
            /\ pull'[i].version = pull[i].version /\ config'[i] = config[i]
  PROVE  RecordHolds'
  BY DEF RecordHolds

LEMMA MemoryFrame ==
  ASSUME MemoryForward, TodoHolds, MemoryCurrent,
         UNCHANGED <<config, loaded, active, todo>>,
         \A h \in Dirs : ~crossed'[h] => ~crossed[h] /\ latest'[h] = latest[h],
         \A i \in Jvms : at'[i] # "refresh" => todo[i] = {},
         \A i \in Jvms : at'[i] = "load" => at[i] = "load"
  PROVE  MemoryForward' /\ TodoHolds' /\ MemoryCurrent'
<1>1. \A i \in Jvms : ~crossed'[DirOf[i]] =>
         ~crossed[DirOf[i]] /\ latest'[DirOf[i]] = latest[DirOf[i]]
  OBVIOUS
<1>2. MemoryForward'
  BY <1>1 DEF MemoryForward
<1>3. TodoHolds'
  BY DEF TodoHolds
<1>4. MemoryCurrent'
  BY <1>1 DEF MemoryCurrent, UpToDate
<1> QED
  BY <1>2, <1>3, <1>4

\* The current version moves on, and everything else stays behind it.
LEMMA PushKeepsNews ==
  ASSUME AgeOK, StoreInv, PullInv, NewsInv, Forward, tree # None => tree' \in Versions,
         UNCHANGED <<dest, tmp, memory, at, crossed, latest>>
  PROVE  NewsInv'
<1> USE DEF NewsInv, memory
<1>1. tree # None =>
         /\ tree' # None /\ FileList(tree) \subseteq FileList(tree')
         /\ \A v \in Versions : Upto(v, tree) => Upto(v, tree')
  BY UptoLaws DEF Forward, Upto, StoreInv, StoreShape
<1>2. PullsForward'
  <2>1. \A i \in Jvms : at[i] \in Pulling => pull[i].version \in Versions
    BY DEF PullInv, PullsStored, Pulling
  <2> QED
    BY <1>1, <2>1 DEF PullsForward
<1>3. FilesForward'
  <2>1. \A h \in Dirs : latest[h] # None => latest[h] \in Versions
    BY DEF PullInv, PullShape
  <2> QED
    BY <1>1, <2>1 DEF FilesForward
<1>4. RecordHolds'
  BY RecordFrame
<1>5. \A i \in Jvms : at'[i] # "refresh" => todo[i] = {}
  BY DEF TodoHolds
<1>6. MemoryForward' /\ TodoHolds' /\ MemoryCurrent'
  BY <1>5, MemoryFrame
<1> QED
  BY <1>2, <1>3, <1>4, <1>6

\* A pull is of the current version, and of none the JVM has already.
LEMMA SyncKeepsNews ==
  ASSUME AgeOK, NEW j \in Jvms, StoreInv, PullInv, NewsInv, Sync(j)
  PROVE  NewsInv'
<1> USE DEF NewsInv
<1>1. /\ UNCHANGED <<tree, dest, tmp, crossed, latest, config, loaded, active, todo>>
      /\ at[j] = "idle" /\ todo[j] = {} /\ (\A i \in Jvms \ {j} : at'[i] = at[i])
      /\ at'[j] \in {"pull", "configure"} /\ (\A i \in Jvms \ {j} : pull'[i] = pull[i])
  BY DEF Sync, Goes, storeVars, TodoHolds, PullInv, PullShape
<1>2. RecordHolds'
  BY <1>1, RecordFrame
<1>3. MemoryForward' /\ TodoHolds' /\ MemoryCurrent'
  <2>1. \A i \in Jvms : at'[i] # "refresh" => todo[i] = {}
    BY <1>1 DEF TodoHolds
  <2> QED
    BY <1>1, <2>1, MemoryFrame
<1>4. CASE at'[j] = "configure"
  <2>1. \A i \in Jvms : at'[i] \in Pulling => i # j
    BY <1>4 DEF Pulling
  <2> QED
    BY <1>1, <1>2, <1>3, <2>1, PullsFrame, FilesFrame
<1>5. CASE at'[j] = "pull"
  <2>1. /\ tree \in Versions /\ tree # config[j] /\ pull'[j].version = tree
    BY <1>5 DEF Sync, IsBehind, Goes, StoreInv, StoreShape, PullInv, PullShape, Pulls
  <2>2. \A h \in Dirs : ~crossed[h] /\ latest[h] # None => Upto(latest[h], tree)
    BY DEF FilesForward
  <2>3. PullsForward'
    <3> SUFFICES ASSUME NEW i \in Jvms, ~crossed[DirOf[i]], at'[i] \in Pulling
                 PROVE  LET v == pull'[i].version
                        IN /\ tree # None /\ Upto(v, tree) /\ v # config[i]
                           /\ latest[DirOf[i]] # None => Upto(latest[DirOf[i]], v)
                           /\ \A k \in Jvms :
                                 DirOf[k] = DirOf[i] /\ at'[i] # "pull" /\ at'[k] = "pull"
                                    => Upto(v, pull'[k].version)
      BY <1>1 DEF PullsForward
    <3>1. CASE i = j
      BY <1>5, <2>1, <2>2, <3>1, UptoLaws
    <3>2. CASE i # j
      <4>1. /\ at[i] \in Pulling /\ at'[i] = at[i] /\ pull'[i] = pull[i]
        BY <1>1, <3>2
      <4>2. \A k \in Jvms :
               DirOf[k] = DirOf[i] /\ at'[i] # "pull" /\ at'[k] = "pull"
                 => Upto(pull[i].version, pull'[k].version)
        BY <1>1, <2>1, <4>1 DEF PullsForward
      <4> QED
        BY <4>1, <4>2 DEF PullsForward
    <3> QED
      BY <3>1, <3>2
  <2>4. FilesForward'
    <3> SUFFICES ASSUME NEW h \in Dirs, ~crossed[h]
                 PROVE  \A f \in Paths : tmp[h] # Absent /\ tmp[h][f] # None =>
                           \A i \in Jvms : DirOf[i] = h /\ at'[i] \in Pulling
                              => f \in FileList(pull'[i].version)
      BY <1>1 DEF FilesForward
    <3> QED
      BY <1>1, <2>1 DEF FilesForward
  <2> QED
    BY <1>2, <1>3, <2>3, <2>4
<1> QED
  BY <1>1, <1>4, <1>5

\* A pull that begins without crossing another one is alone.
LEMMA BeginKeepsNews ==
  ASSUME NEW j \in Jvms, PullInv, NewsInv, BeginPull(j)
  PROVE  NewsInv'
<1> USE DEF NewsInv
<1> DEFINE h == DirOf[j]
<1>1. /\ UNCHANGED <<tree, latest, config, loaded, active, todo>>
      /\ at[j] = "pull" /\ at'[j] = "write" /\ (\A i \in Jvms \ {j} : at'[i] = at[i])
      /\ pull'[j].version = pull[j].version /\ (\A i \in Jvms \ {j} : pull'[i] = pull[i])
  BY DEF BeginPull, Goes, storeVars, PullInv, PullShape
<1>2. \A d \in Dirs : ~crossed'[d] => ~crossed[d] /\ latest'[d] = latest[d]
  BY DEF BeginPull, PullInv, PullShape
<1>3. ~crossed'[h] => \A i \in Jvms \ {j} : DirOf[i] = h => at[i] \notin Syncing
  BY DEF BeginPull, PullInv, PullShape
<1>4. \A d \in Dirs : tmp'[d] \in {tmp[d], Nothing} /\ dest'[d] \in {dest[d], Nothing}
                      /\ (d # h => dest'[d] = dest[d])
  BY DEF BeginPull, PullInv, PullShape
<1> HIDE DEF h
<1>5. h \in Dirs /\ h = DirOf[j] /\ (\A i \in Jvms : DirOf[i] \in Dirs)
  BY DEF h
<1>6. FilesForward'
  <2>1. \A i \in Jvms : at'[i] \in Pulling =>
           at[i] \in Pulling /\ pull'[i].version = pull[i].version
    BY <1>1 DEF Pulling
  <2>2. \A d \in Dirs : ~crossed'[d] =>
            /\ ~crossed[d] /\ latest'[d] = latest[d]
            /\ tmp'[d] \in {tmp[d], Nothing} /\ dest'[d] \in {dest[d], Absent, Nothing}
    BY <1>2, <1>4
  <2> QED
    BY <1>1, <2>1, <2>2, FilesFrame
<1>7. PullsForward'
  <2> SUFFICES ASSUME NEW i \in Jvms, ~crossed'[DirOf[i]], at'[i] \in Pulling
               PROVE  LET v == pull'[i].version
                      IN /\ tree' # None /\ Upto(v, tree') /\ v # config'[i]
                         /\ latest'[DirOf[i]] # None => Upto(latest'[DirOf[i]], v)
                         /\ \A k \in Jvms :
                               DirOf[k] = DirOf[i] /\ at'[i] # "pull" /\ at'[k] = "pull"
                                  => Upto(v, pull'[k].version)
    BY DEF PullsForward
  <2>1. at[i] \in Pulling /\ pull'[i].version = pull[i].version
    BY <1>1 DEF Pulling
  <2>2. ~crossed[DirOf[i]]
    BY <1>2, <1>5
  <2>3. ASSUME NEW k \in Jvms, DirOf[k] = DirOf[i], at'[i] # "pull", at'[k] = "pull"
        PROVE  Upto(pull'[i].version, pull'[k].version)
    <3>1. k # j /\ at[k] = "pull" /\ pull'[k] = pull[k]
      BY <1>1, <2>3
    <3>2. DirOf[i] # h
      BY <1>3, <2>3, <3>1 DEF Syncing
    <3>3. i # j
      BY <1>5, <3>2
    <3> QED
      BY <1>1, <2>1, <2>2, <2>3, <3>1, <3>3 DEF PullsForward
  <2> QED
    BY <1>1, <2>1, <2>2, <2>3 DEF PullsForward
<1>8. RecordHolds'
  <2> SUFFICES ASSUME NEW i \in Jvms, ~crossed'[DirOf[i]], at'[i] \in {"record", "refresh"}
               PROVE  /\ ~crossed[DirOf[i]] /\ at'[i] = at[i]
                      /\ latest'[DirOf[i]] = latest[DirOf[i]]
                      /\ dest'[DirOf[i]] = dest[DirOf[i]]
                      /\ pull'[i].version = pull[i].version /\ config'[i] = config[i]
    BY RecordFrame
  <2>1. i # j /\ at'[i] = at[i]
    BY <1>1
  <2>2. DirOf[i] # h
    BY <1>3, <2>1 DEF Syncing
  <2> QED
    BY <1>1, <1>2, <1>4, <1>5, <2>1, <2>2
<1>9. MemoryForward' /\ TodoHolds' /\ MemoryCurrent'
  <2>1. \A i \in Jvms : at'[i] # "refresh" => todo[i] = {}
    BY <1>1 DEF TodoHolds
  <2>2. \A i \in Jvms : at'[i] = "load" => at[i] = "load"
    BY <1>1
  <2> QED
    BY <1>1, <1>2, <2>1, <2>2, MemoryFrame
<1> QED
  BY <1>6, <1>7, <1>8, <1>9

\* What is written are files of the version that is pulled.
LEMMA WriteKeepsNews ==
  ASSUME NEW j \in Jvms, NEW f \in Paths, StoreInv, PullInv, NewsInv, WriteFile(j, f)
  PROVE  NewsInv'
<1> USE DEF NewsInv
<1> DEFINE h == DirOf[j]
           v == pull[j].version
<1>1. /\ UNCHANGED <<tree, latest, config, loaded, active, todo, at, crossed>>
      /\ at[j] = "write"
      /\ \A i \in Jvms : pull'[i].version = pull[i].version
  BY DEF WriteFile, storeVars, PullInv, PullShape
<1>2. /\ \A d \in Dirs \ {h} : tmp'[d] = tmp[d] /\ dest'[d] = dest[d]
      /\ ~crossed[h] =>
            /\ dest' = dest /\ tmp[h] # Absent
            /\ \A g \in Paths : tmp'[h][g] # None =>
                  tmp[h][g] # None \/ (g = f /\ f \in FileList(v))
  <2>1. h \in Dirs
    OBVIOUS
  <2>2. ~crossed[h] => pull[j].into = "tmp" /\ tmp[h] # Absent /\ tmp[h] \in Files
    BY <1>1, <2>1 DEF PullInv, PullShape, Filled
  <2>3. \A d \in Dirs \ {h} : tmp'[d] = tmp[d] /\ dest'[d] = dest[d]
    BY DEF WriteFile, PullInv, PullShape
  <2>4. ASSUME ~crossed[h]
        PROVE  /\ dest' = dest
               /\ \A g \in Paths : tmp'[h][g] # None =>
                     tmp[h][g] # None \/ (g = f /\ f \in FileList(v))
    <3>1. PICK c : (c = Content[v][f] \/ c = None)
                   /\ tmp' = [tmp EXCEPT ![h] = With(tmp[h], f, c)] /\ dest' = dest
      BY <2>2, <2>4 DEF WriteFile
    <3>2. tmp'[h] = [tmp[h] EXCEPT ![f] = c]
      BY <2>1, <2>2, <2>4, <3>1 DEF With, PullInv, PullShape
    <3> QED
      BY <2>2, <2>4, <3>1, <3>2 DEF FileList, Files
  <2> QED
    BY <2>2, <2>3, <2>4
<1> HIDE DEF h, v
<1>3. h = DirOf[j] /\ v = pull[j].version /\ (\A i \in Jvms : DirOf[i] \in Dirs)
  BY DEF h, v
<1>4. PullsForward'
  BY <1>1, PullsFrame
<1>5. FilesForward'
  <2> SUFFICES ASSUME NEW d \in Dirs, ~crossed[d]
               PROVE  /\ \A g \in Paths : tmp'[d] # Absent /\ tmp'[d][g] # None =>
                            /\ tree # None /\ g \in FileList(tree)
                            /\ \A i \in Jvms : DirOf[i] = d /\ at[i] \in Pulling
                                  => g \in FileList(pull[i].version)
                      /\ dest'[d] = dest[d]
    BY <1>1 DEF FilesForward
  <2>1. CASE d # h
    BY <1>2, <2>1 DEF FilesForward
  <2>2. CASE d = h
    <3>1. ASSUME f \in FileList(v)
          PROVE  /\ tree # None /\ f \in FileList(tree)
                 /\ \A i \in Jvms : DirOf[i] = h /\ at[i] \in Pulling
                       => f \in FileList(pull[i].version)
      <4>1. tree # None /\ Upto(v, tree)
        BY <1>1, <1>3, <2>2 DEF PullsForward, Pulling
      <4>2. ASSUME NEW i \in Jvms, DirOf[i] = h, at[i] \in Pulling
            PROVE  f \in FileList(pull[i].version)
        <5>1. CASE at[i] = "pull"
          <6>1. Upto(v, pull[i].version)
            BY <1>1, <1>3, <2>2, <4>2, <5>1 DEF PullsForward, Pulling
          <6> QED
            BY <3>1, <6>1 DEF Upto
        <5>2. CASE at[i] # "pull"
          <6>1. i = j
            BY <1>1, <1>3, <2>2, <4>2, <5>2 DEF PullInv, PullsAlone, Pulling, Syncing
          <6> QED
            BY <1>3, <3>1, <6>1
        <5> QED
          BY <5>1, <5>2
      <4> QED
        BY <3>1, <4>1, <4>2 DEF Upto
    <3>2. \A g \in Paths : tmp'[h] # Absent /\ tmp'[h][g] # None =>
             (tmp[h] # Absent /\ tmp[h][g] # None) \/ (g = f /\ f \in FileList(v))
      BY <1>2, <2>2
    <3> QED
      BY <1>2, <2>2, <3>1, <3>2 DEF FilesForward
  <2> QED
    BY <2>1, <2>2
<1>6. RecordHolds'
  <2>1. \A i \in Jvms : ~crossed[DirOf[i]] => dest'[DirOf[i]] = dest[DirOf[i]]
    BY <1>2, <1>3
  <2> QED
    BY <1>1, <2>1, RecordFrame
<1>7. MemoryForward' /\ TodoHolds' /\ MemoryCurrent'
  <2>1. \A i \in Jvms : at'[i] # "refresh" => todo[i] = {}
    BY <1>1 DEF TodoHolds
  <2> QED
    BY <1>1, <2>1, MemoryFrame
<1> QED
  BY <1>4, <1>5, <1>6, <1>7

\* The configuration goes away; it was that of a pull that is alone.
LEMMA SwapOutKeepsNews ==
  ASSUME NEW j \in Jvms, PullInv, NewsInv, SwapOut(j)
  PROVE  NewsInv'
<1> USE DEF NewsInv
<1>1. /\ UNCHANGED <<tree, tmp, latest, crossed, config, loaded, active, todo, pull>>
      /\ at[j] = "write" /\ at'[j] = "install" /\ (\A i \in Jvms \ {j} : at'[i] = at[i])
      /\ \A d \in Dirs : dest'[d] \in {dest[d], Absent} /\ (d # DirOf[j] => dest'[d] = dest[d])
  BY DEF SwapOut, Goes, storeVars, memory, PullInv, PullShape
<1>2. PullsForward'
  BY <1>1, PullsFrame DEF Pulling
<1>3. FilesForward'
  BY <1>1, FilesFrame DEF Pulling
<1>4. RecordHolds'
  <2> SUFFICES ASSUME NEW i \in Jvms, ~crossed[DirOf[i]], at'[i] \in {"record", "refresh"}
               PROVE  at'[i] = at[i] /\ dest'[DirOf[i]] = dest[DirOf[i]]
    BY <1>1, RecordFrame
  <2>1. i # j /\ at'[i] = at[i]
    BY <1>1
  <2>2. DirOf[i] # DirOf[j]
    BY <1>1, <2>1 DEF PullInv, PullsAlone, Syncing
  <2> QED
    BY <1>1, <2>1, <2>2
<1>5. MemoryForward' /\ TodoHolds' /\ MemoryCurrent'
  <2>1. \A i \in Jvms : at'[i] # "refresh" => todo[i] = {}
    BY <1>1 DEF TodoHolds
  <2>2. \A i \in Jvms : at'[i] = "load" => at[i] = "load"
    BY <1>1
  <2> QED
    BY <1>1, <2>1, <2>2, MemoryFrame
<1> QED
  BY <1>2, <1>3, <1>4, <1>5

\* The directory gets a version that no JVM is ahead of, and that the one
\* which pulled it does not remember.
LEMMA SwapInKeepsNews ==
  ASSUME AgeOK, NEW j \in Jvms, PullInv, MemoryShape, NewsInv, SwapIn(j)
  PROVE  NewsInv'
<1> USE DEF NewsInv
<1> DEFINE h == DirOf[j]
           v == pull[j].version
<1>1. /\ UNCHANGED <<tree, crossed, config, loaded, active, todo, pull>>
      /\ at[j] = "install" /\ at'[j] = "record" /\ (\A i \in Jvms \ {j} : at'[i] = at[i])
      /\ latest'[h] = v /\ \A d \in Dirs \ {h} : latest'[d] = latest[d]
  BY DEF SwapIn, Goes, storeVars, memory, PullInv, PullShape
<1>2. \A d \in Dirs \ {h} : tmp'[d] = tmp[d] /\ dest'[d] = dest[d]
  BY DEF SwapIn, PullInv, PullShape
<1>3. ~crossed[h] =>
        /\ tmp[h] # Absent /\ tmp'[h] = Absent /\ dest'[h] = tmp[h]
        /\ \A f \in Paths : In(tmp[h], v, f)
  <2>1. ~crossed[h] => /\ tmp[h] # Absent /\ dest[h] \in {Absent, Nothing}
                       /\ \A f \in Paths : In(tmp[h], v, f)
    BY <1>1 DEF PullInv, Filled
  <2> QED
    BY <2>1 DEF SwapIn, PullInv, PullShape
<1>4. v \in Versions /\ v # None
  BY <1>1 DEF PullInv, PullsStored
<1>5. ~crossed[h] =>
        /\ tree # None /\ Upto(v, tree) /\ v # config[j]
        /\ latest[h] # None => latest[h] \in Versions /\ Upto(latest[h], v)
        /\ \A k \in Jvms : DirOf[k] = h /\ at[k] = "pull" => Upto(v, pull[k].version)
  BY <1>1 DEF PullsForward, Pulling, PullInv, PullShape
<1>6. ASSUME NEW i \in Jvms, i # j, DirOf[i] = h, ~crossed[h]
      PROVE  at[i] \notin Syncing \ {"pull"}
  BY <1>1, <1>6 DEF PullInv, PullsAlone, Syncing
<1> HIDE DEF h, v
<1>7. h = DirOf[j] /\ v = pull[j].version /\ h \in Dirs /\ (\A i \in Jvms : DirOf[i] \in Dirs)
  BY DEF h, v
<1>8. PullsForward'
  <2> SUFFICES ASSUME NEW i \in Jvms, ~crossed[DirOf[i]], at'[i] \in Pulling
               PROVE  LET u == pull[i].version
                      IN /\ tree # None /\ Upto(u, tree) /\ u # config[i]
                         /\ latest'[DirOf[i]] # None => Upto(latest'[DirOf[i]], u)
                         /\ \A k \in Jvms :
                               DirOf[k] = DirOf[i] /\ at'[i] # "pull" /\ at'[k] = "pull"
                                  => Upto(u, pull[k].version)
    BY <1>1 DEF PullsForward
  <2>1. i # j /\ at'[i] = at[i]
    BY <1>1 DEF Pulling
  <2>2. \A k \in Jvms : at'[k] = "pull" => at[k] = "pull"
    BY <1>1
  <2>3. latest'[DirOf[i]] # None => Upto(latest'[DirOf[i]], pull[i].version)
    <3>1. CASE DirOf[i] = h
      <4>1. at[i] = "pull"
        BY <1>6, <2>1, <3>1 DEF Syncing, Pulling
      <4> QED
        BY <1>1, <1>5, <3>1, <4>1
    <3>2. CASE DirOf[i] # h
      BY <1>1, <1>7, <2>1, <3>2 DEF PullsForward
    <3> QED
      BY <3>1, <3>2
  <2> QED
    BY <2>1, <2>2, <2>3 DEF PullsForward
<1>9. FilesForward'
  <2> SUFFICES ASSUME NEW d \in Dirs, ~crossed[d]
               PROVE  /\ latest'[d] # None => tree # None /\ Upto(latest'[d], tree)
                      /\ \A f \in Paths : tmp'[d] # Absent /\ tmp'[d][f] # None =>
                            /\ tree # None /\ f \in FileList(tree)
                            /\ \A i \in Jvms : DirOf[i] = d /\ at'[i] \in Pulling
                                  => f \in FileList(pull[i].version)
                      /\ \A f \in Paths : dest'[d] # Absent /\ dest'[d][f] # None =>
                            latest'[d] # None /\ f \in FileList(latest'[d])
    BY <1>1 DEF FilesForward
  <2>1. \A i \in Jvms : at'[i] \in Pulling => at[i] \in Pulling
    BY <1>1 DEF Pulling
  <2>2. CASE d # h
    BY <1>1, <1>2, <2>1, <2>2 DEF FilesForward
  <2>3. CASE d = h
    <3>1. \A f \in Paths : dest'[h][f] # None => f \in FileList(v)
      BY <1>1, <1>3, <1>7, <2>3 DEF FilesForward, Pulling
    <3> QED
      BY <1>1, <1>3, <1>4, <1>5, <2>3, <3>1
  <2> QED
    BY <2>2, <2>3
<1>10. RecordHolds'
  <2> SUFFICES ASSUME NEW i \in Jvms, ~crossed[DirOf[i]], at'[i] \in {"record", "refresh"}
               PROVE  LET d == DirOf[i]
                      IN /\ latest'[d] # None /\ dest'[d] # Absent
                         /\ \A f \in Paths : In(dest'[d], latest'[d], f)
                         /\ at'[i] = "record" =>
                               pull[i].version = latest'[d] /\ config[i] # latest'[d]
                         /\ at'[i] = "refresh" => config[i] = latest'[d]
    BY <1>1 DEF RecordHolds, In
  <2>1. CASE i = j
    BY <1>1, <1>3, <1>4, <1>5, <1>7, <2>1
  <2>2. CASE i # j
    <3>1. at'[i] = at[i] /\ DirOf[i] # h
      BY <1>1, <1>6, <2>2 DEF Syncing
    <3> QED
      BY <1>1, <1>2, <1>7, <3>1 DEF RecordHolds
  <2> QED
    BY <2>1, <2>2
<1>11. ASSUME NEW i \in Jvms, DirOf[i] = h, ~crossed[h]
       PROVE  /\ config[i] # None => Upto(config[i], v)
              /\ \A f \in Paths : loaded[i][f] # None => f \in FileList(v)
              /\ config[i] = v => latest[h] = v
  <2>1. config[i] # None => config[i] \in Versions /\ latest[h] # None
                            /\ Upto(config[i], latest[h])
    BY <1>11 DEF MemoryForward, MemoryShape
  <2>2. config[i] # None => Upto(config[i], v)
    BY <1>4, <1>5, <1>11, <2>1, UptoLaws
  <2>3. \A f \in Paths : loaded[i][f] # None =>
           latest[h] # None /\ f \in FileList(latest[h])
    BY <1>11 DEF MemoryForward
  <2>4. latest[h] # None => FileList(latest[h]) \subseteq FileList(v)
    BY <1>5, <1>11 DEF Upto
  <2>5. config[i] = v => latest[h] = v
    BY <1>4, <1>5, <1>11, <2>1, UptoLaws
  <2> QED
    BY <2>2, <2>3, <2>4, <2>5
<1>12. MemoryForward'
  <2> SUFFICES ASSUME NEW i \in Jvms, ~crossed[DirOf[i]]
               PROVE  /\ config[i] # None =>
                            latest'[DirOf[i]] # None /\ Upto(config[i], latest'[DirOf[i]])
                      /\ \A f \in Paths : loaded[i][f] # None =>
                            latest'[DirOf[i]] # None /\ f \in FileList(latest'[DirOf[i]])
    BY <1>1 DEF MemoryForward
  <2>1. CASE DirOf[i] = h
    BY <1>1, <1>4, <1>11, <2>1
  <2>2. CASE DirOf[i] # h
    BY <1>1, <1>7, <2>2 DEF MemoryForward
  <2> QED
    BY <2>1, <2>2
<1>13. TodoHolds'
  BY <1>1 DEF TodoHolds
<1>14. MemoryCurrent'
  <2> SUFFICES ASSUME NEW i \in Jvms, ~crossed[DirOf[i]], config[i] # None,
                      config[i] = latest'[DirOf[i]]
               PROVE  config[i] = latest[DirOf[i]]
    BY <1>1 DEF MemoryCurrent, UpToDate
  <2> QED
    BY <1>1, <1>7, <1>11
<1> QED
  BY <1>8, <1>9, <1>10, <1>12, <1>13, <1>14

\* A pull in the place of the configuration has crossed another one, and
\* nothing is said of that directory.
LEMMA InPlaceKeepsNews ==
  ASSUME NEW j \in Jvms, PullInv, NewsInv, PulledInPlace(j)
  PROVE  NewsInv'
<1> USE DEF NewsInv
<1>1. /\ UNCHANGED <<tree, dest, tmp, crossed, config, loaded, active, todo, pull>>
      /\ at[j] = "write" /\ at'[j] = "record" /\ (\A i \in Jvms \ {j} : at'[i] = at[i])
      /\ \A d \in Dirs \ {DirOf[j]} : latest'[d] = latest[d]
  BY DEF PulledInPlace, Goes, storeVars, memory, PullInv, PullShape
<1>2. crossed[DirOf[j]]
  BY <1>1 DEF PulledInPlace, PullInv, Filled
<1>3. \A d \in Dirs : ~crossed[d] => latest'[d] = latest[d]
  BY <1>1, <1>2
<1>4. (\A i \in Jvms : DirOf[i] \in Dirs)
  OBVIOUS
<1>5. PullsForward' /\ FilesForward'
  BY <1>1, <1>3, PullsFrame, FilesFrame DEF Pulling
<1>6. RecordHolds'
  <2>1. \A i \in Jvms : ~crossed[DirOf[i]] => i # j /\ latest'[DirOf[i]] = latest[DirOf[i]]
    BY <1>2, <1>3, <1>4
  <2> QED
    BY <1>1, <2>1, RecordFrame
<1>7. MemoryForward' /\ TodoHolds' /\ MemoryCurrent'
  <2>1. \A i \in Jvms : at'[i] # "refresh" => todo[i] = {}
    BY <1>1 DEF TodoHolds
  <2>2. \A i \in Jvms : at'[i] = "load" => at[i] = "load"
    BY <1>1
  <2> QED
    BY <1>1, <1>3, <2>1, <2>2, MemoryFrame
<1> QED
  BY <1>5, <1>6, <1>7

\* The version is remembered, and all objects there are wait for a refresh.
LEMMA RecordKeepsNews ==
  ASSUME AgeOK, NEW j \in Jvms, PullInv, MemoryShape, NewsInv, Record(j)
  PROVE  NewsInv'
<1> USE DEF NewsInv
<1> DEFINE h == DirOf[j]
<1>1. /\ UNCHANGED <<tree, dest, tmp, crossed, latest, loaded, active>>
      /\ at[j] = "record" /\ at'[j] = "refresh" /\ (\A i \in Jvms \ {j} : at'[i] = at[i])
      /\ \A i \in Jvms \ {j} :
            pull'[i] = pull[i] /\ config'[i] = config[i] /\ todo'[i] = todo[i]
      /\ config'[j] = pull[j].version /\ todo'[j] = ToRefresh(j)
  BY DEF Record, Goes, storeVars, MemoryShape, PullInv, PullShape
<1>2. \A i \in Jvms : at'[i] \in Pulling => i # j
  BY <1>1 DEF Pulling
<1>3. PullsForward' /\ FilesForward'
  BY <1>1, <1>2, PullsFrame, FilesFrame
<1>4. ~crossed[h] =>
        /\ latest[h] \in Versions /\ latest[h] # None /\ dest[h] # Absent
        /\ (\A f \in Paths : In(dest[h], latest[h], f)) /\ config'[j] = latest[h]
  BY <1>1 DEF RecordHolds, PullInv, PullShape
<1> HIDE DEF h
<1>5. h = DirOf[j]
  BY DEF h
<1>6. RecordHolds'
  <2> SUFFICES ASSUME NEW i \in Jvms, ~crossed[DirOf[i]], at'[i] \in {"record", "refresh"}
               PROVE  LET d == DirOf[i]
                      IN /\ latest[d] # None /\ dest[d] # Absent
                         /\ \A f \in Paths : In(dest[d], latest[d], f)
                         /\ at'[i] = "record" =>
                               pull'[i].version = latest[d] /\ config'[i] # latest[d]
                         /\ at'[i] = "refresh" => config'[i] = latest[d]
    BY <1>1 DEF RecordHolds, In
  <2>1. CASE i = j
    BY <1>1, <1>4, <1>5, <2>1
  <2>2. CASE i # j
    BY <1>1, <2>2 DEF RecordHolds
  <2> QED
    BY <2>1, <2>2
<1>7. MemoryForward'
  <2> SUFFICES ASSUME NEW i \in Jvms, ~crossed[DirOf[i]], config'[i] # None
               PROVE  latest[DirOf[i]] # None /\ Upto(config'[i], latest[DirOf[i]])
    BY <1>1 DEF MemoryForward
  <2>1. CASE i = j
    BY <1>4, <1>5, <2>1, UptoLaws
  <2>2. CASE i # j
    BY <1>1, <2>2 DEF MemoryForward
  <2> QED
    BY <2>1, <2>2
<1>8. TodoHolds'
  BY <1>1 DEF TodoHolds, ToRefresh
<1>9. MemoryCurrent'
  <2> SUFFICES ASSUME NEW i \in Jvms, ~crossed[DirOf[i]], config'[i] # None,
                      config'[i] = latest[DirOf[i]]
               PROVE  UpToDate(i)'
    BY <1>1 DEF MemoryCurrent
  <2>1. CASE i = j
    <3>1. \A f \in Paths \ todo'[j] : loaded[j][f] = None
      BY <1>1 DEF ToRefresh
    <3>2. Global \in Paths
      OBVIOUS
    <3> QED
      BY <1>1, <2>1, <3>1, <3>2 DEF UpToDate
  <2>2. CASE i # j
    BY <1>1, <2>2 DEF MemoryCurrent, UpToDate
  <2> QED
    BY <2>1, <2>2
<1> QED
  BY <1>3, <1>6, <1>7, <1>8, <1>9

\* What keeps NewsInv when one JVM goes on with the files as they are.
LEMMA OneKeepsNews ==
  ASSUME NEW j \in Jvms, NewsInv, UNCHANGED <<tree, tmp, crossed, latest>>,
         \A h \in Dirs : dest'[h] = dest[h] \/ (dest[h] = Absent /\ dest'[h] = Nothing),
         \A i \in Jvms \ {j} :
            /\ at'[i] = at[i] /\ pull'[i] = pull[i] /\ config'[i] = config[i]
            /\ loaded'[i] = loaded[i] /\ active'[i] = active[i] /\ todo'[i] = todo[i],
         config'[j] \in {config[j], None},
         at'[j] \notin Pulling \cup {"record"},
         at'[j] = "refresh" => at[j] = "refresh" /\ config'[j] = config[j],
         at'[j] = "load" => loaded'[j][Global] # None,
         at'[j] # "refresh" => todo'[j] = {},
         \A f \in todo'[j] : loaded'[j][f] # None,
         ~crossed[DirOf[j]] => \A f \in Paths : loaded'[j][f] # None =>
            latest[DirOf[j]] # None /\ f \in FileList(latest[DirOf[j]]),
         ~crossed[DirOf[j]] /\ config'[j] # None /\ config'[j] = latest[DirOf[j]] =>
            UpToDate(j)'
  PROVE  NewsInv'
<1> USE DEF NewsInv
<1>1. PullsForward'
  BY PullsFrame
<1>2. FilesForward'
  <2>1. \A i \in Jvms : at'[i] \in Pulling =>
           at[i] \in Pulling /\ pull'[i].version = pull[i].version
    OBVIOUS
  <2>2. \A h \in Dirs : ~crossed'[h] =>
            /\ ~crossed[h] /\ latest'[h] = latest[h]
            /\ tmp'[h] \in {tmp[h], Nothing} /\ dest'[h] \in {dest[h], Absent, Nothing}
    OBVIOUS
  <2> QED
    BY <2>1, <2>2, FilesFrame
<1>3. RecordHolds'
  <2> SUFFICES ASSUME NEW i \in Jvms, ~crossed[DirOf[i]], at'[i] \in {"record", "refresh"}
               PROVE  LET d == DirOf[i]
                      IN /\ latest[d] # None /\ dest'[d] # Absent
                         /\ \A f \in Paths : In(dest'[d], latest[d], f)
                         /\ at'[i] = "record" =>
                               pull'[i].version = latest[d] /\ config'[i] # latest[d]
                         /\ at'[i] = "refresh" => config'[i] = latest[d]
    BY DEF RecordHolds, In
  <2>1. at[i] = at'[i] /\ config'[i] = config[i] /\ (at[i] = "record" => pull'[i] = pull[i])
    OBVIOUS
  <2>2. dest[DirOf[i]] # Absent
    BY <2>1 DEF RecordHolds
  <2>3. dest'[DirOf[i]] = dest[DirOf[i]]
    <3>1. DirOf[i] \in Dirs
      OBVIOUS
    <3> QED
      BY <2>2, <3>1
  <2> QED
    BY <2>1, <2>3 DEF RecordHolds
<1>4. MemoryForward'
  <2> SUFFICES ASSUME NEW i \in Jvms, ~crossed[DirOf[i]]
               PROVE  /\ config'[i] # None =>
                            latest[DirOf[i]] # None /\ Upto(config'[i], latest[DirOf[i]])
                      /\ \A f \in Paths : loaded'[i][f] # None =>
                            latest[DirOf[i]] # None /\ f \in FileList(latest[DirOf[i]])
    BY DEF MemoryForward
  <2>1. CASE i = j
    BY <2>1 DEF MemoryForward
  <2>2. CASE i # j
    BY <2>2 DEF MemoryForward
  <2> QED
    BY <2>1, <2>2
<1>5. TodoHolds'
  <2> SUFFICES ASSUME NEW i \in Jvms
               PROVE  /\ at'[i] = "load" => loaded'[i][Global] # None
                      /\ at'[i] # "refresh" => todo'[i] = {}
                      /\ \A f \in todo'[i] : loaded'[i][f] # None
    BY DEF TodoHolds
  <2>1. CASE i = j
    BY <2>1
  <2>2. CASE i # j
    BY <2>2 DEF TodoHolds
  <2> QED
    BY <2>1, <2>2
<1>6. MemoryCurrent'
  <2> SUFFICES ASSUME NEW i \in Jvms, ~crossed[DirOf[i]], config'[i] # None,
                      config'[i] = latest[DirOf[i]]
               PROVE  UpToDate(i)'
    BY DEF MemoryCurrent
  <2>1. CASE i = j
    BY <2>1
  <2>2. CASE i # j
    BY <2>2 DEF MemoryCurrent, UpToDate
  <2> QED
    BY <2>1, <2>2
<1> QED
  BY <1>1, <1>2, <1>3, <1>4, <1>5, <1>6

\* What is read of a directory is of the version put there last.
LEMMA ReadsLatest ==
  ASSUME PullInv, NewsInv, NEW j \in Jvms, NEW f \in Paths, ~crossed[DirOf[j]],
         Read(j, f) # None
  PROVE  LET v == latest[DirOf[j]]
         IN v # None /\ f \in FileList(v) /\ Read(j, f) = Content[v][f]
<1> DEFINE h == DirOf[j]
<1>1. h \in Dirs /\ dest[h] # Absent /\ dest[h][f] # None /\ Read(j, f) = dest[h][f]
  BY DEF Read
<1>2. latest[h] # None /\ f \in FileList(latest[h])
  BY <1>1 DEF NewsInv, FilesForward
<1>3. dest[h] # Nothing
  BY <1>1 DEF Nothing
<1>4. \A i \in Jvms : DirOf[i] = h => at[i] # "install"
  BY <1>1, <1>3 DEF PullInv, Filled
<1>5. dest[h][f] = Content[latest[h]][f]
  BY <1>1, <1>2, <1>3, <1>4 DEF PullInv, DirHasVersion, FileList
<1> QED
  BY <1>1, <1>2, <1>5

\* So is a template, unless it was there before.
LEMMA TemplatesForward ==
  ASSUME PullInv, NewsInv, NEW j \in Jvms, NEW f \in Paths, ~crossed[DirOf[j]],
         Template(j, f) # None
  PROVE  LET v == latest[DirOf[j]]
         IN /\ v # None /\ f \in FileList(v)
            /\ loaded[j][f] = None => Template(j, f) = Content[v][f]
            /\ loaded[j][f] # None => Template(j, f) = loaded[j][f]
<1>1. CASE loaded[j][f] # None
  BY <1>1 DEF Template, NewsInv, MemoryForward
<1>2. CASE loaded[j][f] = None
  BY <1>2, ReadsLatest DEF Template
<1> QED
  BY <1>1, <1>2

\* What GlobalConfig.init leaves in memory.
LEMMA LoadGives ==
  ASSUME PullShape, MemoryShape, NEW j \in Jvms, CanLoadGlobal(j), LoadGlobal(j)
  PROVE  LET g == Read(j, Global)
         IN /\ g \in Contents /\ Listed[g] \subseteq Domains
            /\ loaded'[j][Global] = g
            /\ \A f \in Listed[g] : loaded'[j][f] = Template(j, f)
            /\ \A f \in Domains \ Listed[g] : loaded'[j][f] = loaded[j][f]
            /\ active'[j] = [f \in Paths |-> IF f \in Listed[g] THEN Template(j, f) ELSE None]
            /\ \A i \in Jvms \ {j} : loaded'[i] = loaded[i] /\ active'[i] = active[i]
<1>1. PICK g \in Contents : g = Read(j, Global)
  BY ReadTyped DEF CanLoadGlobal
<1>2. Listed[g] \subseteq Domains
  BY DEF Domains
<1> DEFINE L == [f \in Paths |-> CASE f = Global -> g
                                   [] f \in Listed[g] -> Template(j, f)
                                   [] OTHER -> loaded[j][f]]
           A == [f \in Paths |-> IF f \in Listed[g] THEN Template(j, f) ELSE None]
<1>3. loaded' = [loaded EXCEPT ![j] = L] /\ active' = [active EXCEPT ![j] = A]
  BY <1>1 DEF LoadGlobal
<1>4. L[Global] = g
  OBVIOUS
<1>5. \A f \in Listed[g] : L[f] = Template(j, f)
  BY <1>2 DEF Domains
<1>6. \A f \in Domains \ Listed[g] : L[f] = loaded[j][f]
  BY DEF Domains
<1> HIDE DEF L
<1>7. loaded'[j] = L /\ active'[j] = A
      /\ \A i \in Jvms \ {j} : loaded'[i] = loaded[i] /\ active'[i] = active[i]
  BY <1>3 DEF MemoryShape
<1> QED
  BY <1>1, <1>2, <1>4, <1>5, <1>6, <1>7

\* Nothing of it is ahead of the directory, and if the domains are up to date,
\* so are the templates.
LEMMA LoadsLatest ==
  ASSUME PullInv, MemoryShape, NewsInv, NEW j \in Jvms, ~crossed[DirOf[j]],
         CanLoadGlobal(j), LoadGlobal(j)
  PROVE  LET v == latest[DirOf[j]]
         IN /\ v # None
            /\ \A f \in Paths : loaded'[j][f] # None => f \in FileList(v)
            /\ (\A f \in Domains : Content[v][f] # None =>
                                      loaded[j][f] \in {None, Content[v][f]})
               => /\ active'[j] = Templates(v)
                  /\ \A f \in Paths : Content[v][f] # None =>
                        loaded'[j][f] \in {None, Content[v][f]}
<1> DEFINE v == latest[DirOf[j]]
           g == Read(j, Global)
<1>1. v # None /\ Global \in FileList(v) /\ g = Content[v][Global] /\ Global \in Paths
  BY ReadsLatest DEF CanLoadGlobal
<1>2. /\ g \in Contents /\ Listed[g] \subseteq Domains
      /\ loaded'[j][Global] = g
      /\ \A f \in Listed[g] : loaded'[j][f] = Template(j, f)
      /\ \A f \in Domains \ Listed[g] : loaded'[j][f] = loaded[j][f]
      /\ active'[j] = [f \in Paths |-> IF f \in Listed[g] THEN Template(j, f) ELSE None]
  BY LoadGives DEF PullInv
<1>3. \A f \in Listed[g] : Template(j, f) # None
  BY DEF CanLoadGlobal
<1>4. \A f \in Listed[g] : /\ f \in Paths /\ f \in FileList(v)
                           /\ loaded[j][f] = None => Template(j, f) = Content[v][f]
                           /\ loaded[j][f] # None => Template(j, f) = loaded[j][f]
  BY <1>2, <1>3, TemplatesForward DEF Domains
<1>5. \A f \in Domains : loaded[j][f] # None => f \in FileList(v)
  BY DEF NewsInv, MemoryForward, Domains
<1> HIDE DEF v, g
<1>6. ASSUME NEW f \in Paths, loaded'[j][f] # None
      PROVE  f \in FileList(v)
  <2>1. CASE f = Global
    BY <1>1, <2>1
  <2>2. CASE f \in Listed[g]
    BY <1>4, <2>2
  <2>3. CASE f \in Domains \ Listed[g]
    BY <1>2, <1>5, <1>6, <2>3
  <2> QED
    BY <2>1, <2>2, <2>3 DEF Domains
<1>7. ASSUME \A f \in Domains : Content[v][f] # None =>
                                   loaded[j][f] \in {None, Content[v][f]}
      PROVE  /\ active'[j] = Templates(v)
             /\ \A f \in Paths : Content[v][f] # None =>
                   loaded'[j][f] \in {None, Content[v][f]}
  <2>1. \A f \in Listed[g] : Template(j, f) = Content[v][f]
    BY <1>2, <1>4, <1>7 DEF FileList
  <2>2. active'[j] = Templates(v)
    BY <1>1, <1>2, <2>1 DEF Templates
  <2>3. ASSUME NEW f \in Paths, Content[v][f] # None
        PROVE  loaded'[j][f] \in {None, Content[v][f]}
    <3>1. CASE f = Global
      BY <1>1, <1>2, <3>1
    <3>2. CASE f \in Listed[g]
      BY <1>2, <2>1, <3>2
    <3>3. CASE f \in Domains \ Listed[g]
      BY <1>2, <1>7, <2>3, <3>3
    <3> QED
      BY <3>1, <3>2, <3>3 DEF Domains
  <2> QED
    BY <2>2, <2>3
<1> QED
  BY <1>1, <1>6, <1>7 DEF v

\* The map comes to global.json when nothing else is left.
LEMMA GlobalComesLast ==
  ASSUME GlobalIsLast, MemoryShape, NEW j \in Jvms, IsNext(j, Global)
  PROVE  todo[j] = {Global}
<1>1. DOMAIN Order = 1..Len(Order) /\ Len(Order) \in Nat
  BY DEF GlobalIsLast
<1>2. ASSUME NEW g \in todo[j], g # Global
      PROVE  FALSE
  <2>1. PICK a, b \in DOMAIN Order : a < b /\ Order[a] = Global /\ Order[b] = g
    BY <1>2 DEF IsNext
  <2>2. Len(Order) \in DOMAIN Order /\ Order[Len(Order)] = Order[a]
    BY <1>1, <2>1 DEF GlobalIsLast
  <2>3. a = Len(Order)
    BY <2>1, <2>2 DEF IsInjective
  <2> QED
    BY <1>1, <2>1, <2>3
<1> QED
  BY <1>2 DEF IsNext

\* An object is made anew; the global configuration, when the domains are.
LEMMA RefreshKeepsNews ==
  ASSUME GlobalIsLast, NEW j \in Jvms, NEW f \in todo[j], PullInv, MemoryShape, NewsInv,
         Refresh(j, f)
  PROVE  NewsInv'
<1> DEFINE v == latest[DirOf[j]]
<1>1. /\ UNCHANGED <<tree, dest, tmp, crossed, latest, config, at, pull>>
      /\ at[j] = "refresh" /\ f \in Paths
      /\ todo'[j] = todo[j] \ {f} /\ (\A i \in Jvms \ {j} : todo'[i] = todo[i])
  BY DEF Refresh, MemoryShape, storeVars
<1>2. ~crossed[DirOf[j]] => config[j] = v /\ v # None /\ UpToDate(j)
  BY <1>1 DEF NewsInv, RecordHolds, MemoryCurrent
<1>3. \A g \in todo[j] : loaded[j][g] # None
  BY DEF NewsInv, TodoHolds
<1>4. ~crossed[DirOf[j]] => \A g \in Paths : loaded[j][g] # None => g \in FileList(v)
  BY DEF NewsInv, MemoryForward
<1>5. CASE f = Global
  <2>1. CanLoadGlobal(j) /\ LoadGlobal(j) /\ todo[j] = {Global}
    BY <1>5, GlobalComesLast DEF Refresh
  <2>2. \A i \in Jvms \ {j} : loaded'[i] = loaded[i] /\ active'[i] = active[i]
    BY <2>1, LoadGives DEF PullInv
  <2>3. todo'[j] = {}
    BY <1>1, <1>5, <2>1
  <2>4. ~crossed[DirOf[j]] =>
          \A g \in Domains : Content[v][g] # None => loaded[j][g] \in {None, Content[v][g]}
    BY <1>2, <2>1 DEF UpToDate, Domains
  <2>5. ~crossed[DirOf[j]] =>
          /\ \A g \in Paths : loaded'[j][g] # None => g \in FileList(v)
          /\ active'[j] = Templates(v)
          /\ \A g \in Paths : Content[v][g] # None => loaded'[j][g] \in {None, Content[v][g]}
    BY <2>1, <2>4, LoadsLatest
  <2>6. ~crossed[DirOf[j]] => UpToDate(j)'
    BY <1>1, <1>2, <2>5 DEF UpToDate, Templates
  <2> QED
    BY <1>1, <1>2, <2>2, <2>3, <2>5, <2>6, OneKeepsNews DEF Pulling
<1>6. CASE f # Global
  <2>1. Read(j, f) # None /\ active' = active
        /\ loaded' = [loaded EXCEPT ![j][f] = Read(j, f)]
    BY <1>6 DEF Refresh
  <2>2. /\ loaded'[j][f] = Read(j, f)
        /\ (\A g \in Paths \ {f} : loaded'[j][g] = loaded[j][g])
        /\ \A i \in Jvms \ {j} : loaded'[i] = loaded[i]
    BY <1>1, <2>1 DEF MemoryShape, Files
  <2>3. ~crossed[DirOf[j]] => f \in FileList(v) /\ Read(j, f) = Content[v][f]
    BY <1>1, <2>1, ReadsLatest
  <2>4. ~crossed[DirOf[j]] => \A g \in Paths : loaded'[j][g] # None => g \in FileList(v)
    BY <1>4, <2>2, <2>3
  <2>5. todo[j] \subseteq Paths /\ Global \in Paths
    BY DEF MemoryShape
  <2>6. \A g \in todo'[j] : loaded'[j][g] # None
    BY <1>1, <1>3, <2>2, <2>5
  <2>7. ~crossed[DirOf[j]] => UpToDate(j)'
    <3> SUFFICES ASSUME ~crossed[DirOf[j]] PROVE UpToDate(j)'
      OBVIOUS
    <3>1. \A g \in Paths \ todo'[j] :
             Content[v][g] # None => loaded'[j][g] \in {None, Content[v][g]}
      BY <1>1, <1>2, <2>2, <2>3 DEF UpToDate
    <3>2. Global \notin todo'[j] /\ loaded'[j][Global] # None => active'[j] = Templates(v)
      BY <1>1, <1>2, <1>6, <2>1, <2>2, <2>5 DEF UpToDate
    <3> QED
      BY <1>1, <1>2, <3>1, <3>2 DEF UpToDate, Templates
  <2> QED
    BY <1>1, <1>2, <2>1, <2>2, <2>4, <2>6, <2>7, OneKeepsNews DEF Pulling
<1> QED
  BY <1>5, <1>6

\* No file of a whole version is missed.
LEMMA FailKeepsNews ==
  ASSUME Whole, NEW j \in Jvms, NEW f \in todo[j], PullInv, MemoryShape, NewsInv,
         RefreshFails(j, f)
  PROVE  NewsInv'
<1> DEFINE h == DirOf[j]
           v == latest[DirOf[j]]
<1>1. /\ UNCHANGED <<tree, dest, tmp, crossed, latest, config, pull, active>>
      /\ at[j] = "refresh" /\ f \in Paths /\ at'[j] \in {"off", "idle"} /\ todo'[j] = {}
      /\ \A i \in Jvms \ {j} : at'[i] = at[i] /\ todo'[i] = todo[i]
  BY DEF RefreshFails, LoadGlobalFails, Goes, MemoryShape, PullInv, PullShape, storeVars
<1>3. \A i \in Jvms \ {j} : loaded'[i] = loaded[i]
  BY DEF RefreshFails, LoadGlobalFails, MemoryShape
<1>2. ASSUME ~crossed[h]
      PROVE  FALSE
  <2>1. /\ v \in Versions /\ dest[h] # Absent
        /\ \A g \in Paths : Content[v][g] # None => Read(j, g) = Content[v][g]
    BY <1>1, <1>2 DEF NewsInv, RecordHolds, In, Read, PullInv, PullShape
  <2>2. CASE f # Global
    <3>1. loaded[j][f] # None
      BY DEF NewsInv, TodoHolds
    <3>2. Content[v][f] # None
      BY <1>1, <1>2, <3>1 DEF NewsInv, MemoryForward, FileList
    <3> QED
      BY <1>1, <2>1, <2>2, <3>2 DEF RefreshFails
  <2>3. CASE f = Global
    <3> DEFINE g == Content[v][Global]
    <3>1. g # None /\ g \in Contents /\ \A d \in Listed[g] : Content[v][d] # None
      BY <1>1, <2>1, <2>3 DEF Whole
    <3>2. Listed[g] \subseteq Paths
      BY <3>1
    <3>3. Read(j, Global) = g
      BY <1>1, <2>1, <2>3, <3>1
    <3>4. \A d \in Listed[g] : Template(j, d) # None
      BY <2>1, <3>1, <3>2 DEF Template
    <3>5. CanLoadGlobal(j)
      BY <3>1, <3>3, <3>4 DEF CanLoadGlobal
    <3> QED
      BY <2>3, <3>5 DEF RefreshFails, LoadGlobalFails
  <2> QED
    BY <2>2, <2>3
<1> QED
  BY <1>1, <1>2, <1>3, OneKeepsNews DEF Pulling

\* The beat has its global configuration, or makes it.
LEMMA ConfigureKeepsNews ==
  ASSUME NEW j \in Jvms, PullInv, MemoryShape, NewsInv, GetGlobalConfig(j)
  PROVE  NewsInv'
<1> DEFINE v == latest[DirOf[j]]
<1>1. /\ UNCHANGED <<tree, dest, tmp, crossed, latest, config, pull, todo>>
      /\ at[j] = "configure" /\ at'[j] \in {"off", "load"} /\ todo[j] = {}
      /\ \A i \in Jvms \ {j} : at'[i] = at[i]
  BY DEF GetGlobalConfig, Goes, PullInv, PullShape, NewsInv, TodoHolds, storeVars
<1>2. CASE loaded[j][Global] # None /\ UNCHANGED <<loaded, active>>
  <2>1. ~crossed[DirOf[j]] => \A g \in Paths :
           loaded'[j][g] # None => v # None /\ g \in FileList(v)
    BY <1>2 DEF NewsInv, MemoryForward
  <2>2. ~crossed[DirOf[j]] /\ config[j] # None /\ config[j] = v => UpToDate(j)'
    BY <1>1, <1>2 DEF NewsInv, MemoryCurrent, UpToDate
  <2> QED
    BY <1>1, <1>2, <2>1, <2>2, OneKeepsNews DEF Pulling
<1>3. CASE CanLoadGlobal(j) /\ LoadGlobal(j)
  <2>1. \A i \in Jvms \ {j} : loaded'[i] = loaded[i] /\ active'[i] = active[i]
    BY <1>3, LoadGives DEF PullInv
  <2>2. loaded'[j][Global] # None
    <3>1. Read(j, Global) \in Contents /\ loaded'[j][Global] = Read(j, Global)
      BY <1>3, LoadGives DEF PullInv
    <3> QED
      BY <3>1
  <2>3. ~crossed[DirOf[j]] =>
           v # None /\ \A g \in Paths : loaded'[j][g] # None => g \in FileList(v)
    BY <1>3, LoadsLatest
  <2>4. ASSUME ~crossed[DirOf[j]], config[j] # None, config[j] = v
        PROVE  UpToDate(j)'
    <3>1. UpToDate(j)
      BY <2>4 DEF NewsInv, MemoryCurrent
    <3>2. \A g \in Domains : Content[v][g] # None => loaded[j][g] \in {None, Content[v][g]}
      BY <1>1, <2>4, <3>1 DEF UpToDate, Domains
    <3>3. /\ active'[j] = Templates(v)
          /\ \A g \in Paths : Content[v][g] # None => loaded'[j][g] \in {None, Content[v][g]}
      BY <1>3, <2>4, <3>2, LoadsLatest
    <3> QED
      BY <1>1, <2>4, <3>3 DEF UpToDate, Templates
  <2> QED
    BY <1>1, <2>1, <2>2, <2>3, <2>4, OneKeepsNews DEF Pulling
<1> QED
  BY <1>2, <1>3 DEF GetGlobalConfig

\* Without it, the templates stay as they are, and domains come from the
\* directory.
LEMMA NoConfigKeepsNews ==
  ASSUME NEW j \in Jvms, PullInv, MemoryShape, NewsInv, NoGlobalConfig(j)
  PROVE  NewsInv'
<1> DEFINE v == latest[DirOf[j]]
<1>1. /\ UNCHANGED <<tree, dest, tmp, crossed, latest, config, pull, todo, active>>
      /\ at[j] = "configure" /\ at'[j] \in {"off", "idle"} /\ todo[j] = {}
      /\ loaded[j][Global] = None /\ \A i \in Jvms \ {j} : at'[i] = at[i]
  BY DEF NoGlobalConfig, LoadGlobalFails, Goes, PullInv, PullShape, NewsInv, TodoHolds, storeVars
<1>2. PICK S \in SUBSET (IF Read(j, Global) = None THEN {} ELSE Listed[Read(j, Global)]) :
         loaded' = [loaded EXCEPT ![j] = [f \in Paths |->
            IF f \in S THEN Template(j, f) ELSE loaded[j][f]]]
  BY DEF NoGlobalConfig, LoadGlobalFails
<1>3. S \subseteq Domains
  <2>1. Read(j, Global) \in Contents \cup {None}
    BY ReadTyped DEF PullInv
  <2> QED
    BY <2>1 DEF Domains
<1>4. /\ \A f \in S : loaded'[j][f] = Template(j, f)
      /\ \A f \in Paths \ S : loaded'[j][f] = loaded[j][f]
      /\ \A i \in Jvms \ {j} : loaded'[i] = loaded[i]
  BY <1>2, <1>3 DEF MemoryShape, Domains
<1>5. ~crossed[DirOf[j]] => \A f \in Paths : loaded'[j][f] # None =>
         /\ v # None /\ f \in FileList(v)
         /\ loaded'[j][f] \in {loaded[j][f], Content[v][f]}
  <2> SUFFICES ASSUME ~crossed[DirOf[j]], NEW f \in Paths, loaded'[j][f] # None
               PROVE  /\ v # None /\ f \in FileList(v)
                      /\ loaded'[j][f] \in {loaded[j][f], Content[v][f]}
    OBVIOUS
  <2>1. CASE f \in S
    BY <1>4, <2>1, TemplatesForward
  <2>2. CASE f \notin S
    BY <1>4, <2>2 DEF NewsInv, MemoryForward
  <2> QED
    BY <2>1, <2>2
<1>6. loaded'[j][Global] = None
  BY <1>1, <1>3, <1>4 DEF Domains
<1>7. ASSUME ~crossed[DirOf[j]], config[j] # None, config[j] = v
      PROVE  UpToDate(j)'
  <2>1. UpToDate(j)
    BY <1>7 DEF NewsInv, MemoryCurrent
  <2>2. \A f \in Paths : Content[v][f] # None => loaded'[j][f] \in {None, Content[v][f]}
    BY <1>1, <1>5, <1>7, <2>1 DEF UpToDate
  <2> QED
    BY <1>1, <1>6, <1>7, <2>2 DEF UpToDate
<1> QED
  BY <1>1, <1>4, <1>5, <1>7, OneKeepsNews DEF Pulling

\* Nothing is loaded or forgotten.
LEMMA RestKeepsNews ==
  ASSUME NEW j \in Jvms, PullInv, NewsInv, Refreshed(j) \/ DomainStep(j) \/ PullFails(j)
  PROVE  NewsInv'
<1>1. UNCHANGED <<tree, dest, tmp, crossed, latest, config, loaded, active, todo>>
  BY DEF Refreshed, DomainStep, LoadDomains, InsertDomain, UpdateDomain, EndBeat, PullFails,
         memory, storeVars
<1>2. at[j] \in {"refresh", "load", "domains", "pull", "write"}
      /\ (at[j] = "refresh" => todo[j] = {})
  BY DEF Refreshed, DomainStep, LoadDomains, InsertDomain, UpdateDomain, EndBeat, PullFails
<1>3. /\ at'[j] \in {"off", "idle", "configure", "domains"}
      /\ \A i \in Jvms \ {j} : at'[i] = at[i] /\ pull'[i] = pull[i]
  <2> USE DEF PullInv, PullShape
  <2>1. CASE Refreshed(j) \/ LoadDomains(j) \/ EndBeat(j)
    BY <2>1 DEF Refreshed, LoadDomains, EndBeat, Goes, memory
  <2>2. ASSUME NEW d, InsertDomain(j, d)
        PROVE  <1>3!:
    BY <2>2 DEF InsertDomain, Goes
  <2>3. ASSUME NEW u, UpdateDomain(j, u)
        PROVE  <1>3!:
    BY <2>3 DEF UpdateDomain
  <2>4. CASE PullFails(j)
    BY <2>4 DEF PullFails, Goes
  <2> QED
    BY <2>1, <2>2, <2>3, <2>4 DEF DomainStep
<1>4. todo[j] = {}
  BY <1>2 DEF NewsInv, TodoHolds
<1>5. ~crossed[DirOf[j]] => \A f \in Paths : loaded[j][f] # None =>
         latest[DirOf[j]] # None /\ f \in FileList(latest[DirOf[j]])
  BY DEF NewsInv, MemoryForward
<1>6. ~crossed[DirOf[j]] /\ config[j] # None /\ config[j] = latest[DirOf[j]] => UpToDate(j)'
  BY <1>1 DEF NewsInv, MemoryCurrent, UpToDate
<1> QED
  BY <1>1, <1>3, <1>4, <1>5, <1>6, OneKeepsNews DEF Pulling

\* A new JVM remembers nothing.
LEMMA RestartKeepsNews ==
  ASSUME NEW j \in Jvms, PullInv, MemoryShape, NewsInv, Restart(j)
  PROVE  NewsInv'
<1>1. /\ UNCHANGED <<tree, tmp, crossed, latest>>
      /\ \A h \in Dirs : dest'[h] = dest[h] \/ (dest[h] = Absent /\ dest'[h] = Nothing)
  BY DEF Restart, storeVars, PullInv, PullShape
<1>2. /\ at'[j] = "idle" /\ config'[j] = None /\ loaded'[j] = Nothing /\ todo'[j] = {}
      /\ \A i \in Jvms \ {j} :
            /\ at'[i] = at[i] /\ pull'[i] = pull[i] /\ config'[i] = config[i]
            /\ loaded'[i] = loaded[i] /\ active'[i] = active[i] /\ todo'[i] = todo[i]
  BY DEF Restart, Goes, PullInv, PullShape, MemoryShape
<1>3. \A f \in Paths : Nothing[f] = None
  BY DEF Nothing
<1> QED
  BY <1>1, <1>2, <1>3, OneKeepsNews DEF Pulling

\* Every step keeps NewsInv, as long as the versions in NN_TREE go forward.
LEMMA NextKeepsNews ==
  ASSUME AgeOK, Whole, GlobalIsLast, StoreInv, PullInv, MemoryShape, NewsInv,
         [Next]_vars, [Forward]_vars
  PROVE  NewsInv'
<1>1. CASE UNCHANGED vars
  BY <1>1 DEF vars, syncVars, storeVars, memory, NewsInv, PullsForward, FilesForward,
              RecordHolds, In, MemoryForward, TodoHolds, MemoryCurrent, UpToDate
<1>2. ASSUME NEW p \in Pushers, (PushStep(p) /\ UNCHANGED syncVars) \/ PushBreaksOff(p),
             ~UNCHANGED vars
      PROVE  NewsInv'
  <2>1. UNCHANGED <<dest, tmp, memory, at, crossed, latest>>
    BY <1>2 DEF syncVars, PushBreaksOff
  <2>2. tree # None => tree' \in Versions
    BY <1>2 DEF PushStep, PushBreaksOff, PushAborts, Check, StreamFile, StreamClash,
                CheckTree, StreamTree, UpdateTree, InsertTree, AddHistory, StoreInv,
                StoreShape
  <2> QED
    BY <1>2, <2>1, <2>2, PushKeepsNews
<1>3. ASSUME NEW j \in Jvms, SyncStep(j) \/ DomainStep(j) \/ PullFails(j) \/ Restart(j)
      PROVE  NewsInv'
  <2>1. ASSUME NEW f \in pull[j].files, WriteFile(j, f)
        PROVE  NewsInv'
    <3>1. f \in Paths
      BY DEF PullInv, PullShape, Pulls
    <3> QED
      BY <2>1, <3>1, WriteKeepsNews
  <2>2. CASE Sync(j) \/ BeginPull(j)
    BY <2>2, SyncKeepsNews, BeginKeepsNews
  <2>3. CASE SwapOut(j) \/ SwapIn(j) \/ PulledInPlace(j) \/ Record(j)
    BY <2>3, SwapOutKeepsNews, SwapInKeepsNews, InPlaceKeepsNews, RecordKeepsNews
  <2>4. ASSUME NEW f \in todo[j], Refresh(j, f) \/ RefreshFails(j, f)
        PROVE  NewsInv'
    BY <2>4, RefreshKeepsNews, FailKeepsNews
  <2>5. CASE GetGlobalConfig(j) \/ NoGlobalConfig(j)
    BY <2>5, ConfigureKeepsNews, NoConfigKeepsNews
  <2> QED
    BY <1>3, <2>1, <2>2, <2>3, <2>4, <2>5, RestKeepsNews, RestartKeepsNews DEF SyncStep
<1> QED
  BY <1>1, <1>2, <1>3 DEF Next

\* For any pushers, workers and commands, also several in one directory, and
\* any versions that are whole, come in an order and take no file away: the
\* templates by which a beat goes are those of the version that the JVM
\* remembers, if that is the one in its directory and no two JVMs pulled into
\* it at once, wherever pushes and pulls broke off (Singletons.refreshAll,
\* WorkerData.checkGlobalConfig, BeatLogic.ensureDomains).
THEOREM UpdatesAreLoaded ==
  ASSUME AgeOK, Whole, GlobalIsLast
  PROVE  Spec /\ [][Forward]_vars => []AllUpdatesLoaded
<1> DEFINE I == StoreInv /\ PullInv /\ MemoryShape /\ NewsInv
<1>1. Init => I
  BY StoreStarts, PullStarts, MemoryStarts, NewsStarts
<1>2. I /\ [Next]_vars /\ [Forward]_vars => I'
  BY NextKeepsStore, NextKeepsPull, NextKeepsMemory, NextKeepsNews
<1>3. I => AllUpdatesLoaded
  <2> SUFFICES ASSUME I, NEW j \in Jvms, at[j] = "load", config[j] # None,
                      config[j] = latest[DirOf[j]], ~crossed[DirOf[j]]
               PROVE  active[j] = Templates(config[j])
    BY DEF AllUpdatesLoaded, Templates
  <2>1. todo[j] = {} /\ loaded[j][Global] # None
    BY DEF NewsInv, TodoHolds
  <2> QED
    BY <2>1 DEF NewsInv, MemoryCurrent, UpToDate
<1> QED
  BY <1>1, <1>2, <1>3, PTL DEF Spec
==============================================================================
