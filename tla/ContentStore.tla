----------------------------- MODULE ContentStore -----------------------------
(***************************************************************************)
(* The store of files and directories in the database.  NN_SHA_STORAGE     *)
(* holds contents by hash, and lists of files, which are contents too and  *)
(* stand for a version of a directory; the row of NN_TREE names the        *)
(* version that is current.  PushConfig scans a directory, inserts what is *)
(* not in the store yet, the list of files last, and then makes its        *)
(* version the current one: one statement after another, each committed by *)
(* itself.                                                                 *)
(***************************************************************************)
EXTENDS Sequences, FiniteSets

CONSTANTS Versions, \* directories that are pushed; also the hashes of their lists
          Paths,    \* the files of a directory
          Contents, \* what is in files; also the hashes thereof
          Content,  \* per version and path: the content, or None
          None,
          Pushers,  \* each a run of PushConfig
          Pushes    \* the version each pushes

ASSUME ContentAssumption ==
    /\ Versions \cap Contents = {} /\ None \notin Versions \cup Contents
    /\ Content \in [Versions -> [Paths -> Contents \cup {None}]]
    /\ Pushes \in [Pushers -> Versions]

VARIABLES store,   \* the hashes in NN_SHA_STORAGE
          tree,    \* the version in NN_TREE, None if there is no row
          history, \* the versions in NN_TREE_HISTORY
          pushing, \* per pusher: where it is
          missing  \* per pusher: the contents it has found missing

storeVars == <<store, tree, history, pushing, missing>>

PushPhase == {"off", "check", "files", "streamTree", "update", "insert", "again",
              "history", "done"}

\* getAllCodes
Codes(v) == {Content[v][f] : f \in Paths} \ {None}

\* The store before the pushers in S begin: empty, or with one version.
StoreInit(S, v) ==
    /\ store = IF v = None THEN {} ELSE Codes(v) \cup {v}
    /\ tree = v
    /\ history = IF v = None THEN <<>> ELSE <<v>>
    /\ pushing = [p \in Pushers |-> IF p \in S THEN "check" ELSE "off"]
    /\ missing = [p \in Pushers |-> {}]

StoreOK ==
    /\ store \subseteq Contents \cup Versions
    /\ tree \in Versions \cup {None}
    /\ history \in Seq(Versions)
    /\ pushing \in [Pushers -> PushPhase]
    /\ missing \in [Pushers -> SUBSET Contents]

------------------------------------------------------------------------------

Pushing(p, at) == pushing' = [pushing EXCEPT ![p] = at]

\* CHECK_HASH_KEY of all files.  (An empty directory, for which push returns null
\* and stores nothing, is not among the versions pushed.)
Check(p) ==
    /\ pushing[p] = "check"
    /\ missing' = [missing EXCEPT ![p] = Codes(Pushes[p]) \ store]
    /\ Pushing(p, "files")
    /\ UNCHANGED <<store, tree, history>>

\* STREAM_CONTENT_IN of one file, which is taken not to have changed since the
\* scan of the directory: it is read again here, under the hash of the scan.
StreamFile(p, c) ==
    /\ pushing[p] = "files"
    /\ c \in missing[p] \ store
    /\ store' = store \cup {c}
    /\ missing' = [missing EXCEPT ![p] = @ \ {c}]
    /\ UNCHANGED <<tree, history, pushing>>

\* Another push was faster: the primary key ends this one.
StreamClash(p, c) ==
    /\ pushing[p] = "files"
    /\ c \in missing[p] \cap store
    /\ missing' = [missing EXCEPT ![p] = {}]
    /\ Pushing(p, "done")
    /\ UNCHANGED <<store, tree, history>>

\* Mutant of CheckTree: the files need not be there.
CheckTreeEarly(p) ==
    /\ pushing[p] = "files"
    /\ missing' = [missing EXCEPT ![p] = {}]
    /\ Pushing(p, IF Pushes[p] \in store THEN "update" ELSE "streamTree")
    /\ UNCHANGED <<store, tree, history>>

\* CHECK_HASH_KEY of the list of files
CheckTree(p) ==
    /\ pushing[p] = "files"
    /\ missing[p] = {}
    /\ Pushing(p, IF Pushes[p] \in store THEN "update" ELSE "streamTree")
    /\ UNCHANGED <<store, tree, history, missing>>

\* Its primary key, too, ends a push that comes second.
StreamTree(p) ==
    /\ pushing[p] = "streamTree"
    /\ store' = store \cup {Pushes[p]}
    /\ Pushing(p, IF Pushes[p] \in store THEN "done" ELSE "update")
    /\ UNCHANGED <<tree, history, missing>>

\* doUpdateInsertUpdate: UPDATE_CONTENT_TREE_SUMMARY, the first or the second
UpdateTree(p) ==
    /\ pushing[p] \in {"update", "again"}
    /\ tree' = IF tree = None THEN None ELSE Pushes[p]
    /\ Pushing(p, IF tree = None /\ pushing[p] = "update" THEN "insert" ELSE "history")
    /\ UNCHANGED <<store, history, missing>>

\* INSERT_CONTENT_TREE_SUMMARY, whose exception is ignored
InsertTree(p) ==
    /\ pushing[p] = "insert"
    /\ tree' = IF tree = None THEN Pushes[p] ELSE tree
    /\ Pushing(p, IF tree = None THEN "history" ELSE "again")
    /\ UNCHANGED <<store, history, missing>>

\* CONTENT_TREE_HISTORY
AddHistory(p) ==
    /\ pushing[p] = "history"
    /\ history' = Append(history, Pushes[p])
    /\ Pushing(p, "done")
    /\ UNCHANGED <<store, tree, missing>>

PushStep(p) ==
    \/ Check(p)
    \/ \E c \in missing[p] : StreamFile(p, c) \/ StreamClash(p, c)
    \/ CheckTree(p) \/ StreamTree(p) \/ UpdateTree(p) \/ InsertTree(p) \/ AddHistory(p)

\* The push is interrupted; what it has inserted stays.
PushAborts(p) ==
    /\ pushing[p] \notin {"off", "done"}
    /\ missing' = [missing EXCEPT ![p] = {}]
    /\ Pushing(p, "done")
    /\ UNCHANGED <<store, tree, history>>

------------------------------------------------------------------------------

\* A list of files is in the store only together with the files, whichever
\* pushes of shared contents interleave or break off: what NN_TREE names can
\* be pulled (DbCoordinator.push).
StoreClosed ==
    /\ \A v \in Versions \cap store : Codes(v) \subseteq store
    /\ tree # None => tree \in store
==============================================================================
