------------------------------ MODULE IdFactory ------------------------------
(***************************************************************************)
(* coordinator/db/IdFactory.java: how several JVMs draw row ids from the   *)
(* shared table NN_ID_FACTORY.                                             *)
(*                                                                         *)
(* Every JVM keeps one IdRange per table name, an in-memory interval       *)
(* [start, stop) that IdRange.getNext hands out one id at a time.  When    *)
(* the interval is used up getNext reserves the next GRAB ids by a SELECT  *)
(* of the counter followed by an INSERT or a compare-and-set UPDATE.  The  *)
(* connection is in autocommit mode, so each SQL statement is one step of  *)
(* its own and anything may happen in between, a crash of the JVM          *)
(* included.  getNext is synchronized: the threads of one JVM exclude each *)
(* other per table; threads of different JVMs meet only in the database.   *)
(***************************************************************************)
EXTENDS Naturals

CONSTANTS JVMs,       \* the processes that share the database
          Threads,    \* threads that call getNext (the beat, a command, ...)
          JvmOf,      \* the JVM each thread lives in
          Tables,     \* table names ids are drawn for
          NoThread,   \* owner of a free monitor
          GRAB,       \* GRAB_N_NUMBERS_AT_THE_TIME (10 in the source)
          MaxCounter  \* bound: no call starts once the counter is above it

ASSUME GrabAssumption == GRAB \in Nat \ {0}
ASSUME BoundAssumption == MaxCounter \in Nat
ASSUME ThreadAssumption == JvmOf \in [Threads -> JVMs] /\ NoThread \notin Threads

VARIABLES counter,  \* NN_ID_FACTORY.COUNTER of a table, 0 when it has no row
          start,    \* IdRange.start of each JVM and table
          stop,     \* IdRange.stop of each JVM and table
          monitor,  \* the thread inside getNext of that JVM's IdRange
          pc,       \* where a thread is in getNext
          table,    \* the table the thread's call is for
          seen,     \* the counter value the thread's SELECT returned
          issued    \* history: the ids getNext has returned, per table

vars == <<counter, start, stop, monitor, pc, table, seen, issued>>

TypeOK ==
    /\ counter \in [Tables -> Nat]
    /\ start \in [JVMs -> [Tables -> Nat]]
    /\ stop \in [JVMs -> [Tables -> Nat]]
    /\ monitor \in [JVMs -> [Tables -> Threads \cup {NoThread}]]
    /\ pc \in [Threads -> {"idle", "loop", "insert", "update"}]
    /\ table \in [Threads -> Tables]
    /\ seen \in [Threads -> Nat]
    /\ issued \in [Tables -> SUBSET Nat]

Init ==
    /\ counter = [tb \in Tables |-> 0]
    /\ start = [j \in JVMs |-> [tb \in Tables |-> 0]]
    /\ stop = [j \in JVMs |-> [tb \in Tables |-> 0]]
    /\ monitor = [j \in JVMs |-> [tb \in Tables |-> NoThread]]
    /\ pc = [th \in Threads |-> "idle"]
    /\ table \in [Threads -> Tables]
    /\ seen = [th \in Threads |-> 0]
    /\ issued = [tb \in Tables |-> {}]

------------------------------------------------------------------------------
(* The IdRange and the row a thread works on.                              *)

RangeStart(th) == start[JvmOf[th]][table[th]]
RangeStop(th) == stop[JvmOf[th]][table[th]]
Row(th) == counter[table[th]]

SetRange(th, from, to) ==
    /\ start' = [start EXCEPT ![JvmOf[th]][table[th]] = from]
    /\ stop' = [stop EXCEPT ![JvmOf[th]][table[th]] = to]

\* The call is over, by return or by exception; the monitor is free again.
Leave(th) ==
    /\ pc' = [pc EXCEPT ![th] = "idle"]
    /\ monitor' = [monitor EXCEPT ![JvmOf[th]][table[th]] = NoThread]

------------------------------------------------------------------------------

\* A thread calls getIdRange(tb).getNext() and gets the range's monitor.
Call(th, tb) ==
    /\ pc[th] = "idle"
    /\ monitor[JvmOf[th]][tb] = NoThread
    /\ counter[tb] <= MaxCounter
    /\ monitor' = [monitor EXCEPT ![JvmOf[th]][tb] = th]
    /\ table' = [table EXCEPT ![th] = tb]
    /\ pc' = [pc EXCEPT ![th] = "loop"]
    /\ UNCHANGED <<counter, start, stop, seen, issued>>

\* while (start >= stop): SELECT_NEXT_NUM finds no row or one row.
Select(th) ==
    /\ pc[th] = "loop"
    /\ RangeStart(th) >= RangeStop(th)
    /\ seen' = [seen EXCEPT ![th] = Row(th)]
    /\ pc' = [pc EXCEPT ![th] = IF Row(th) = 0 THEN "insert" ELSE "update"]
    /\ UNCHANGED <<counter, start, stop, monitor, table, issued>>

\* Mutant of Insert: the row of another JVM is overwritten.
InsertBlind(th) ==
    /\ pc[th] = "insert"
    /\ counter' = [counter EXCEPT ![table[th]] = GRAB]
    /\ SetRange(th, 1, GRAB)
    /\ pc' = [pc EXCEPT ![th] = "loop"]
    /\ UNCHANGED <<monitor, table, seen, issued>>

\* CREATE_TABLE_ENTRY: the first row of the table.
Insert(th) ==
    /\ pc[th] = "insert"
    /\ Row(th) = 0
    /\ counter' = [counter EXCEPT ![table[th]] = GRAB]
    /\ SetRange(th, 1, GRAB)
    /\ pc' = [pc EXCEPT ![th] = "loop"]
    /\ UNCHANGED <<monitor, table, seen, issued>>

\* CREATE_TABLE_ENTRY meets the row another JVM has inserted since the
\* SELECT: the primary key is violated and getNext throws.
InsertClash(th) ==
    /\ pc[th] = "insert"
    /\ Row(th) # 0
    /\ Leave(th)
    /\ UNCHANGED <<counter, start, stop, table, seen, issued>>

\* Mutants of Update: no compare-and-set; an interval one too long.
UpdateBlind(th) ==
    /\ pc[th] = "update"
    /\ counter' = [counter EXCEPT ![table[th]] = seen[th] + GRAB]
    /\ SetRange(th, seen[th], seen[th] + GRAB)
    /\ pc' = [pc EXCEPT ![th] = "loop"]
    /\ UNCHANGED <<monitor, table, seen, issued>>

UpdateLong(th) ==
    /\ pc[th] = "update"
    /\ Row(th) = seen[th]
    /\ counter' = [counter EXCEPT ![table[th]] = seen[th] + GRAB]
    /\ SetRange(th, seen[th], seen[th] + GRAB + 1)
    /\ pc' = [pc EXCEPT ![th] = "loop"]
    /\ UNCHANGED <<monitor, table, seen, issued>>

\* UPDATE_NEXT_NUM, a compare-and-set of the counter.
Update(th) ==
    /\ pc[th] = "update"
    /\ Row(th) = seen[th]
    /\ counter' = [counter EXCEPT ![table[th]] = seen[th] + GRAB]
    /\ SetRange(th, seen[th], seen[th] + GRAB)
    /\ pc' = [pc EXCEPT ![th] = "loop"]
    /\ UNCHANGED <<monitor, table, seen, issued>>

\* UPDATE_NEXT_NUM changes no row: another JVM moved the counter; loop.
UpdateMiss(th) ==
    /\ pc[th] = "update"
    /\ Row(th) # seen[th]
    /\ pc' = [pc EXCEPT ![th] = "loop"]
    /\ UNCHANGED <<counter, start, stop, monitor, table, seen, issued>>

\* The connection breaks at the statement: the database has applied it or
\* not, the caller gets an exception and the range stays as it was.
StatementFails(th) ==
    /\ \/ /\ pc[th] = "loop"
          /\ RangeStart(th) >= RangeStop(th)
          /\ UNCHANGED counter
       \/ /\ pc[th] \in {"insert", "update"}
          /\ UNCHANGED counter
       \/ /\ pc[th] \in {"insert", "update"}
          /\ Row(th) = seen[th]
          /\ counter' = [counter EXCEPT ![table[th]] = seen[th] + GRAB]
    /\ Leave(th)
    /\ UNCHANGED <<start, stop, table, seen, issued>>

\* Mutant of Return: start--.
ReturnBackwards(th) ==
    /\ pc[th] = "loop"
    /\ RangeStart(th) < RangeStop(th)
    /\ issued' = [issued EXCEPT ![table[th]] = @ \cup {RangeStart(th)}]
    /\ start' = [start EXCEPT ![JvmOf[th]][table[th]] = @ - 1]
    /\ Leave(th)
    /\ UNCHANGED <<counter, stop, table, seen>>

\* return start++
Return(th) ==
    /\ pc[th] = "loop"
    /\ RangeStart(th) < RangeStop(th)
    /\ issued' = [issued EXCEPT ![table[th]] = @ \cup {RangeStart(th)}]
    /\ start' = [start EXCEPT ![JvmOf[th]][table[th]] = @ + 1]
    /\ Leave(th)
    /\ UNCHANGED <<counter, stop, table, seen>>

\* A JVM dies and is started again: its ranges are new, the row stays.
Restart(j) ==
    /\ start' = [start EXCEPT ![j] = [tb \in Tables |-> 0]]
    /\ stop' = [stop EXCEPT ![j] = [tb \in Tables |-> 0]]
    /\ monitor' = [monitor EXCEPT ![j] = [tb \in Tables |-> NoThread]]
    /\ pc' = [th \in Threads |-> IF JvmOf[th] = j THEN "idle" ELSE pc[th]]
    /\ UNCHANGED <<counter, table, seen, issued>>

ThreadStep(th) ==
    \/ \E tb \in Tables : Call(th, tb)
    \/ Select(th)
    \/ Insert(th)
    \/ InsertClash(th)
    \/ Update(th)
    \/ UpdateMiss(th)
    \/ StatementFails(th)
    \/ Return(th)

Next ==
    \/ \E th \in Threads : ThreadStep(th)
    \/ \E j \in JVMs : Restart(j)

Spec == Init /\ [][Next]_vars

------------------------------------------------------------------------------
(* Properties.                                                             *)

\* No two calls of getNext ever return the same id of a table, whichever
\* JVMs and threads make them and however often JVMs die in between.
\* (IdFactory.getNext; the test newId of DbCoordinatorFunctional.)
NeverReissued ==
    [][\A th \in Threads : Return(th) => RangeStart(th) \notin issued[table[th]]]_vars

\* The ids two JVMs hold in memory for one table never overlap.
\* (IdRange.start and stop, set by INSERT and UPDATE of getNext.)
RangesDisjoint ==
    \A i, j \in JVMs, tb \in Tables : i # j =>
        \/ start[i][tb] >= stop[i][tb]
        \/ start[j][tb] >= stop[j][tb]
        \/ stop[i][tb] <= start[j][tb]
        \/ stop[j][tb] <= start[i][tb]

\* The row is ahead of every id in use: what a JVM still holds and what was
\* ever returned lies below COUNTER, so a lost JVM only wastes ids.
\* (the value UPDATE_NEXT_NUM writes against the interval getNext takes.)
CounterAhead ==
    \A tb \in Tables :
        /\ \A j \in JVMs : stop[j][tb] <= counter[tb]
        /\ \A id \in issued[tb] : id < counter[tb]

\* An id that was returned is not in the part of any range still to be
\* returned. (start++ of getNext.)
IssuedNotHeld ==
    \A j \in JVMs, tb \in Tables :
        \A id \in issued[tb] : ~(start[j][tb] <= id /\ id < stop[j][tb])

\* Inside getNext a thread owns the monitor of its own JVM's range.
MonitorHeld ==
    \A th \in Threads : pc[th] # "idle" => monitor[JvmOf[th]][table[th]] = th

\* What the SELECT returned is a value the counter has really had.
SeenInPast ==
    \A th \in Threads :
        /\ pc[th] = "update" => seen[th] \in 1..counter[table[th]]
        /\ pc[th] = "insert" => seen[th] = 0

IdInv ==
    /\ TypeOK
    /\ RangesDisjoint
    /\ CounterAhead
    /\ IssuedNotHeld
    /\ MonitorHeld
    /\ SeenInPast
==============================================================================
