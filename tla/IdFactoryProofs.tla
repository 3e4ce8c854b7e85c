--------------------------- MODULE IdFactoryProofs ---------------------------
(***************************************************************************)
(* Uniqueness of the ids of IdFactory for every number of JVMs, threads,   *)
(* tables and every batch size: IdInv is inductive, and NeverReissued      *)
(* follows because the id a Return hands out lies in a range, and no       *)
(* issued id does.                                                         *)
(***************************************************************************)
EXTENDS IdFactory, TLAPS

USE GrabAssumption, BoundAssumption, ThreadAssumption

\* The empty tables and ranges the program starts with satisfy IdInv.
LEMMA IdInit == Init => IdInv
  BY DEF Init, IdInv, TypeOK, RangesDisjoint, CounterAhead, IssuedNotHeld,
         MonitorHeld, SeenInPast

\* A call that starts changes no id and takes a monitor nobody holds.
LEMMA CallKeepsInv ==
  ASSUME NEW th \in Threads, NEW tb \in Tables, IdInv, Call(th, tb)
  PROVE  IdInv'
  BY DEF Call, IdInv, TypeOK, RangesDisjoint, CounterAhead, IssuedNotHeld,
         MonitorHeld, SeenInPast

\* SELECT only remembers a value of the counter.
LEMMA SelectKeepsInv ==
  ASSUME NEW th \in Threads, IdInv, Select(th)
  PROVE  IdInv'
  BY DEF Select, Row, IdInv, TypeOK, RangesDisjoint, CounterAhead,
         IssuedNotHeld, MonitorHeld, SeenInPast

\* The first row: no range and no issued id exists for the table yet.
LEMMA InsertKeepsInv ==
  ASSUME NEW th \in Threads, IdInv, Insert(th)
  PROVE  IdInv'
<1> DEFINE me == JvmOf[th]
           tt == table[th]
<1> USE DEF Insert, Row, SetRange
<1>1. me \in JVMs /\ tt \in Tables /\ counter[tt] = 0
  BY DEF IdInv, TypeOK
<1>2. TypeOK'
  BY <1>1 DEF IdInv, TypeOK
<1>3. \A j \in JVMs : stop[j][tt] = 0
  BY <1>1 DEF IdInv, TypeOK, CounterAhead
<1>4. issued[tt] = {}
  BY <1>1 DEF IdInv, TypeOK, CounterAhead
<1>5. \A j \in JVMs : j # me => stop'[j][tt] = 0 /\ start'[j][tt] = start[j][tt]
  BY <1>1, <1>3 DEF IdInv, TypeOK
<1>6. RangesDisjoint'
  <2> SUFFICES ASSUME NEW i \in JVMs, NEW j \in JVMs, NEW tb \in Tables, i # j
               PROVE  \/ start'[i][tb] >= stop'[i][tb]
                      \/ start'[j][tb] >= stop'[j][tb]
                      \/ stop'[i][tb] <= start'[j][tb]
                      \/ stop'[j][tb] <= start'[i][tb]
    BY DEF RangesDisjoint
  <2>1. CASE tb = tt
    BY <1>1, <1>2, <1>5, <2>1 DEF TypeOK
  <2>2. CASE tb # tt
    BY <1>1, <2>2 DEF IdInv, TypeOK, RangesDisjoint
  <2> QED
    BY <2>1, <2>2
<1>7. CounterAhead'
  BY <1>1, <1>3, <1>4 DEF IdInv, TypeOK, CounterAhead
<1>8. IssuedNotHeld'
  BY <1>1, <1>4 DEF IdInv, TypeOK, IssuedNotHeld
<1>9. MonitorHeld'
  BY DEF IdInv, TypeOK, MonitorHeld
<1>10. SeenInPast'
  BY <1>1 DEF IdInv, TypeOK, SeenInPast, MonitorHeld
<1> QED
  BY <1>2, <1>6, <1>7, <1>8, <1>9, <1>10 DEF IdInv

\* The compare-and-set reserves [seen, seen + GRAB); every other range and
\* every issued id lies below seen, which is the counter itself.
LEMMA UpdateKeepsInv ==
  ASSUME NEW th \in Threads, IdInv, Update(th)
  PROVE  IdInv'
<1> DEFINE me == JvmOf[th]
           tt == table[th]
<1> USE DEF Update, Row, SetRange
<1>1. me \in JVMs /\ tt \in Tables /\ seen[th] = counter[tt] /\ seen[th] \in Nat
  BY DEF IdInv, TypeOK
<1>2. TypeOK'
  BY <1>1 DEF IdInv, TypeOK
<1>3. \A j \in JVMs : stop[j][tt] \in Nat /\ stop[j][tt] <= seen[th]
  BY <1>1 DEF IdInv, TypeOK, CounterAhead
<1>4. \A id \in issued[tt] : id \in Nat /\ id < seen[th]
  BY <1>1 DEF IdInv, TypeOK, CounterAhead
<1>5. RangesDisjoint'
  BY <1>1, <1>3 DEF IdInv, TypeOK, RangesDisjoint
<1>6. CounterAhead'
  BY <1>1, <1>3, <1>4 DEF IdInv, TypeOK, CounterAhead
<1>7. IssuedNotHeld'
  BY <1>1, <1>4 DEF IdInv, TypeOK, IssuedNotHeld
<1>8. MonitorHeld'
  BY DEF IdInv, TypeOK, MonitorHeld
<1>9. SeenInPast'
  BY <1>1 DEF IdInv, TypeOK, SeenInPast
<1> QED
  BY <1>2, <1>5, <1>6, <1>7, <1>8, <1>9 DEF IdInv

\* A lost race and a primary key clash leave the ids alone.
LEMMA MissKeepsInv ==
  ASSUME NEW th \in Threads, IdInv, InsertClash(th) \/ UpdateMiss(th)
  PROVE  IdInv'
<1>1. CASE InsertClash(th)
  BY <1>1 DEF InsertClash, Leave, IdInv, TypeOK, RangesDisjoint, CounterAhead,
         IssuedNotHeld, MonitorHeld, SeenInPast
<1>2. CASE UpdateMiss(th)
  BY <1>2 DEF UpdateMiss, IdInv, TypeOK, RangesDisjoint, CounterAhead,
         IssuedNotHeld, MonitorHeld, SeenInPast
<1> QED
  BY <1>1, <1>2

\* A statement whose answer is lost at most moves the counter up.
LEMMA FailureKeepsInv ==
  ASSUME NEW th \in Threads, IdInv, StatementFails(th)
  PROVE  IdInv'
<1> USE DEF StatementFails, Row, Leave
<1>1. \A tb \in Tables : counter'[tb] \in Nat /\ counter[tb] <= counter'[tb]
  <2>1. CASE UNCHANGED counter
    BY <2>1 DEF IdInv, TypeOK
  <2>2. CASE /\ counter[table[th]] = seen[th]
             /\ counter' = [counter EXCEPT ![table[th]] = seen[th] + GRAB]
    BY <2>2 DEF IdInv, TypeOK
  <2> QED
    BY <2>1, <2>2
<1>2. TypeOK'
  <2>1. counter' \in [Tables -> Nat]
    BY DEF IdInv, TypeOK
  <2>2. /\ monitor' \in [JVMs -> [Tables -> Threads \cup {NoThread}]]
        /\ pc' \in [Threads -> {"idle", "loop", "insert", "update"}]
    BY DEF IdInv, TypeOK
  <2> QED
    BY <2>1, <2>2 DEF IdInv, TypeOK
<1>3. RangesDisjoint' /\ IssuedNotHeld'
  BY DEF IdInv, RangesDisjoint, IssuedNotHeld
<1>4. CounterAhead'
  BY <1>1 DEF IdInv, TypeOK, CounterAhead
<1>5. MonitorHeld'
  BY DEF IdInv, TypeOK, MonitorHeld
<1>6. SeenInPast'
  BY <1>1 DEF IdInv, TypeOK, SeenInPast
<1> QED
  BY <1>2, <1>3, <1>4, <1>5, <1>6 DEF IdInv

\* The id returned leaves the range it came from and was in no other range.
LEMMA ReturnKeepsInv ==
  ASSUME NEW th \in Threads, IdInv, Return(th)
  PROVE  IdInv'
<1> DEFINE me == JvmOf[th]
           tt == table[th]
           id == start[me][tt]
<1> USE DEF Return, RangeStart, RangeStop, Leave
<1>1. me \in JVMs /\ tt \in Tables /\ id \in Nat /\ id < stop[me][tt]
  BY DEF IdInv, TypeOK
<1>2. TypeOK'
  <2>1. start' \in [JVMs -> [Tables -> Nat]]
    BY <1>1 DEF IdInv, TypeOK
  <2>2. issued' \in [Tables -> SUBSET Nat]
    BY <1>1 DEF IdInv, TypeOK
  <2> QED
    BY <1>1, <2>1, <2>2 DEF IdInv, TypeOK
<1>3. start'[me][tt] = id + 1 /\ issued'[tt] = issued[tt] \cup {id}
  BY <1>1 DEF IdInv, TypeOK
<1>4. \A j \in JVMs, tb \in Tables :
        /\ stop'[j][tb] = stop[j][tb]
        /\ ~(j = me /\ tb = tt) => start'[j][tb] = start[j][tb]
  BY <1>1 DEF IdInv, TypeOK
<1>5. RangesDisjoint'
  <2> SUFFICES ASSUME NEW i \in JVMs, NEW j \in JVMs, NEW tb \in Tables, i # j
               PROVE  \/ start'[i][tb] >= stop'[i][tb]
                      \/ start'[j][tb] >= stop'[j][tb]
                      \/ stop'[i][tb] <= start'[j][tb]
                      \/ stop'[j][tb] <= start'[i][tb]
    BY DEF RangesDisjoint
  <2>1. \A k \in JVMs : /\ start[k][tb] \in Nat /\ start'[k][tb] \in Nat
                        /\ start[k][tb] <= start'[k][tb]
                        /\ stop'[k][tb] = stop[k][tb] /\ stop[k][tb] \in Nat
    BY <1>1, <1>3, <1>4 DEF IdInv, TypeOK
  <2> QED
    BY <2>1 DEF IdInv, RangesDisjoint
<1>6. CounterAhead'
  BY <1>1, <1>3, <1>4 DEF IdInv, TypeOK, CounterAhead
<1>7. ASSUME NEW j \in JVMs, j # me
      PROVE  ~(start[j][tt] <= id /\ id < stop[j][tt])
  <2>1. /\ start[j][tt] \in Nat /\ stop[j][tt] \in Nat
        /\ start[me][tt] \in Nat /\ stop[me][tt] \in Nat
    BY <1>1 DEF IdInv, TypeOK
  <2>2. \/ start[j][tt] >= stop[j][tt]
        \/ start[me][tt] >= stop[me][tt]
        \/ stop[j][tt] <= start[me][tt]
        \/ stop[me][tt] <= start[j][tt]
    BY <1>1, <1>7 DEF IdInv, RangesDisjoint
  <2> QED
    BY <1>1, <2>1, <2>2
<1>8. IssuedNotHeld'
  <2> SUFFICES ASSUME NEW j \in JVMs, NEW tb \in Tables, NEW x \in issued'[tb]
               PROVE  ~(start'[j][tb] <= x /\ x < stop'[j][tb])
    BY DEF IssuedNotHeld
  <2>1. CASE x \in issued[tb]
    BY <1>1, <1>3, <1>4, <2>1 DEF IdInv, TypeOK, IssuedNotHeld
  <2>2. CASE tb = tt /\ x = id
    <3>1. CASE j = me
      BY <1>1, <1>3, <2>2, <3>1
    <3>2. CASE j # me
      BY <1>4, <1>7, <2>2, <3>2
    <3> QED
      BY <3>1, <3>2
  <2> QED
    BY <1>1, <2>1, <2>2 DEF IdInv, TypeOK
<1>9. MonitorHeld'
  BY DEF IdInv, TypeOK, MonitorHeld
<1>10. SeenInPast'
  BY DEF IdInv, TypeOK, SeenInPast
<1> QED
  BY <1>2, <1>5, <1>6, <1>8, <1>9, <1>10 DEF IdInv

\* A restart empties the ranges of one JVM.
LEMMA RestartKeepsInv ==
  ASSUME NEW j \in JVMs, IdInv, Restart(j)
  PROVE  IdInv'
  BY DEF Restart, IdInv, TypeOK, RangesDisjoint, CounterAhead, IssuedNotHeld,
         MonitorHeld, SeenInPast

\* Every reachable state satisfies the inductive invariant.
THEOREM IdInvariant == Spec => []IdInv
<1>1. ASSUME IdInv, [Next]_vars PROVE IdInv'
  <2>1. CASE \E th \in Threads : ThreadStep(th)
    BY <1>1, <2>1, CallKeepsInv, SelectKeepsInv, InsertKeepsInv, UpdateKeepsInv,
       MissKeepsInv, FailureKeepsInv, ReturnKeepsInv DEF ThreadStep
  <2>2. CASE \E j \in JVMs : Restart(j)
    BY <1>1, <2>2, RestartKeepsInv
  <2>3. CASE UNCHANGED vars
    BY <1>1, <2>3 DEF vars, IdInv, TypeOK, RangesDisjoint, CounterAhead,
       IssuedNotHeld, MonitorHeld, SeenInPast
  <2> QED
    BY <1>1, <2>1, <2>2, <2>3 DEF Next
<1> QED
  BY <1>1, IdInit, PTL DEF Spec

\* The ranges JVMs hold in memory never overlap, for all constants.
THEOREM RangesAlwaysDisjoint == Spec => []RangesDisjoint
  BY IdInvariant, PTL DEF IdInv

\* COUNTER is ahead of all ids held or returned, for all constants.
THEOREM CounterAlwaysAhead == Spec => []CounterAhead
  BY IdInvariant, PTL DEF IdInv

\* getNext never returns an id twice, for all constants.
THEOREM IdsUnique == Spec => NeverReissued
<1>1. IdInv => \A th \in Threads :
                 Return(th) => RangeStart(th) \notin issued[table[th]]
  BY DEF IdInv, TypeOK, Return, RangeStart, RangeStop, IssuedNotHeld
<1> QED
  BY <1>1, IdInvariant, PTL DEF Spec, NeverReissued

\* Counters, ranges, monitors and program counters keep their types, whatever
\* the batch size and however many JVMs race for a row.
THEOREM IdTypes == Spec => []TypeOK
  BY IdInvariant, PTL DEF IdInv
==============================================================================
