--------------------------- MODULE EventTablesProofs ---------------------------
(***************************************************************************)
(* What the proofs about the parts of a beat share: the rows of the tables *)
(* as records, an UPDATE of one row, and ExpandedTables, where the parts   *)
(* start on their own: messages just committed, with all their jobs and    *)
(* stages, in any order.                                                   *)
(***************************************************************************)
EXTENDS EventTables, FiniteSetTheorems, SequenceTheorems, TLAPS

JobRows == [msg : Messages, tmpl : Nat, responsible : BOOLEAN, state : JobState]
StageRows == [job : 1..Len(job), name : Nat, state : StageState, retriesLeft : Nat]
RunRows == [stage : 1..Len(stage), worker : Workers, state : RunState]
\* The rows as records, as the steps below use them.
LEMMA RowTypes ==
  ASSUME TablesOK
  PROVE  /\ job \in Seq(JobRows) /\ stage \in Seq(StageRows) /\ run \in Seq(RunRows)
         /\ Len(job) \in Nat /\ Len(stage) \in Nat
         /\ \A j \in 1..Len(job) : job[j] \in JobRows
         /\ \A s \in 1..Len(stage) : stage[s] \in StageRows
<1>1. job \in Seq(JobRows) /\ stage \in Seq(StageRows) /\ run \in Seq(RunRows)
  BY DEF TablesOK, JobRows, StageRows, RunRows
<1> QED
  BY <1>1, ElementOfSeq, LenProperties

\* The same for the runs.
LEMMA RunTypes ==
  ASSUME TablesOK, NEW r \in 1..Len(run)
  PROVE  /\ run[r] \in RunRows
         /\ run[r].stage \in 1..Len(stage) /\ run[r].worker \in Workers
<1>1. run[r] \in RunRows
  BY RowTypes, ElementOfSeq
<1> QED
  BY <1>1 DEF RunRows

\* An UPDATE of one row keeps the table and its other rows.
LEMMA UpdateRow ==
  ASSUME NEW S, NEW rows \in Seq(S), NEW i \in 1..Len(rows), NEW row \in S,
         NEW new, new = [rows EXCEPT ![i] = row]
  PROVE  /\ new \in Seq(S) /\ Len(new) = Len(rows) /\ new[i] = row
         /\ \A k \in 1..Len(rows) : k # i => new[k] = rows[k]
  OBVIOUS

\* UPDATE_STAGE_STATUS writes the state and the retries of a row whose state
\* is the expected one, and nothing else.
LEMMA CasStageWrites ==
  ASSUME TablesOK, NEW s \in 1..Len(stage), NEW old, NEW new \in StageState,
         NEW retries \in Nat, CasStage(s, old, new, retries)
  PROVE  /\ stage' \in Seq(StageRows) /\ Len(stage') = Len(stage)
         /\ \A t \in 1..Len(stage) : t # s => stage'[t] = stage[t]
         /\ stage'[s].job = stage[s].job /\ stage'[s].name = stage[s].name
         /\ IF stage[s].state = old
            THEN stage'[s].state = new /\ stage'[s].retriesLeft = retries
            ELSE stage'[s] = stage[s]
<1> DEFINE row == [stage[s] EXCEPT !.state = new, !.retriesLeft = retries]
<1>1. stage \in Seq(StageRows) /\ stage[s] \in StageRows
  BY RowTypes
<1>2. CASE stage[s].state = old
  <2>1. row \in StageRows /\ row.job = stage[s].job /\ row.name = stage[s].name
        /\ row.state = new /\ row.retriesLeft = retries
    BY <1>1 DEF StageRows
  <2>2. stage' = [stage EXCEPT ![s] = row]
    BY <1>1, <1>2 DEF CasStage, StageRows
  <2> HIDE DEF row
  <2> QED
    BY <1>1, <1>2, <2>1, <2>2, UpdateRow
<1>3. CASE stage[s].state # old
  BY <1>1, <1>3 DEF CasStage
<1> QED
  BY <1>2, <1>3

\* SetToSeq lists the elements of a finite set.
LEMMA SetToSeqType ==
  ASSUME NEW S, IsFiniteSet(S)
  PROVE  SetToSeq(S) \in Seq(S)
<1> DEFINE n == Cardinality(S)
<1>1. n \in Nat /\ \E f \in [1..n -> S] : IsInjective(f)
  BY FS_CardinalityType DEF ExistsBijection, Bijection, Injection
<1>2. SetToSeq(S) \in [1..n -> S]
  BY <1>1 DEF SetToSeq
<1> QED
  BY <1>1, <1>2, SeqDef

\* The job templates of a message that pass are finitely many, so often.
LEMMA SelectedFinite ==
  ASSUME NEW m \in Messages, NEW times \in Nat
  PROVE  /\ Selected(m) \subseteq 1..Len(Template[m])
         /\ IsFiniteSet(Selected(m) \X (1..times))
<1>1. Len(Template[m]) \in Nat
  BY TemplateOK
<1>2. Selected(m) \subseteq 1..Len(Template[m])
  BY DEF Selected
<1>3. IsFiniteSet(1..Len(Template[m])) /\ IsFiniteSet(1..times)
  BY <1>1, FS_Interval
<1>4. IsFiniteSet(Selected(m))
  BY <1>2, <1>3, FS_Subset
<1> QED
  BY <1>2, <1>3, <1>4, FS_Product

\* The jobs that are made of some messages: the copies of ExpandedTables.
Copies(posted, twice) ==
    UNION {{m} \X Selected(m) \X (1..(IF m \in twice THEN 2 ELSE 1)) : m \in posted}

\* Of finitely many messages there are finitely many.
LEMMA CopiesFinite ==
  ASSUME NEW posted \in SUBSET Messages, IsFiniteSet(posted), NEW twice
  PROVE  IsFiniteSet(Copies(posted, twice))
<1> DEFINE Times(m) == IF m \in twice THEN 2 ELSE 1
           Of(m) == {m} \X Selected(m) \X (1..Times(m))
           Parts == {Of(m) : m \in posted}
<1>1. ASSUME NEW m \in posted
      PROVE  IsFiniteSet(Of(m))
  <2> DEFINE S == Selected(m) \X (1..Times(m))
             g == [p \in S |-> <<m, p[1], p[2]>>]
  <2>1. IsFiniteSet(S)
    BY SelectedFinite
  <2>2. g \in Surjection(S, Of(m))
    <3> HIDE DEF Times
    <3>1. \A p \in S : g[p] \in Of(m)
      OBVIOUS
    <3>2. ASSUME NEW t \in Of(m)
          PROVE  \E p \in S : g[p] = t
      <4>1. <<t[2], t[3]>> \in S /\ t = <<m, t[2], t[3]>>
        OBVIOUS
      <4> QED
        BY <4>1
    <3> HIDE DEF S, Of
    <3> QED
      BY <3>1, <3>2 DEF Surjection
  <2> HIDE DEF S, Of, g
  <2> QED
    BY <2>1, <2>2, FS_Surjection
<1>2. IsFiniteSet(Parts)
  <2> DEFINE f == [m \in posted |-> Of(m)]
  <2> HIDE DEF Of
  <2>1. f \in Surjection(posted, Parts)
    BY DEF Surjection
  <2> QED
    BY <2>1, FS_Surjection
<1>3. \A T \in Parts : IsFiniteSet(T)
  BY <1>1
<1> HIDE DEF Parts
<1>4. IsFiniteSet(UNION Parts)
  BY <1>2, <1>3, FS_UNION
<1> QED
  BY <1>4 DEF Parts, Copies

\* Pairs of a number up to n and a number up to a bound of its own.
Places(n, size) == UNION {{<<j, k>> : k \in 1..size[j]} : j \in 1..n}

\* There are finitely many.
LEMMA PlacesFinite ==
  ASSUME NEW n \in Nat, NEW size, \A j \in 1..n : size[j] \in Nat
  PROVE  IsFiniteSet(Places(n, size))
<1> DEFINE Of(j) == {<<j, k>> : k \in 1..size[j]}
           Parts == {Of(j) : j \in 1..n}
<1>1. IsFiniteSet(1..n)
  BY FS_Interval
<1>2. IsFiniteSet(Parts)
  <2> DEFINE f == [j \in 1..n |-> Of(j)]
  <2> HIDE DEF Of
  <2>1. f \in Surjection(1..n, Parts)
    BY DEF Surjection
  <2> QED
    BY <1>1, <2>1, FS_Surjection
<1>3. ASSUME NEW j \in 1..n
      PROVE  IsFiniteSet(Of(j))
  <2> DEFINE g == [k \in 1..size[j] |-> <<j, k>>]
  <2>1. IsFiniteSet(1..size[j])
    BY FS_Interval
  <2>2. g \in Surjection(1..size[j], Of(j))
    BY DEF Surjection
  <2> QED
    BY <2>1, <2>2, FS_Surjection
<1>4. \A T \in Parts : IsFiniteSet(T)
  BY <1>3
<1> HIDE DEF Parts
<1>5. IsFiniteSet(UNION Parts)
  BY <1>2, <1>4, FS_UNION
<1> QED
  BY <1>5 DEF Parts, Places

\* The rows of ExpandedTables are rows, of templates and stages that exist,
\* and a stage that depends on another one starts BLOCKED.
LEMMA ExpandedRows ==
  ASSUME NEW posted \in SUBSET Messages, IsFiniteSet(posted), NEW twice,
         ExpandedTables(posted, twice)
  PROVE  /\ job \in Seq(JobRows) /\ stage \in Seq(StageRows)
         /\ \A j \in 1..Len(job) : job[j].state = "IN_PROCESS"
         /\ \A s \in 1..Len(stage) :
              /\ stage[s].state \in {"READY", "BLOCKED"} /\ stage[s].retriesLeft # 0
              /\ stage[s].state # "BLOCKED" => TemplateOf(s).dependOnStage = {}
<1> DEFINE copies == SetToSeq(Copies(posted, twice))
           made == [j \in 1..Len(copies) |-> JobRow(copies[j][1], copies[j][2])]
           size == [j \in 1..Len(copies) |-> Len(StageTemplates(made[j].msg, made[j].tmpl))]
           places == SetToSeq(Places(Len(copies), size))
<1>1. copies \in Seq(Copies(posted, twice))
  BY CopiesFinite, SetToSeqType
<1>2. /\ job = made
      /\ stage = [s \in 1..Len(places) |->
                    StageRow(places[s][1], made[places[s][1]].msg, made[places[s][1]].tmpl,
                             places[s][2])]
  BY DEF ExpandedTables, Copies, Places
<1>3. Len(copies) \in Nat /\ \A j \in 1..Len(copies) : copies[j] \in Copies(posted, twice)
  <2> HIDE DEF copies
  <2> QED
    BY <1>1
<1>4. ASSUME NEW j \in 1..Len(copies)
      PROVE  /\ made[j].msg \in Messages /\ made[j].tmpl \in 1..Len(Template[made[j].msg])
             /\ made[j].state = "IN_PROCESS" /\ made[j] \in JobRows
             /\ StageTemplates(made[j].msg, made[j].tmpl) \in Seq(StageTemplate)
  <2> HIDE DEF copies
  <2> DEFINE m == copies[j][1]
             i == copies[j][2]
  <2>1. m \in Messages /\ i \in Selected(m)
    <3>1. PICK n \in posted :
            copies[j] \in {n} \X Selected(n) \X (1..(IF n \in twice THEN 2 ELSE 1))
      BY <1>3 DEF Copies
    <3> QED
      BY <3>1
  <2>2. made[j] = JobRow(m, i)
    OBVIOUS
  <2> HIDE DEF m, i, made
  <2>3. i \in 1..Len(Template[m]) /\ i \in Nat
    <3>1. Selected(m) \subseteq 1..Len(Template[m])
      BY <2>1, SelectedFinite, 0 \in Nat
    <3>2. Len(Template[m]) \in Nat
      BY <2>1, TemplateOK
    <3> QED
      BY <2>1, <3>1, <3>2
  <2>4. Template[m][i] \in JobTemplate
    <3>1. Template[m] \in Seq(JobTemplate)
      BY <2>1, TemplateOK
    <3> QED
      BY <2>3, <3>1
  <2> QED
    BY <2>1, <2>2, <2>3, <2>4 DEF JobRow, JobRows, JobState, JobTemplate, StageTemplates
<1>5. \A j \in 1..Len(copies) : size[j] \in Nat
  BY <1>4
<1> HIDE DEF copies
<1>6. /\ Len(places) \in Nat
      /\ \A s \in 1..Len(places) :
            /\ places[s][1] \in 1..Len(copies)
            /\ places[s][2] \in 1..size[places[s][1]]
  <2> HIDE DEF size
  <2>1. IsFiniteSet(Places(Len(copies), size))
    BY <1>3, <1>5, PlacesFinite
  <2>2. places \in Seq(Places(Len(copies), size))
    BY <2>1, SetToSeqType
  <2> HIDE DEF places
  <2>3. Len(places) \in Nat /\ \A s \in 1..Len(places) : places[s] \in Places(Len(copies), size)
    BY <2>2
  <2>4. \A x \in Places(Len(copies), size) : x[1] \in 1..Len(copies) /\ x[2] \in 1..size[x[1]]
    BY DEF Places
  <2> QED
    BY <2>3, <2>4
<1>7. \A j \in 1..Len(copies) : size[j] = Len(StageTemplates(made[j].msg, made[j].tmpl))
  OBVIOUS
<1>8. Len(made) = Len(copies) /\ made \in Seq(JobRows)
  BY <1>3, <1>4
<1> HIDE DEF made, size, places
<1>9. job \in Seq(JobRows) /\ Len(job) = Len(copies)
  BY <1>2, <1>8
<1>10. ASSUME NEW s \in 1..Len(places)
       PROVE  /\ stage[s] \in StageRows
              /\ stage[s].job \in 1..Len(copies)
              /\ stage[s].state \in {"READY", "BLOCKED"} /\ stage[s].retriesLeft # 0
              /\ stage[s].state # "BLOCKED" => TemplateOf(s).dependOnStage = {}
  <2> DEFINE j == places[s][1]
             k == places[s][2]
             m == made[j].msg
             i == made[j].tmpl
  <2>1. j \in 1..Len(copies) /\ k \in 1..Len(StageTemplates(m, i))
    BY <1>6, <1>7
  <2>2. stage[s] = StageRow(j, m, i, k)
    BY <1>2
  <2>3. StageTemplates(m, i)[k] \in StageTemplate /\ k \in Nat
    <3> HIDE DEF j, k
    <3>1. StageTemplates(m, i) \in Seq(StageTemplate)
      BY <1>4, <2>1
    <3> HIDE DEF m, i
    <3> QED
      BY <2>1, <3>1
  <2>4. job[j].msg = m /\ job[j].tmpl = i
    BY <1>2
  <2> HIDE DEF j, k, m, i
  <2> QED
    BY <1>9, <2>1, <2>2, <2>3, <2>4
       DEF StageRow, StageRows, StageState, StageTemplate, TemplateOf, JobOf
<1>11. stage \in Seq(StageRows) /\ Len(stage) = Len(places)
  <2>1. Len(stage) = Len(places) /\ DOMAIN stage = 1..Len(places)
    BY <1>2, <1>6
  <2> QED
    BY <1>2, <1>6, <1>10, <2>1
<1>12. \A j \in 1..Len(job) : job[j].state = "IN_PROCESS"
  BY <1>2, <1>4, <1>9
<1> QED
  BY <1>9, <1>10, <1>11, <1>12
==============================================================================
