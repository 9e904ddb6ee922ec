------------------------- MODULE SoloTracker_proofs -------------------------
(***************************************************************************)
(* One user's undisturbed process implements TimeTracker: the step of      *)
(* SoloTracker that begins a command gives it, the one that ends it is the *)
(* step of TimeTracker for the command given, and every other one changes  *)
(* nothing that the user sees.                                             *)
(***************************************************************************)
EXTENDS OneUser_proofs, SoloTracker, SequenceTheorems

-----------------------------------------------------------------------------
(* Numbering the ids in a set.                                             *)

(* A set of ids is finite, and so is every part of it that Rank counts.    *)
LEMMA IdsFinite ==
    ASSUME NEW S \in SUBSET RowId
    PROVE  /\ IsFiniteSet(S) /\ Cardinality(S) \in Nat
           /\ \A k : /\ IsFiniteSet({j \in S : j <= k})
                     /\ Rank(S, k) \in 0..Cardinality(S)
<1>1. IsFiniteSet(RowId)
  BY FS_Interval, RowAssumption DEF RowId
<1>2. IsFiniteSet(S) /\ Cardinality(S) \in Nat
  BY <1>1, FS_Subset, FS_CardinalityType
<1>3. ASSUME NEW k PROVE IsFiniteSet({j \in S : j <= k}) /\ Rank(S, k) \in 0..Cardinality(S)
  <2>1. {j \in S : j <= k} \in SUBSET S
    OBVIOUS
  <2>2. /\ IsFiniteSet({j \in S : j <= k})
        /\ Cardinality({j \in S : j <= k}) <= Cardinality(S)
    BY <1>2, <2>1, FS_Subset
  <2>3. Cardinality({j \in S : j <= k}) \in Nat
    BY <2>2, FS_CardinalityType
  <2> QED
    BY <1>2, <2>2, <2>3 DEF Rank
<1> QED
  BY <1>2, <1>3

(* A larger id has a larger rank.                                          *)
LEMMA RankGrows ==
    ASSUME NEW S \in SUBSET RowId, NEW j \in S, NEW k \in S, j < k
    PROVE  Rank(S, j) < Rank(S, k)
<1> DEFINE A == {i \in S : i <= j}
           B == {i \in S : i <= k}
<1>1. j \in Nat /\ k \in Nat /\ \A i \in S : i \in Nat
  BY DEF RowId
<1>2. A \in SUBSET B /\ k \in B /\ k \notin A
  <2>1. (\A i \in S : i <= j => i <= k) /\ k <= k /\ ~(k <= j)
    BY <1>1
  <2> QED
    BY <2>1
<1>3. IsFiniteSet(A) /\ IsFiniteSet(B)
  BY IdsFinite
<1>4. Cardinality(A) \in Nat /\ Cardinality(B) \in Nat
  BY <1>3, FS_CardinalityType
<1>5. A # B
  BY <1>2
<1> HIDE DEF A, B
<1>6. Cardinality(A) <= Cardinality(B) /\ Cardinality(A) # Cardinality(B)
  BY <1>2, <1>3, <1>5, FS_Subset
<1>7. Cardinality(A) < Cardinality(B)
  BY <1>4, <1>6
<1> QED
  BY <1>7 DEF Rank, A, B

(* The ranks of a set's ids are the numbers up to its size, one each.      *)
LEMMA RanksNumber ==
    ASSUME NEW S \in SUBSET RowId
    PROVE  /\ \A k \in S : Rank(S, k) \in 1..Cardinality(S)
           /\ \A j, k \in S : Rank(S, j) = Rank(S, k) => j = k
           /\ \A i \in 1..Cardinality(S) : \E k \in S : Rank(S, k) = i
<1>1. /\ IsFiniteSet(S) /\ Cardinality(S) \in Nat
      /\ \A k : Rank(S, k) \in 0..Cardinality(S)
  BY IdsFinite
<1>2. ASSUME NEW k \in S PROVE Rank(S, k) \in 1..Cardinality(S)
  <2>1. k \in {j \in S : j <= k}
    BY DEF RowId
  <2>2. Rank(S, k) # 0
    BY <2>1, IdsFinite, FS_EmptySet DEF Rank
  <2> QED
    BY <1>1, <2>2
<1>3. ASSUME NEW j \in S, NEW k \in S, Rank(S, j) = Rank(S, k) PROVE j = k
  <2>1. j \in Nat /\ k \in Nat
    BY DEF RowId
  <2>2. ~(j < k) /\ ~(k < j)
    BY <1>1, <1>3, RankGrows
  <2> QED
    BY <2>1, <2>2
<1> DEFINE f == [k \in S |-> Rank(S, k)]
<1>4. f \in [S -> 1..Cardinality(S)] /\ \A j, k \in S : f[j] = f[k] => j = k
  BY <1>2, <1>3
<1>5. /\ IsFiniteSet(1..Cardinality(S))
      /\ Cardinality(1..Cardinality(S)) = Cardinality(S)
  BY <1>1, FS_Interval
<1>6. f \in Injection(S, 1..Cardinality(S))
  BY <1>4, Fun_IsInj
<1>7. f \in Surjection(S, 1..Cardinality(S))
  BY <1>5, <1>6, FS_Injection
<1>8. \A i \in 1..Cardinality(S) : \E k \in S : f[k] = i
  BY <1>7 DEF Surjection
<1> QED
  BY <1>2, <1>3, <1>8

(* So Nth is the inverse of Rank.                                          *)
LEMMA NthFacts ==
    ASSUME NEW S \in SUBSET RowId
    PROVE  /\ \A i \in 1..Cardinality(S) : Nth(S, i) \in S /\ Rank(S, Nth(S, i)) = i
           /\ \A k \in S : Nth(S, Rank(S, k)) = k
<1>1. ASSUME NEW i \in 1..Cardinality(S)
      PROVE  Nth(S, i) \in S /\ Rank(S, Nth(S, i)) = i
  BY RanksNumber DEF Nth
<1>2. ASSUME NEW k \in S PROVE Nth(S, Rank(S, k)) = k
  <2>1. Rank(S, k) \in 1..Cardinality(S)
    BY RanksNumber
  <2>2. Nth(S, Rank(S, k)) \in S /\ Rank(S, Nth(S, Rank(S, k))) = Rank(S, k)
    BY <1>1, <2>1
  <2> QED
    BY <2>2, RanksNumber
<1> QED
  BY <1>1, <1>2

(* An id above all the others comes last, and moves none of them.          *)
LEMMA NthOfLarger ==
    ASSUME NEW S \in SUBSET RowId, NEW r \in RowId, \A k \in S : k < r
    PROVE  /\ Cardinality(S \cup {r}) = Cardinality(S) + 1
           /\ \A i \in 1..Cardinality(S) : Nth(S \cup {r}, i) = Nth(S, i)
           /\ Nth(S \cup {r}, Cardinality(S) + 1) = r
<1> DEFINE S1 == S \cup {r}
<1>1. S1 \in SUBSET RowId /\ S1 \subseteq Nat /\ r \in Nat /\ r \notin S
  BY DEF RowId
<1>2. IsFiniteSet(S) /\ Cardinality(S) \in Nat
  BY IdsFinite
<1>3. Cardinality(S1) = Cardinality(S) + 1
  BY <1>1, <1>2, FS_AddElement
<1>4. Rank(S1, r) = Cardinality(S) + 1
  <2>1. {j \in S1 : j <= r} = S1
    <3>1. (\A j \in S : j <= r) /\ r <= r
      BY <1>1
    <3> QED
      BY <3>1
  <2> QED
    BY <1>3, <2>1 DEF Rank
<1>5. ASSUME NEW i \in 1..Cardinality(S) PROVE Nth(S1, i) = Nth(S, i)
  <2> DEFINE k == Nth(S, i)
  <2>1. k \in S /\ Rank(S, k) = i
    BY NthFacts
  <2>2. {j \in S1 : j <= k} = {j \in S : j <= k}
    <3> HIDE DEF k
    <3>1. k < r /\ k \in Nat /\ r \in Nat
      BY <1>1, <2>1
    <3>2. ~(r <= k)
      BY <3>1
    <3> QED
      BY <3>2
  <2>3. Rank(S1, k) = i /\ k \in S1
    BY <2>1, <2>2 DEF Rank
  <2> HIDE DEF k, S1
  <2>4. Nth(S1, Rank(S1, k)) = k
    BY <1>1, <2>3, NthFacts
  <2> QED
    BY <2>3, <2>4 DEF k
<1>6. Nth(S1, Cardinality(S) + 1) = r
  <2>1. Nth(S1, Rank(S1, r)) = r
    BY <1>1, NthFacts
  <2> QED
    BY <1>4, <2>1
<1> QED
  BY <1>3, <1>5, <1>6

(* A map that keeps the order keeps the numbering.                         *)
LEMMA NthOfImage ==
    ASSUME NEW A \in SUBSET RowId, NEW B \in SUBSET RowId, NEW g \in [A -> B],
           \A j, k \in A : j < k => g[j] < g[k],
           \A b \in B : \E a \in A : g[a] = b
    PROVE  /\ Cardinality(A) = Cardinality(B)
           /\ \A i \in 1..Cardinality(A) : g[Nth(A, i)] = Nth(B, i)
<1>1. A \subseteq Nat /\ B \subseteq Nat /\ DOMAIN g = A /\ IsFiniteSet(A)
  BY IdsFinite DEF RowId
<1>2. ASSUME NEW j \in A, NEW k \in A
      PROVE  (g[j] = g[k] => j = k) /\ (j <= k <=> g[j] <= g[k])
  <2>1. j \in Nat /\ k \in Nat /\ g[j] \in Nat /\ g[k] \in Nat
    BY <1>1
  <2>2. j < k \/ k < j \/ j = k
    BY <2>1
  <2> QED
    BY <2>1, <2>2
<1>3. Cardinality(A) = Cardinality(B)
  <2>1. g \in [A -> B] /\ \A r, s \in A : g[r] = g[s] => r = s
    BY <1>2
  <2>2. g \in Bijection(A, B)
    BY <2>1, Fun_IsBij
  <2>3. ExistsBijection(A, B)
    BY <2>2 DEF ExistsBijection
  <2> QED
    BY <1>1, <2>3, FS_Bijection
<1>4. ASSUME NEW k \in A PROVE Rank(A, k) = Rank(B, g[k])
  <2> DEFINE A1 == {j \in A : j <= k}
             B1 == {j \in B : j <= g[k]}
  <2>1. A1 \in SUBSET DOMAIN g /\ IsFiniteSet(A1)
    BY <1>1, IdsFinite
  <2>2. \A r, s \in A : g[r] = g[s] => r = s
    BY <1>2
  <2>3. \A s \in A1 : g[s] \in B1
    <3> SUFFICES ASSUME NEW s \in A, s <= k PROVE g[s] <= g[k]
      OBVIOUS
    <3> QED
      BY <1>2
  <2>4. \A b \in B1 : \E s \in A1 : g[s] = b
    <3> SUFFICES ASSUME NEW b \in B1 PROVE \E s \in A1 : g[s] = b
      OBVIOUS
    <3>1. PICK a \in A : g[a] = b
      OBVIOUS
    <3> QED
      BY <1>2, <3>1
  <2>5. A1 \subseteq A
    OBVIOUS
  <2> HIDE DEF A1, B1
  <2>6. Cardinality(A1) = Cardinality(B1)
    BY <2>1, <2>2, <2>3, <2>4, <2>5, PairedOff
  <2> QED
    BY <2>6 DEF Rank, A1, B1
<1>5. ASSUME NEW i \in 1..Cardinality(A) PROVE g[Nth(A, i)] = Nth(B, i)
  <2>1. Nth(A, i) \in A /\ Rank(A, Nth(A, i)) = i
    BY NthFacts
  <2>2. Rank(B, g[Nth(A, i)]) = i /\ g[Nth(A, i)] \in B
    BY <1>4, <2>1
  <2>3. Nth(B, Rank(B, g[Nth(A, i)])) = g[Nth(A, i)]
    BY <2>2, NthFacts
  <2> QED
    BY <2>2, <2>3
<1> QED
  BY <1>3, <1>5

-----------------------------------------------------------------------------
(* The periods of a set of rows, in the order of their ids.                *)

(* They are those of another table that has the same rows.                 *)
LEMMA PeriodsSame ==
    ASSUME NEW R, NEW R1, NEW S \in SUBSET RowId,
           \A k \in S : PeriodOf(R1[k]) = PeriodOf(R[k])
    PROVE  PeriodsAt(R1, S) = PeriodsAt(R, S)
<1>1. \A i \in 1..Cardinality(S) : PeriodOf(R1[Nth(S, i)]) = PeriodOf(R[Nth(S, i)])
  BY NthFacts
<1> QED
  BY <1>1 DEF PeriodsAt

(* They are the same periods under other ids, if the order is the same.    *)
LEMMA PeriodsImage ==
    ASSUME NEW R, NEW R1, NEW A \in SUBSET RowId, NEW B \in SUBSET RowId,
           NEW g \in [A -> B],
           \A j, k \in A : j < k => g[j] < g[k],
           \A b \in B : \E a \in A : g[a] = b,
           \A k \in A : PeriodOf(R1[k]) = PeriodOf(R[g[k]])
    PROVE  PeriodsAt(R1, A) = PeriodsAt(R, B)
<1>1. /\ Cardinality(A) = Cardinality(B)
      /\ \A i \in 1..Cardinality(A) : g[Nth(A, i)] = Nth(B, i)
  BY NthOfImage
<1>2. \A i \in 1..Cardinality(A) : PeriodOf(R1[Nth(A, i)]) = PeriodOf(R[Nth(B, i)])
  BY <1>1, NthFacts
<1> QED
  BY <1>1, <1>2 DEF PeriodsAt

(* A row with a larger id adds its period at the end.                      *)
LEMMA PeriodsAppend ==
    ASSUME NEW R, NEW R1, NEW S \in SUBSET RowId, NEW r \in RowId,
           \A k \in S : k < r,
           \A k \in S : PeriodOf(R1[k]) = PeriodOf(R[k])
    PROVE  PeriodsAt(R1, S \cup {r}) = Append(PeriodsAt(R, S), PeriodOf(R1[r]))
<1> DEFINE n == Cardinality(S)
           old == PeriodsAt(R, S)
           new == PeriodsAt(R1, S \cup {r})
           Any == {PeriodOf(R[k]) : k \in S} \cup {PeriodOf(R1[r])}
<1>1. n \in Nat
  BY IdsFinite
<1>2. /\ Cardinality(S \cup {r}) = n + 1
      /\ \A i \in 1..n : Nth(S \cup {r}, i) = Nth(S, i)
      /\ Nth(S \cup {r}, n + 1) = r
  BY NthOfLarger
<1>3. \A i \in 1..n : Nth(S, i) \in S
  BY NthFacts
<1>4. /\ old = [i \in 1..n |-> PeriodOf(R[Nth(S, i)])]
      /\ new = [i \in 1..n + 1 |-> PeriodOf(R1[Nth(S \cup {r}, i)])]
  BY <1>2 DEF PeriodsAt
<1> HIDE DEF n, old, new
<1>5. \A i \in 1..n : old[i] = PeriodOf(R[Nth(S, i)]) /\ old[i] \in Any
  BY <1>3, <1>4
<1>6. old \in [1..n -> Any]
  BY <1>4, <1>5
<1>7. \A i \in 1..n + 1 : new[i] = IF i <= n THEN old[i] ELSE PeriodOf(R1[r])
  <2> SUFFICES ASSUME NEW i \in 1..n + 1
               PROVE  new[i] = IF i <= n THEN old[i] ELSE PeriodOf(R1[r])
    OBVIOUS
  <2>1. new[i] = PeriodOf(R1[Nth(S \cup {r}, i)])
    BY <1>4
  <2>2. CASE i \in 1..n
    BY <1>1, <1>2, <1>3, <1>5, <2>1, <2>2
  <2>3. CASE i = n + 1
    BY <1>1, <1>2, <2>1, <2>3
  <2> QED
    BY <1>1, <2>2, <2>3
<1>8. \A i \in 1..n + 1 : new[i] \in Any
  BY <1>1, <1>5, <1>7
<1>9. new \in [1..n + 1 -> Any]
  BY <1>4, <1>8
<1> HIDE DEF Any
<1>10. old \in Seq(Any) /\ new \in Seq(Any) /\ Len(old) = n /\ Len(new) = n + 1
  BY <1>1, <1>6, <1>9
<1>11. PeriodOf(R1[r]) \in Any
  BY DEF Any
<1> DEFINE p == PeriodOf(R1[r])
<1> HIDE DEF p
<1>12. p \in Any /\ \A i \in 1..n + 1 : new[i] = IF i <= n THEN old[i] ELSE p
  BY <1>7, <1>11 DEF p
<1>13. /\ Append(old, p) \in Seq(Any) /\ Len(Append(old, p)) = n + 1
       /\ \A i \in 1..n : Append(old, p)[i] = old[i]
       /\ Append(old, p)[n + 1] = p
  BY <1>10, <1>12, AppendProperties
<1>14. \A i \in 1..n + 1 : new[i] = Append(old, p)[i]
  BY <1>1, <1>12, <1>13
<1>15. new = Append(old, p)
  BY <1>10, <1>13, <1>14, SeqEqual
<1> QED
  BY <1>15 DEF new, old, p

-----------------------------------------------------------------------------
(* What the user sees in tables that are in order.                         *)

TasksOK(T) ==
    /\ DOMAIN T \subseteq RowId /\ \A k \in DOMAIN T : T[k] \in TaskRow
    /\ \A j, k \in DOMAIN T : T[j].label = T[k].label => j = k

RecordsOK(T, R) ==
    /\ DOMAIN R \subseteq RowId /\ \A r \in DOMAIN R : R[r] \in RecordRow
    /\ \A r \in DOMAIN R : R[r].task \in DOMAIN T
    /\ \A r, s \in OpenRecords(R) : r = s
    /\ \A r, s \in DOMAIN R : r < s /\ R[r].task = R[s].task => R[r].end # Null

TablesOK(T, R) == TasksOK(T) /\ RecordsOK(T, R)

(* A label names one task.                                                 *)
LEMMA TaskOfLabel ==
    ASSUME NEW T, TasksOK(T), NEW k \in DOMAIN T
    PROVE  /\ T[k].label \in LabelsOf(T) \cap Label /\ T[k].title \in Title
           /\ WithLabel(T, T[k].label) = {k} /\ TaskOf(T, T[k].label) = k
<1>1. T[k].label \in LabelsOf(T) \cap Label /\ T[k].title \in Title
  BY DEF TasksOK, TaskRow, LabelsOf
<1>2. WithLabel(T, T[k].label) = {k}
  BY DEF TasksOK, WithLabel
<1> QED
  BY <1>1, <1>2 DEF TaskOf

(* A label is known if some task has it.                                   *)
LEMMA KnownLabel ==
    ASSUME NEW T, TasksOK(T), NEW l
    PROVE  /\ l \in LabelsOf(T) <=> WithLabel(T, l) # {}
           /\ l \in LabelsOf(T) => TaskOf(T, l) \in DOMAIN T /\ T[TaskOf(T, l)].label = l
           /\ \A k \in WithLabel(T, l) : l \in LabelsOf(T) /\ TaskOf(T, l) = k
<1>1. l \in LabelsOf(T) <=> WithLabel(T, l) # {}
  BY DEF LabelsOf, WithLabel
<1>2. \A k \in WithLabel(T, l) : k \in DOMAIN T /\ T[k].label = l
  BY DEF WithLabel
<1>3. \A k \in WithLabel(T, l) : l \in LabelsOf(T) /\ TaskOf(T, l) = k
  BY <1>2, TaskOfLabel
<1> QED
  BY <1>1, <1>2, <1>3

(* There is a running period exactly if a record is open, and it is that   *)
(* record's.                                                               *)
LEMMA RunningIs ==
    ASSUME NEW T, NEW R, TablesOK(T, R)
    PROVE  /\ Running(T, R) = Null <=> OpenRecords(R) = {}
           /\ \A o \in OpenRecords(R) :
                 /\ Running(T, R) = [label |-> T[R[o].task].label, begin |-> R[o].begin]
                 /\ o \in DOMAIN R /\ R[o].end = Null /\ R[o].task \in DOMAIN T
<1>1. OpenRecords(R) = {} => Running(T, R) = Null
  BY DEF Running, OpenPeriods
<1>2. ASSUME NEW o \in OpenRecords(R)
      PROVE  /\ Running(T, R) = [label |-> T[R[o].task].label, begin |-> R[o].begin]
             /\ Running(T, R) # Null
             /\ o \in DOMAIN R /\ R[o].end = Null /\ R[o].task \in DOMAIN T
  <2>1. o \in DOMAIN R /\ R[o].end = Null /\ R[o].task \in DOMAIN T /\ R[o].begin \in Time
    BY DEF OpenRecords, TablesOK, RecordsOK, RecordRow
  <2> DEFINE open == [label |-> T[R[o].task].label, begin |-> R[o].begin]
  <2>2. OpenRecords(R) = {o}
    BY DEF TablesOK, RecordsOK
  <2>3. OpenPeriods(T, R) = {open}
    BY <2>2 DEF OpenPeriods
  <2>4. Running(T, R) = open
    BY <2>3 DEF Running
  <2>5. T[R[o].task].label \in Label
    BY <2>1, TaskOfLabel DEF TablesOK
  <2>6. open # Null
    BY <2>1, <2>5, NullAssumption DEF Time
  <2> QED
    BY <2>1, <2>4, <2>6
<1> QED
  BY <1>1, <1>2

(* A task that AddTask or CopyTask has inserted, with its records.         *)
LEMMA TaskInserted ==
    ASSUME NEW T, NEW R, TablesOK(T, R), NEW id \in RowId, id \notin DOMAIN T,
           NEW row \in TaskRow, WithLabel(T, row.label) = {},
           NEW R1, DOMAIN R \subseteq DOMAIN R1, \A r \in DOMAIN R : R1[r] = R[r],
           \A r \in DOMAIN R1 \ DOMAIN R : R1[r].task = id /\ R1[r].end # Null
    PROVE  /\ Titles(Insert(T, id, row)) = Tracker!With(Titles(T), row.label, row.title)
           /\ Logs(Insert(T, id, row), R1)
                 = Tracker!With(Logs(T, R), row.label, PeriodsAt(R1, EndedIds(R1, id)))
           /\ Running(Insert(T, id, row), R1) = Running(T, R)
<1> DEFINE T1 == Insert(T, id, row)
<1>1. /\ DOMAIN T1 = DOMAIN T \cup {id} /\ T1[id] = row
      /\ \A k \in DOMAIN T : T1[k] = T[k] /\ T[k].label # row.label
  BY DEF Insert, WithLabel
<1> HIDE DEF T1
<1>2. TasksOK(T1)
  BY <1>1 DEF TablesOK, TasksOK
<1>3. LabelsOf(T1) = LabelsOf(T) \cup {row.label} /\ row.label \notin LabelsOf(T)
  BY <1>1 DEF LabelsOf
<1>4. TaskOf(T1, row.label) = id
  BY <1>1, <1>2, TaskOfLabel
<1>5. ASSUME NEW l \in LabelsOf(T)
      PROVE  TaskOf(T1, l) = TaskOf(T, l) /\ TaskOf(T, l) \in DOMAIN T
  <2>1. TaskOf(T, l) \in DOMAIN T /\ T[TaskOf(T, l)].label = l
    BY KnownLabel DEF TablesOK
  <2>2. TaskOf(T, l) \in DOMAIN T1 /\ T1[TaskOf(T, l)].label = l
    BY <1>1, <2>1
  <2> QED
    BY <1>2, <2>1, <2>2, TaskOfLabel
<1>6. Titles(T1) = Tracker!With(Titles(T), row.label, row.title)
  BY <1>1, <1>3, <1>4, <1>5 DEF Titles, Tracker!With
<1>7. ASSUME NEW k \in DOMAIN T
      PROVE  PeriodsAt(R1, EndedIds(R1, k)) = PeriodsAt(R, EndedIds(R, k))
  <2>1. EndedIds(R1, k) = EndedIds(R, k)
    BY DEF EndedIds, RecordsOf, OpenRecords
  <2>2. EndedIds(R, k) \in SUBSET RowId /\ \A r \in EndedIds(R, k) : R1[r] = R[r]
    BY DEF EndedIds, RecordsOf, TablesOK, RecordsOK
  <2> QED
    BY <2>1, <2>2, PeriodsSame
<1>8. Logs(T1, R1)
        = Tracker!With(Logs(T, R), row.label, PeriodsAt(R1, EndedIds(R1, id)))
  BY <1>3, <1>4, <1>5, <1>7 DEF Logs, Tracker!With
<1>9. Running(T1, R1) = Running(T, R)
  <2>1. OpenRecords(R1) = OpenRecords(R)
    BY DEF OpenRecords
  <2>2. \A o \in OpenRecords(R) : R1[o] = R[o] /\ T1[R[o].task] = T[R[o].task]
    BY <1>1 DEF OpenRecords, TablesOK, RecordsOK
  <2>3. OpenPeriods(T1, R1) = OpenPeriods(T, R)
    BY <2>1, <2>2 DEF OpenPeriods
  <2> QED
    BY <2>3 DEF Running
<1> QED
  BY <1>6, <1>8, <1>9 DEF T1

(* A task that UpdTask has given another title.                            *)
LEMMA TaskRetitled ==
    ASSUME NEW T, NEW R, TablesOK(T, R), NEW k \in DOMAIN T, NEW t \in Title
    PROVE  /\ Titles(Retitle(T, k, t)) = Tracker!With(Titles(T), T[k].label, t)
           /\ Logs(Retitle(T, k, t), R) = Logs(T, R)
           /\ Running(Retitle(T, k, t), R) = Running(T, R)
<1> DEFINE T1 == Retitle(T, k, t)
<1>1. /\ DOMAIN T1 = DOMAIN T
      /\ \A j \in DOMAIN T : /\ T1[j].label = T[j].label
                             /\ T1[j].title = IF j = k THEN t ELSE T[j].title
  <2>1. \A j \in DOMAIN T : T[j] \in TaskRow
    BY DEF TablesOK, TasksOK
  <2> QED
    BY <2>1 DEF Retitle, TaskRow
<1> HIDE DEF T1
<1>2. LabelsOf(T1) = LabelsOf(T)
  BY <1>1 DEF LabelsOf
<1>3. \A l : WithLabel(T1, l) = WithLabel(T, l)
  BY <1>1 DEF WithLabel
<1>4. \A l : TaskOf(T1, l) = TaskOf(T, l)
  BY <1>3 DEF TaskOf
<1>5. ASSUME NEW l \in LabelsOf(T)
      PROVE  T1[TaskOf(T, l)].title
                = IF l = T[k].label THEN t ELSE T[TaskOf(T, l)].title
  <2>1. TaskOf(T, l) \in DOMAIN T /\ T[TaskOf(T, l)].label = l
    BY KnownLabel DEF TablesOK
  <2>2. l = T[k].label <=> TaskOf(T, l) = k
    BY <2>1, TaskOfLabel DEF TablesOK
  <2> QED
    BY <1>1, <2>1, <2>2
<1>6. T[k].label \in LabelsOf(T)
  BY DEF LabelsOf
<1>7. Titles(T1) = Tracker!With(Titles(T), T[k].label, t)
  BY <1>2, <1>4, <1>5, <1>6 DEF Titles, Tracker!With
<1>8. Logs(T1, R) = Logs(T, R)
  BY <1>2, <1>4 DEF Logs
<1>9. OpenPeriods(T1, R) = OpenPeriods(T, R)
  <2>1. \A o \in OpenRecords(R) : T1[R[o].task].label = T[R[o].task].label
    BY <1>1 DEF OpenRecords, TablesOK, RecordsOK
  <2> QED
    BY <2>1 DEF OpenPeriods
<1>10. Running(T1, R) = Running(T, R)
  BY <1>9 DEF Running
<1> QED
  BY <1>7, <1>8, <1>10 DEF T1

(* A task that DelTask has deleted, with its records.                      *)
LEMMA TaskDeleted ==
    ASSUME NEW T, NEW R, TablesOK(T, R), NEW k \in DOMAIN T
    PROVE  /\ Titles(Delete(T, {k})) = Tracker!Without(Titles(T), T[k].label)
           /\ Logs(Delete(T, {k}), Delete(R, RecordsOf(R, k)))
                 = Tracker!Without(Logs(T, R), T[k].label)
           /\ Running(Delete(T, {k}), Delete(R, RecordsOf(R, k)))
                 = IF Running(T, R) # Null /\ Running(T, R).label = T[k].label
                   THEN Null ELSE Running(T, R)
<1> DEFINE T1 == Delete(T, {k})
           R1 == Delete(R, RecordsOf(R, k))
<1>1. /\ DOMAIN T1 = DOMAIN T \ {k} /\ \A j \in DOMAIN T1 : T1[j] = T[j]
      /\ DOMAIN R1 = {r \in DOMAIN R : R[r].task # k}
      /\ \A r \in DOMAIN R1 : R1[r] = R[r]
  BY DEF Delete, Restrict, RecordsOf
<1> HIDE DEF T1, R1
<1>2. TasksOK(T1)
  BY <1>1 DEF TablesOK, TasksOK
<1>3. LabelsOf(T1) = LabelsOf(T) \ {T[k].label}
  BY <1>1 DEF LabelsOf, TablesOK, TasksOK
<1>4. ASSUME NEW l \in LabelsOf(T1)
      PROVE  TaskOf(T1, l) = TaskOf(T, l) /\ TaskOf(T, l) \in DOMAIN T1
  <2>1. TaskOf(T1, l) \in DOMAIN T1 /\ T1[TaskOf(T1, l)].label = l
    BY <1>2, KnownLabel
  <2>2. TaskOf(T1, l) \in DOMAIN T /\ T[TaskOf(T1, l)].label = l
    BY <1>1, <2>1
  <2> QED
    BY <2>1, <2>2, TaskOfLabel DEF TablesOK
<1>5. Titles(T1) = Tracker!Without(Titles(T), T[k].label)
  BY <1>1, <1>3, <1>4 DEF Titles, Tracker!Without
<1>6. ASSUME NEW j \in DOMAIN T1
      PROVE  PeriodsAt(R1, EndedIds(R1, j)) = PeriodsAt(R, EndedIds(R, j))
  <2>1. EndedIds(R1, j) = EndedIds(R, j)
    BY <1>1 DEF EndedIds, RecordsOf, OpenRecords
  <2>2. EndedIds(R, j) \in SUBSET RowId /\ \A r \in EndedIds(R, j) : R1[r] = R[r]
    BY <1>1 DEF EndedIds, RecordsOf, TablesOK, RecordsOK
  <2> QED
    BY <2>1, <2>2, PeriodsSame
<1>7. Logs(T1, R1) = Tracker!Without(Logs(T, R), T[k].label)
  BY <1>3, <1>4, <1>6 DEF Logs, Tracker!Without
<1>8. OpenRecords(R1) = {o \in OpenRecords(R) : R[o].task # k}
  BY <1>1 DEF OpenRecords
<1>9. CASE OpenRecords(R) = {}
  <2>1. OpenRecords(R1) = {} /\ Running(T, R) = Null
    BY <1>8, <1>9, RunningIs
  <2>2. Running(T1, R1) = Null
    BY <2>1 DEF Running, OpenPeriods
  <2> QED
    BY <1>5, <1>7, <2>1, <2>2 DEF T1, R1
<1>10. CASE OpenRecords(R) # {}
  <2>1. PICK o \in OpenRecords(R) : TRUE
    BY <1>10
  <2>2. /\ Running(T, R) = [label |-> T[R[o].task].label, begin |-> R[o].begin]
        /\ Running(T, R) # Null /\ OpenRecords(R) = {o}
        /\ o \in DOMAIN R /\ R[o].task \in DOMAIN T
    BY <2>1, RunningIs DEF TablesOK, RecordsOK
  <2>3. T[R[o].task].label = T[k].label <=> R[o].task = k
    BY <2>2 DEF TablesOK, TasksOK
  <2>4. Running(T, R).label = T[k].label <=> R[o].task = k
    BY <2>2, <2>3
  <2>5. CASE R[o].task = k
    <3>1. OpenRecords(R1) = {}
      BY <1>8, <2>2, <2>5
    <3>2. Running(T1, R1) = Null
      BY <3>1 DEF Running, OpenPeriods
    <3> QED
      BY <1>5, <1>7, <2>2, <2>4, <2>5, <3>2 DEF T1, R1
  <2>6. CASE R[o].task # k
    <3>1. OpenRecords(R1) = {o} /\ R1[o] = R[o] /\ T1[R[o].task] = T[R[o].task]
      BY <1>1, <1>8, <2>2, <2>6
    <3>2. OpenPeriods(T1, R1) = OpenPeriods(T, R)
      BY <2>2, <3>1 DEF OpenPeriods
    <3>3. Running(T1, R1) = Running(T, R)
      BY <3>2 DEF Running
    <3> QED
      BY <1>5, <1>7, <2>2, <2>4, <2>6, <3>3 DEF T1, R1
  <2> QED
    BY <2>5, <2>6
<1> QED
  BY <1>9, <1>10

(* Ending the open record of a task adds its period to the others' end,    *)
(* since its id is the largest.                                            *)
LEMMA LastPeriod ==
    ASSUME NEW T, NEW R, TablesOK(T, R), NEW o \in OpenRecords(R), NEW e
    PROVE  PeriodsAt(CloseRecord(R, o, e), EndedIds(R, R[o].task) \cup {o})
              = Append(PeriodsAt(R, EndedIds(R, R[o].task)),
                       [begin |-> R[o].begin, end |-> e])
<1> DEFINE S == EndedIds(R, R[o].task)
           R1 == CloseRecord(R, o, e)
<1>1. /\ S \in SUBSET RowId /\ o \in RowId /\ o \in DOMAIN R /\ R[o].end = Null
      /\ \A r \in S : r \in DOMAIN R /\ R[r].task = R[o].task /\ r # o
  BY DEF EndedIds, RecordsOf, OpenRecords, TablesOK, RecordsOK
<1>2. \A r \in S : r < o
  <2> SUFFICES ASSUME NEW r \in S PROVE r < o
    OBVIOUS
  <2>1. ~(o < r)
    BY <1>1 DEF TablesOK, RecordsOK
  <2> QED
    BY <1>1, <2>1 DEF RowId
<1>3. \A r \in S : PeriodOf(R1[r]) = PeriodOf(R[r])
  BY <1>1 DEF CloseRecord
<1>4. R[o] \in RecordRow
  BY <1>1 DEF TablesOK, RecordsOK
<1>5. PeriodOf(R1[o]) = [begin |-> R[o].begin, end |-> e]
  BY <1>1, <1>4 DEF CloseRecord, PeriodOf, RecordRow
<1> HIDE DEF S, R1
<1>6. PeriodsAt(R1, S \cup {o}) = Append(PeriodsAt(R, S), PeriodOf(R1[o]))
  BY <1>1, <1>2, <1>3, PeriodsAppend
<1> QED
  BY <1>5, <1>6 DEF S, R1

(* A period that StartTask or StopTask has ended.                          *)
LEMMA PeriodEnded ==
    ASSUME NEW T, NEW R, TablesOK(T, R), NEW o \in OpenRecords(R), NEW e, e # Null
    PROVE  /\ Logs(T, CloseRecord(R, o, e))
                 = [Logs(T, R) EXCEPT ![Running(T, R).label] =
                       Append(Logs(T, R)[Running(T, R).label],
                              [begin |-> Running(T, R).begin, end |-> e])]
           /\ OpenRecords(CloseRecord(R, o, e)) = {}
           /\ Running(T, CloseRecord(R, o, e)) = Null
<1> DEFINE R1 == CloseRecord(R, o, e)
           k == R[o].task
           lab == T[k].label
           period == [begin |-> R[o].begin, end |-> e]
<1>1. /\ Running(T, R) = [label |-> lab, begin |-> R[o].begin]
      /\ o \in DOMAIN R /\ R[o].end = Null /\ k \in DOMAIN T
      /\ OpenRecords(R) = {o}
  BY RunningIs DEF TablesOK, RecordsOK
<1>2. \A r \in DOMAIN R : R[r] \in RecordRow
  BY DEF TablesOK, RecordsOK
<1>3. /\ DOMAIN R1 = DOMAIN R
      /\ \A r \in DOMAIN R : /\ R1[r].task = R[r].task /\ R1[r].begin = R[r].begin
                             /\ R1[r].end = IF r = o THEN e ELSE R[r].end
  BY <1>2 DEF CloseRecord, RecordRow
<1>4. OpenRecords(R1) = {}
  BY <1>1, <1>3 DEF OpenRecords
<1>5. PeriodsAt(R1, EndedIds(R, k) \cup {o}) = Append(PeriodsAt(R, EndedIds(R, k)), period)
  BY LastPeriod
<1> HIDE DEF R1
<1>6. EndedIds(R1, k) = EndedIds(R, k) \cup {o}
  BY <1>1, <1>3, <1>4 DEF EndedIds, RecordsOf, OpenRecords
<1>7. ASSUME NEW j \in DOMAIN T, j # k
      PROVE  PeriodsAt(R1, EndedIds(R1, j)) = PeriodsAt(R, EndedIds(R, j))
  <2>1. EndedIds(R1, j) = EndedIds(R, j)
    BY <1>1, <1>3, <1>7 DEF EndedIds, RecordsOf, OpenRecords
  <2>2. EndedIds(R, j) \in SUBSET RowId /\ EndedIds(R, j) \subseteq DOMAIN R \ {o}
    BY <1>1 DEF EndedIds, RecordsOf, TablesOK, RecordsOK
  <2>3. \A r \in EndedIds(R, j) : PeriodOf(R1[r]) = PeriodOf(R[r])
    BY <1>3, <2>2 DEF PeriodOf
  <2> QED
    BY <2>1, <2>2, <2>3, PeriodsSame
<1>8. lab \in LabelsOf(T) /\ TaskOf(T, lab) = k
  BY <1>1, TaskOfLabel DEF TablesOK
<1>9. \A l \in LabelsOf(T) : TaskOf(T, l) \in DOMAIN T /\ (TaskOf(T, l) = k <=> l = lab)
  BY <1>8, KnownLabel DEF TablesOK
<1> DEFINE old == Logs(T, R)
<1>10. /\ DOMAIN old = LabelsOf(T)
       /\ \A l \in LabelsOf(T) : old[l] = PeriodsAt(R, EndedIds(R, TaskOf(T, l)))
  BY DEF Logs
<1> HIDE DEF old, lab, k, period
<1>11. Logs(T, R1) = [l \in LabelsOf(T) |-> PeriodsAt(R1, EndedIds(R1, TaskOf(T, l)))]
  BY DEF Logs
<1>12. ASSUME NEW l \in LabelsOf(T)
       PROVE  PeriodsAt(R1, EndedIds(R1, TaskOf(T, l)))
                 = IF l = lab THEN Append(old[lab], period) ELSE old[l]
  <2>1. CASE l = lab
    BY <1>5, <1>6, <1>8, <1>10, <2>1
  <2>2. CASE l # lab
    BY <1>7, <1>9, <1>10, <2>2
  <2> QED
    BY <2>1, <2>2
<1>13. old = [l \in LabelsOf(T) |-> old[l]]
  BY DEF old, Logs
<1>14. Logs(T, R1) = [old EXCEPT ![lab] = Append(old[lab], period)]
  BY <1>8, <1>11, <1>12, <1>13
<1>15. Running(T, R).label = lab /\ period = [begin |-> Running(T, R).begin, end |-> e]
  BY <1>1 DEF period
<1>16. Running(T, R1) = Null
  BY <1>4 DEF Running, OpenPeriods
<1> QED
  BY <1>4, <1>14, <1>15, <1>16 DEF old, R1

(* A period that StartTask has begun.                                      *)
LEMMA PeriodBegun ==
    ASSUME NEW T, TasksOK(T), NEW R, DOMAIN R \subseteq RowId, OpenRecords(R) = {},
           NEW id \in RowId, id \notin DOMAIN R, NEW k \in DOMAIN T, NEW b
    PROVE  /\ Logs(T, Insert(R, id, [task |-> k, begin |-> b, end |-> Null])) = Logs(T, R)
           /\ Running(T, Insert(R, id, [task |-> k, begin |-> b, end |-> Null]))
                 = [label |-> T[k].label, begin |-> b]
<1> DEFINE row == [task |-> k, begin |-> b, end |-> Null]
           R1 == Insert(R, id, row)
<1>1. row.task = k /\ row.begin = b /\ row.end = Null
  OBVIOUS
<1> HIDE DEF row
<1>2. /\ DOMAIN R1 = DOMAIN R \cup {id} /\ R1[id] = row
      /\ \A r \in DOMAIN R : R1[r] = R[r]
  BY DEF Insert
<1> HIDE DEF R1
<1>3. OpenRecords(R1) = {id}
  BY <1>1, <1>2 DEF OpenRecords
<1>4. ASSUME NEW j
      PROVE  PeriodsAt(R1, EndedIds(R1, j)) = PeriodsAt(R, EndedIds(R, j))
  <2>1. EndedIds(R1, j) = EndedIds(R, j)
    BY <1>1, <1>2 DEF EndedIds, RecordsOf, OpenRecords
  <2>2. EndedIds(R, j) \in SUBSET RowId /\ \A r \in EndedIds(R, j) : R1[r] = R[r]
    BY <1>2 DEF EndedIds, RecordsOf
  <2> QED
    BY <2>1, <2>2, PeriodsSame
<1>5. Logs(T, R1) = Logs(T, R)
  BY <1>4 DEF Logs
<1>6. OpenPeriods(T, R1) = {[label |-> T[k].label, begin |-> b]}
  BY <1>1, <1>2, <1>3 DEF OpenPeriods
<1>7. Running(T, R1) = [label |-> T[k].label, begin |-> b]
  BY <1>6 DEF Running
<1> QED
  BY <1>5, <1>7 DEF R1, row

(* In particular if a blank ends it, as in a copy.                         *)
LEMMA LastPeriodBlank ==
    ASSUME NEW T, NEW R, TablesOK(T, R), NEW o \in OpenRecords(R), NEW k, R[o].task = k
    PROVE  /\ RecordsOf(R, k) = EndedIds(R, k) \cup {o}
           /\ PeriodsAt(CloseRecord(R, o, Blank), RecordsOf(R, k))
                 = Append(PeriodsAt(R, EndedIds(R, k)),
                          [begin |-> R[o].begin, end |-> Blank])
<1>1. RecordsOf(R, R[o].task) = EndedIds(R, R[o].task) \cup {o}
  BY DEF EndedIds, RecordsOf, OpenRecords, TablesOK, RecordsOK
<1>2. PeriodsAt(CloseRecord(R, o, Blank), EndedIds(R, R[o].task) \cup {o})
         = Append(PeriodsAt(R, EndedIds(R, R[o].task)),
                  [begin |-> R[o].begin, end |-> Blank])
  BY LastPeriod
<1> QED
  BY <1>1, <1>2

(* The periods that CopyTask has copied: those of the original that have    *)
(* ended, and the running one last, with a blank end.                      *)
LEMMA PeriodsCopied ==
    ASSUME NEW T, NEW R, TablesOK(T, R), NEW k \in DOMAIN T, NEW R1, NEW id,
           DOMAIN R1 \subseteq RowId,
           NEW g \in [RecordsOf(R1, id) -> RecordsOf(R, k)],
           \A s \in RecordsOf(R1, id) :
               R1[s].begin = R[g[s]].begin /\ R1[s].end = Rebound(R[g[s]].end),
           \A r, s \in RecordsOf(R1, id) : r < s => g[r] < g[s],
           \A r \in RecordsOf(R, k) : \E s \in RecordsOf(R1, id) : g[s] = r
    PROVE  PeriodsAt(R1, EndedIds(R1, id))
              = IF Running(T, R) # Null /\ Running(T, R).label = T[k].label
                THEN Append(Logs(T, R)[T[k].label],
                            [begin |-> Running(T, R).begin, end |-> Blank])
                ELSE Logs(T, R)[T[k].label]
<1>1. EndedIds(R1, id) = RecordsOf(R1, id)
  <2>1. \A x : Rebound(x) # Null
    BY RowAssumption DEF Rebound
  <2> QED
    BY <2>1 DEF EndedIds, OpenRecords
<1>2. RecordsOf(R1, id) \in SUBSET RowId /\ RecordsOf(R, k) \in SUBSET RowId
  BY DEF RecordsOf, TablesOK, RecordsOK
<1>3. Logs(T, R)[T[k].label] = PeriodsAt(R, EndedIds(R, k))
  BY TaskOfLabel DEF Logs, TablesOK
<1>4. ASSUME NEW o \in OpenRecords(R)
      PROVE  /\ Running(T, R) # Null /\ OpenRecords(R) = {o} /\ o \in DOMAIN R
             /\ Running(T, R).begin = R[o].begin /\ R[o].end = Null
             /\ Running(T, R).label = T[k].label <=> R[o].task = k
  <2>1. /\ Running(T, R) = [label |-> T[R[o].task].label, begin |-> R[o].begin]
        /\ o \in DOMAIN R /\ R[o].end = Null /\ R[o].task \in DOMAIN T
    BY RunningIs
  <2>2. Running(T, R) # Null
    BY RunningIs
  <2>3. OpenRecords(R) = {o}
    BY DEF TablesOK, RecordsOK
  <2>4. T[R[o].task].label = T[k].label <=> R[o].task = k
    BY <2>1 DEF TablesOK, TasksOK
  <2> QED
    BY <2>1, <2>2, <2>3, <2>4
<1>5. CASE \A o \in OpenRecords(R) : R[o].task # k
  <2>1. EndedIds(R, k) = RecordsOf(R, k)
    BY <1>5 DEF EndedIds, RecordsOf
  <2>2. \A r \in RecordsOf(R, k) : Rebound(R[r].end) = R[r].end
    BY <2>1 DEF Rebound, EndedIds, RecordsOf, OpenRecords
  <2>3. \A s \in RecordsOf(R1, id) : PeriodOf(R1[s]) = PeriodOf(R[g[s]])
    BY <2>2 DEF PeriodOf
  <2>4. PeriodsAt(R1, RecordsOf(R1, id)) = PeriodsAt(R, RecordsOf(R, k))
    BY <1>2, <2>3, PeriodsImage
  <2>5. ~(Running(T, R) # Null /\ Running(T, R).label = T[k].label)
    BY <1>4, <1>5, RunningIs
  <2> QED
    BY <1>1, <1>3, <2>1, <2>4, <2>5
<1>6. CASE \E o \in OpenRecords(R) : R[o].task = k
  <2>1. PICK o \in OpenRecords(R) : R[o].task = k
    BY <1>6
  <2> DEFINE R2 == CloseRecord(R, o, Blank)
  <2>3. PeriodsAt(R2, RecordsOf(R, k))
           = Append(PeriodsAt(R, EndedIds(R, k)), [begin |-> R[o].begin, end |-> Blank])
    BY <2>1, LastPeriodBlank
  <2>4. ASSUME NEW r \in RecordsOf(R, k)
        PROVE  R2[r].begin = R[r].begin /\ R2[r].end = Rebound(R[r].end)
    <3>1. r \in DOMAIN R /\ R[r] \in RecordRow
      BY DEF RecordsOf, TablesOK, RecordsOK
    <3>2. R[r].end = Null <=> r = o
      BY <1>4, <2>1, <3>1 DEF OpenRecords
    <3> QED
      BY <3>1, <3>2 DEF CloseRecord, Rebound, RecordRow
  <2> HIDE DEF R2
  <2>5. \A s \in RecordsOf(R1, id) : PeriodOf(R1[s]) = PeriodOf(R2[g[s]])
    BY <2>4 DEF PeriodOf
  <2>6. PeriodsAt(R1, RecordsOf(R1, id)) = PeriodsAt(R2, RecordsOf(R, k))
    BY <1>2, <2>5, PeriodsImage
  <2>7. /\ Running(T, R) # Null /\ Running(T, R).label = T[k].label
        /\ Running(T, R).begin = R[o].begin
    BY <1>4, <2>1
  <2> QED
    BY <1>1, <1>3, <2>3, <2>6, <2>7
<1> QED
  BY <1>5, <1>6

-----------------------------------------------------------------------------
(* What the command under way has changed since the last one ended.        *)

\* The locations up to which a method has written nothing.
BeforeWrites == {"idle", "addInsert", "updUpdate", "delTask", "startSelect", "startEnd",
                 "stopSelect", "stopEnd", "statusSelect", "copyInsert"}
                \cup Creates \cup Lookups

Untouched(p) == pc[p] \in BeforeWrites => tasks = seen.tasks /\ records = seen.records

\* DelTask has deleted the task.
HalfDeleted(p) ==
    pc[p] = "delRecords" =>
        /\ taskId[p] \in WithLabel(seen.tasks, cmd[p].label)
        /\ tasks = Delete(seen.tasks, {taskId[p]})
        /\ records = seen.records

\* StartTask has ended the running period, which was another task's, if any.
HalfStarted(p) ==
    pc[p] \in PastOpen =>
        /\ tasks = seen.tasks
        /\ \/ records = seen.records /\ OpenRecords(seen.records) = {}
           \/ \E o \in OpenRecords(seen.records) : \E e \in ended..now[p] :
                 /\ seen.records[o].task # taskId[p]
                 /\ records = CloseRecord(seen.records, o, e)

\* CopyTask has inserted the new task and some of its records.
HalfCopied(p) ==
    pc[p] \in {"copyFetch", "copyRecord"} =>
        /\ newId[p] \in RowId \ DOMAIN seen.tasks
        /\ WithLabel(seen.tasks, cmd[p].newLabel) = {}
        /\ taskId[p] \in WithLabel(seen.tasks, cmd[p].label)
        /\ tasks = Insert(seen.tasks, newId[p], [label |-> cmd[p].newLabel,
                                                 title |-> cmd[p].title])
        /\ DOMAIN seen.records \subseteq DOMAIN records
        /\ \A r \in DOMAIN seen.records : records[r] = seen.records[r]
        /\ \A r \in DOMAIN records \ DOMAIN seen.records :
              records[r].task = newId[p] /\ records[r].end # Null

\* What StartTask and StopTask have read, and when.
HasRead(p) ==
    /\ pc[p] \in {"startEnd", "startInsert", "stopEnd"} => ended <= now[p]
    /\ pc[p] = "startEnd" => records[recordId[p]].task # taskId[p]
    /\ pc[p] = "stopSelect" /\ lock[p] # "none" /\ recordId[p] = 0 =>
          OpenRecords(records) = {}

UnderWay(p) ==
    Untouched(p) /\ HalfDeleted(p) /\ HalfStarted(p) /\ HalfCopied(p) /\ HasRead(p)

SeenInv ==
    /\ TablesOK(seen.tasks, seen.records)
    /\ ended \in 0..clock
    /\ \A p \in Proc : UnderWay(p)

-----------------------------------------------------------------------------
(* Steps on the way to the end of a command.                               *)

\* What such a step does: it keeps SeenInv, and the user sees nothing of it.
GoesOn == SeenInv' /\ UNCHANGED <<cmd, reply, clock>>

(* The clock and the times read from it.                                   *)
LEMMA ClockReads ==
    ASSUME IInv
    PROVE  clock \in Nat /\ clock <= clock /\ \A p \in Proc : now[p] \in Nat /\ now[p] <= clock
<1>1. clock \in Nat /\ \A p \in Proc : now[p] \in Nat
  BY SessionAssumption DEF IInv, TypeOK, SessionOK, Time
<1> QED
  BY <1>1 DEF IInv, ProcOK

(* There is only p to look at.                                             *)
LEMMA SeenKept ==
    ASSUME OneUser, IInv, SeenInv, NEW p \in Proc, UNCHANGED <<seen, ended>>,
           clock' \in Nat, clock <= clock', UnderWay(p)'
    PROVE  SeenInv'
<1>1. \A q \in Proc : q = p
  BY DEF OneUser
<1>2. ended \in Nat /\ ended <= clock /\ clock \in Nat
  BY ClockReads DEF SeenInv
<1>3. ended' \in 0..clock'
  BY <1>2
<1> QED
  BY <1>1, <1>3 DEF SeenInv

(* Reading, before anything is written.                                    *)
LEMMA OnlyRead ==
    ASSUME OneUser, IInv, SeenInv, NEW p \in Proc,
           UNCHANGED <<seen, ended, tasks, records, clock>>,
           pc[p] \in BeforeWrites, pc'[p] \in BeforeWrites \ {"startEnd", "stopEnd"},
           pc'[p] = "stopSelect" /\ lock'[p] # "none" /\ recordId'[p] = 0 =>
               OpenRecords(records) = {}
    PROVE  SeenInv'
<1>1. tasks = seen.tasks /\ records = seen.records
  BY DEF SeenInv, UnderWay, Untouched
<1>2. Untouched(p)'
  BY <1>1 DEF Untouched
<1>3. HalfDeleted(p)' /\ HalfStarted(p)' /\ HalfCopied(p)'
  BY DEF HalfDeleted, HalfStarted, HalfCopied, BeforeWrites, Creates, Lookups, PastOpen
<1>4. HasRead(p)'
  BY DEF HasRead, BeforeWrites, Creates, Lookups
<1>5. clock \in Nat /\ clock <= clock
  BY ClockReads
<1> QED
  BY <1>2, <1>3, <1>4, <1>5, SeenKept DEF UnderWay

(* Changing locks, and the passing of time.                                *)
LEMMA OnlyLocks ==
    ASSUME OneUser, IInv, SeenInv, NEW p \in Proc,
           UNCHANGED <<seen, ended, tasks, records, pc, cmd, local>>,
           clock' \in Nat, clock <= clock',
           pc[p] = "stopSelect" => lock[p] # "none" \/ lock'[p] = "none"
    PROVE  SeenInv'
<1>1. UNCHANGED <<taskId, recordId, newId, now>>
  BY DEF local
<1>2. UnderWay(p)
  BY DEF SeenInv
<1>3. Untouched(p)' /\ HalfDeleted(p)'
  BY <1>1, <1>2 DEF UnderWay, Untouched, HalfDeleted, WithLabel, Delete
<1>4. HalfStarted(p)'
  BY <1>1, <1>2 DEF UnderWay, HalfStarted, OpenRecords, CloseRecord
<1>5. HalfCopied(p)'
  BY <1>1, <1>2 DEF UnderWay, HalfCopied, WithLabel, Insert
<1>6. HasRead(p)'
  BY <1>1, <1>2 DEF UnderWay, HasRead, OpenRecords
<1> QED
  BY <1>3, <1>4, <1>5, <1>6, SeenKept DEF UnderWay

(* The statements of OpenDatabase and of GetTaskId, and the taking of locks. *)
LEMMA OpeningGoesOn ==
    ASSUME OneUser, IInv, SeenInv, UNCHANGED <<seen, ended>>, NEW p \in Proc,
           \/ Reserve(p) \/ Pend(p) \/ CreateCheck(p) \/ CreateDone(p)
           \/ GetTaskId(p) \/ CopyOpen(p)
    PROVE  GoesOn
<1>0. clock \in Nat /\ clock <= clock
  BY ClockReads
<1>1. CASE Reserve(p) \/ Pend(p) \/ CreateCheck(p) \/ CopyOpen(p)
  <2>1. /\ UNCHANGED <<tasks, records, pc, cmd, local, reply, clock>>
        /\ pc[p] = "stopSelect" => lock[p] # "none"
    BY <1>1 DEF Reserve, Pend, CreateCheck, CopyOpen, OpensSelect, Writes, Creates, file
  <2> QED
    BY <1>0, <2>1, OnlyLocks DEF GoesOn
<1>2. CASE CreateDone(p)
  <2>1. cmd[p] \in Command \cup {NoCommand}
    BY DEF IInv, TypeOK, SessionOK
  <2>2. FirstStatement(cmd[p].op) \in {"lookupNew", "stopSelect", "statusSelect", "lookup"}
    BY <2>1, SessionAssumption DEF FirstStatement, Command, NoCommand
  <2>3. /\ UNCHANGED <<tasks, records, cmd, reply, clock>> /\ lock'[p] = "none"
        /\ pc[p] \in Creates
        /\ pc'[p] \in {"createRecords", "lookupNew", "stopSelect", "statusSelect", "lookup"}
    BY <1>2, <2>2 DEF CreateDone, Hold, Jump, IInv, TypeOK, SessionOK
  <2> QED
    BY <2>3, OnlyRead DEF GoesOn, BeforeWrites, Creates, Lookups
<1>3. CASE GetTaskId(p)
  <2>1. UNCHANGED <<tasks, records, pc, cmd, reply, clock>> /\ pc[p] \in Lookups
    BY <1>3 DEF GetTaskId, file
  <2> QED
    BY <2>1, OnlyRead DEF GoesOn, BeforeWrites, Lookups
<1> QED
  BY <1>1, <1>2, <1>3

(* What the methods go on to with the result of GetTaskId.                 *)
LEMMA LookedUpGoesOn ==
    ASSUME OneUser, IInv, SeenInv, UNCHANGED <<seen, ended>>, NEW p \in Proc,
           pc[p] \in Lookups, UNCHANGED file, NEW next, Proceed(p, next),
           next \in {"updUpdate", "delTask", "startSelect", "copyInsert", "addInsert", "lookup"}
    PROVE  GoesOn
<1>1. pc'[p] = next
  BY WentOnFrom
<1>2. UNCHANGED <<tasks, records, cmd, reply, clock>>
  BY DEF file, Proceed, Jump
<1> QED
  BY <1>1, <1>2, OnlyRead DEF GoesOn, BeforeWrites, Lookups

(* DelTask has looked the task up and now deletes it.                      *)
LEMMA DelTaskRowGoesOn ==
    ASSUME OneUser, AllInv, SeenInv, UNCHANGED <<seen, ended>>, NEW p \in Proc,
           DelTaskRow(p)
    PROVE  GoesOn
<1>0. OneUser /\ IInv /\ UserInv /\ clock \in Nat /\ clock <= clock
  BY ClockReads DEF AllInv
<1>1. pc[p] = "delTask" /\ tasks' = Delete(tasks, {taskId[p]}) /\ UNCHANGED records
  BY NeverBusy DEF DelTaskRow, Commits
<1>2. pc'[p] = "delRecords" /\ UNCHANGED <<cmd, taskId, clock, reply>>
  BY <1>0, WentOnFrom DEF DelTaskRow, Proceed, Jump
<1>3. taskId[p] \in WithLabel(tasks, cmd[p].label)
  BY <1>0, <1>1 DEF UserInv, UserOK, Sees, UsesTaskId
<1>4. tasks = seen.tasks /\ records = seen.records
  BY <1>1 DEF SeenInv, UnderWay, Untouched, BeforeWrites
<1>5. HalfDeleted(p)'
  BY <1>1, <1>2, <1>3, <1>4 DEF HalfDeleted
<1>6. UnderWay(p)'
  BY <1>2, <1>5 DEF UnderWay, Untouched, HalfStarted, HalfCopied, HasRead, BeforeWrites,
     Creates, Lookups, PastOpen
<1> QED
  BY <1>0, <1>2, <1>6, SeenKept DEF GoesOn

(* The SELECT of the open period.                                          *)
LEMMA FindOpenGoesOn ==
    ASSUME OneUser, IInv, SeenInv, UNCHANGED <<seen, ended>>, NEW p \in Proc,
           NEW at \in {"startSelect", "stopSelect", "statusSelect"}, FindOpen(p, at)
    PROVE  GoesOn
<1>1. PICK k \in RowId \cup {0} :
         IsFirst(OpenRecords(records), k) /\ recordId' = [recordId EXCEPT ![p] = k]
  BY DEF FindOpen
<1>2. UNCHANGED <<tasks, records, pc, cmd, reply, clock>> /\ recordId'[p] = k /\ pc[p] = at
  BY <1>1 DEF FindOpen, OpensSelect, file, IInv, TypeOK, SessionOK
<1>3. k = 0 => OpenRecords(records) = {}
  <2>1. OpenRecords(records) \subseteq RowId
    BY DEF OpenRecords, IInv, TypeOK, FileOK
  <2> QED
    BY <1>1, <2>1, RowAssumption DEF IsFirst, RowId
<1> QED
  BY <1>2, <1>3, OnlyRead DEF GoesOn, BeforeWrites

(* StartTask reads the time and goes on to end the running period, or, if   *)
(* there is none, to begin one.                                            *)
LEMMA StartRowGoesOn ==
    ASSUME OneUser, AllInv, SeenInv, UNCHANGED <<seen, ended>>, NEW p \in Proc,
           StartRow(p), pc'[p] # "idle"
    PROVE  GoesOn
<1>0. OneUser /\ IInv /\ clock \in Nat /\ clock <= clock /\ ended <= clock
  BY ClockReads DEF AllInv, SeenInv
<1>1. UNCHANGED <<tasks, records>> /\ pc[p] = "startSelect"
  BY DEF StartRow, HasRow, NoRow, SelectBusy, file
<1>2. tasks = seen.tasks /\ records = seen.records
  BY <1>1 DEF SeenInv, UnderWay, Untouched, BeforeWrites
<1>3. CASE HasRow(p, "startSelect") /\ ThenHolding(p, "startEnd")
           /\ records[recordId[p]].task # taskId[p]
  <2>1. /\ pc'[p] = "startEnd" /\ now'[p] = clock
        /\ UNCHANGED <<cmd, taskId, recordId, reply, clock>>
    BY <1>0, <1>3 DEF ThenHolding, Jump, GetCurrentDatetime, IInv, TypeOK, SessionOK
  <2>2. UnderWay(p)'
    BY <1>0, <1>1, <1>2, <1>3, <2>1
    DEF UnderWay, Untouched, HalfDeleted, HalfStarted, HalfCopied, HasRead, PastOpen
  <2> QED
    BY <1>0, <2>1, <2>2, SeenKept DEF GoesOn
<1>4. CASE NoRow(p, "startSelect") /\ Proceed(p, "startTime")
  <2>1. pc'[p] = "startTime" /\ UNCHANGED <<cmd, taskId, recordId, reply, clock>>
    BY <1>0, <1>4 DEF Proceed, Jump, local, IInv, TypeOK, SessionOK
  <2>2. OpenRecords(records) = {}
    BY <1>4, NeverBusy DEF NoRow, AllInv, OneInv, SawNothingOpen, NothingOpen
  <2>3. HalfStarted(p)'
    BY <1>1, <1>2, <2>2 DEF HalfStarted
  <2>4. UnderWay(p)'
    BY <1>0, <2>1, <2>3 DEF UnderWay, Untouched, HalfDeleted, HalfCopied, HasRead, BeforeWrites,
       Creates, Lookups
  <2> QED
    BY <1>0, <2>1, <2>4, SeenKept DEF GoesOn
<1>5. ~Return(p, "ALREADY_RUNNING")
  BY <1>0 DEF Return, ReturnShowing, IInv, TypeOK, SessionOK
<1> QED
  BY <1>3, <1>4, <1>5 DEF StartRow

(* The running period has ended.                                           *)
LEMMA StartEndGoesOn ==
    ASSUME OneUser, AllInv, SeenInv, UNCHANGED <<seen, ended>>, NEW p \in Proc, StartEnd(p)
    PROVE  GoesOn
<1>0. /\ OneUser /\ IInv /\ clock \in Nat /\ clock <= clock /\ ended \in Nat
      /\ ended <= clock /\ now[p] \in Nat /\ now[p] <= clock
  BY ClockReads DEF AllInv, SeenInv
<1>1. /\ pc[p] = "startEnd" /\ UNCHANGED tasks
      /\ records' = CloseRecord(records, recordId[p], now[p])
  BY NeverBusy DEF StartEnd, Commits
<1>2. tasks = seen.tasks /\ records = seen.records
  BY <1>1 DEF SeenInv, UnderWay, Untouched, BeforeWrites
<1>3. pc'[p] = "startFinish" /\ UNCHANGED <<cmd, taskId, recordId, now, reply, clock>>
  BY <1>0 DEF StartEnd, Jump, local, IInv, TypeOK, SessionOK
<1>4. recordId[p] \in OpenRecords(records)
  BY <1>0, <1>1 DEF IInv, ProcOK, HoldsRow
<1>5. ended <= now[p] /\ records[recordId[p]].task # taskId[p]
  BY <1>1 DEF SeenInv, UnderWay, HasRead
<1>6. now[p] \in ended..now'[p]
  BY <1>0, <1>3, <1>5
<1>7. HalfStarted(p)'
  BY <1>1, <1>2, <1>3, <1>4, <1>5, <1>6 DEF HalfStarted
<1>8. UnderWay(p)'
  BY <1>0, <1>3, <1>7 DEF UnderWay, Untouched, HalfDeleted, HalfCopied, HasRead, BeforeWrites,
     Creates, Lookups
<1> QED
  BY <1>0, <1>3, <1>8, SeenKept DEF GoesOn

(* The SELECT is finalized, and the time is read again, later.             *)
LEMMA StartPausesGoOn ==
    ASSUME OneUser, IInv, SeenInv, UNCHANGED <<seen, ended>>, NEW p \in Proc,
           StartFinish(p) \/ StartTime(p)
    PROVE  GoesOn
<1>0. /\ clock \in Nat /\ clock <= clock /\ ended \in Nat /\ ended <= clock
      /\ now[p] \in Nat /\ now[p] <= clock
  BY ClockReads DEF SeenInv
<1>1. /\ UNCHANGED <<tasks, records, cmd, taskId, recordId, reply, clock>>
      /\ pc[p] \in {"startFinish", "startTime"}
      /\ \/ pc'[p] = "startTime" /\ UNCHANGED now
         \/ pc'[p] = "startInsert" /\ now'[p] = clock
  BY DEF StartFinish, StartTime, Proceed, Jump, GetCurrentDatetime, file, local,
     IInv, TypeOK, SessionOK
<1>2. /\ tasks = seen.tasks
      /\ \/ records = seen.records /\ OpenRecords(seen.records) = {}
         \/ \E o \in OpenRecords(seen.records) : \E e \in ended..now[p] :
               /\ seen.records[o].task # taskId[p]
               /\ records = CloseRecord(seen.records, o, e)
  BY <1>1 DEF SeenInv, UnderWay, HalfStarted, PastOpen
<1>3. \A e \in ended..now[p] : e \in ended..now'[p]
  BY <1>0, <1>1
<1>4. HalfStarted(p)'
  <2>1. CASE records = seen.records /\ OpenRecords(seen.records) = {}
    BY <1>1, <1>2, <2>1 DEF HalfStarted
  <2>2. CASE \E o \in OpenRecords(seen.records) : \E e \in ended..now[p] :
               /\ seen.records[o].task # taskId[p]
               /\ records = CloseRecord(seen.records, o, e)
    <3>1. PICK o \in OpenRecords(seen.records) : \E e \in ended..now[p] :
               /\ seen.records[o].task # taskId[p]
               /\ records = CloseRecord(seen.records, o, e)
      BY <2>2
    <3>2. PICK e \in ended..now[p] :
               /\ seen.records[o].task # taskId[p]
               /\ records = CloseRecord(seen.records, o, e)
      BY <3>1
    <3>3. CloseRecord(seen.records, o, e) = CloseRecord(seen.records, o, e)'
      BY DEF CloseRecord
    <3> QED
      BY <1>1, <1>2, <1>3, <3>2, <3>3 DEF HalfStarted
  <2> QED
    BY <1>2, <2>1, <2>2
<1>5. UnderWay(p)'
  BY <1>0, <1>1, <1>4 DEF UnderWay, Untouched, HalfDeleted, HalfCopied, HasRead, BeforeWrites,
     Creates, Lookups
<1> QED
  BY <1>0, <1>1, <1>5, SeenKept DEF GoesOn

(* StopTask reads the time and goes on to end the running period.          *)
LEMMA StopRowGoesOn ==
    ASSUME OneUser, IInv, SeenInv, UNCHANGED <<seen, ended>>, NEW p \in Proc,
           StopRow(p), pc'[p] # "idle"
    PROVE  GoesOn
<1>0. OneUser /\ IInv /\ clock \in Nat /\ clock <= clock /\ ended <= clock
  BY ClockReads DEF SeenInv
<1>1. ~Return(p, "NOTHING_RUNNING")
  BY <1>0 DEF Return, ReturnShowing, IInv, TypeOK, SessionOK
<1>2. UNCHANGED <<tasks, records>> /\ pc[p] = "stopSelect" /\ ThenHolding(p, "stopEnd")
  BY <1>1 DEF StopRow, HasRow, file
<1>3. tasks = seen.tasks /\ records = seen.records
  BY <1>2 DEF SeenInv, UnderWay, Untouched, BeforeWrites
<1>4. pc'[p] = "stopEnd" /\ now'[p] = clock /\ UNCHANGED <<cmd, reply, clock>>
  BY <1>0, <1>2 DEF ThenHolding, Jump, GetCurrentDatetime, IInv, TypeOK, SessionOK
<1>5. UnderWay(p)'
  BY <1>0, <1>2, <1>3, <1>4
  DEF UnderWay, Untouched, HalfDeleted, HalfStarted, HalfCopied, HasRead, PastOpen
<1> QED
  BY <1>0, <1>4, <1>5, SeenKept DEF GoesOn

(* CopyTask has inserted the new task.                                     *)
LEMMA CopyInsertGoesOn ==
    ASSUME OneUser, AllInv, SeenInv, UNCHANGED <<seen, ended>>, NEW p \in Proc,
           CopyInsert(p), pc'[p] # "idle"
    PROVE  GoesOn
<1>0. OneUser /\ IInv /\ clock \in Nat /\ clock <= clock
  BY ClockReads DEF AllInv
<1>1. ~Return(p, "DATABASE_ERROR")
  BY <1>0 DEF Return, ReturnShowing, IInv, TypeOK, SessionOK
<1>2. PICK id \in RowId :
         /\ FreshRowid(tasks, id)
         /\ tasks' = Insert(tasks, id, [label |-> cmd[p].newLabel,
                                        title |-> cmd[p].title])
         /\ newId' = [newId EXCEPT ![p] = id]
  BY <1>1 DEF CopyInsert
<1>3. /\ pc[p] = "copyInsert" /\ pc'[p] = "copyFetch" /\ newId'[p] = id
      /\ UNCHANGED <<records, cmd, taskId, reply, clock>>
  BY <1>0, <1>1, <1>2 DEF CopyInsert, Commits, Jump, IInv, TypeOK, SessionOK
<1>4. tasks = seen.tasks /\ records = seen.records
  BY <1>3 DEF SeenInv, UnderWay, Untouched, BeforeWrites
<1>5. /\ WithLabel(tasks, cmd[p].newLabel) = {}
      /\ taskId[p] \in WithLabel(tasks, cmd[p].label)
  BY <1>3 DEF AllInv, UserInv, UserOK, Runs, Sees, UsesTaskId
<1>6. id \in RowId \ DOMAIN tasks
  BY <1>2, RowAssumption DEF FreshRowid, RowId
<1>7. HalfCopied(p)'
  BY <1>2, <1>3, <1>4, <1>5, <1>6 DEF HalfCopied
<1>8. UnderWay(p)'
  BY <1>3, <1>7 DEF UnderWay, Untouched, HalfDeleted, HalfStarted, HasRead, BeforeWrites,
     Creates, Lookups, PastOpen
<1> QED
  BY <1>0, <1>3, <1>8, SeenKept DEF GoesOn

(* The loop of CopyTask: a record more of the new task, with an end.       *)
LEMMA CopyLoopGoesOn ==
    ASSUME OneUser, AllInv, SeenInv, UNCHANGED <<seen, ended>>, NEW p \in Proc,
           CopyFetch(p) \/ CopyRecord(p), pc'[p] # "idle"
    PROVE  GoesOn
<1>0. OneUser /\ IInv /\ clock \in Nat /\ clock <= clock
  BY ClockReads DEF AllInv
<1>1. ~Return(p, "OK")
  BY <1>0 DEF Return, ReturnShowing, IInv, TypeOK, SessionOK
<1>2. /\ pc[p] \in {"copyFetch", "copyRecord"} /\ pc'[p] \in {"copyFetch", "copyRecord"}
      /\ UNCHANGED <<tasks, cmd, taskId, newId, reply, clock>>
  BY <1>0, <1>1 DEF CopyFetch, CopyRecord, Commits, InsertRefused, WriteBusy, Jump, file, local,
     IInv, TypeOK, SessionOK
<1>3. HalfCopied(p)
  BY DEF SeenInv, UnderWay
<1>4. ASSUME UNCHANGED records PROVE HalfCopied(p)'
  BY <1>2, <1>3, <1>4 DEF HalfCopied
<1>5. ASSUME records' # records PROVE HalfCopied(p)'
  <2>1. PICK id \in RowId :
           /\ FreshRowid(records, id)
           /\ records' = Insert(records, id,
                  [task  |-> newId[p],
                   begin |-> records[recordId[p]].begin,
                   end   |-> Rebound(records[recordId[p]].end)])
    BY <1>5 DEF CopyFetch, CopyRecord, file
  <2>2. id \notin DOMAIN records
    BY <2>1, RowAssumption DEF FreshRowid, RowId
  <2>3. \A x : Rebound(x) # Null
    BY RowAssumption DEF Rebound
  <2>4. /\ DOMAIN records' = DOMAIN records \cup {id}
        /\ records'[id].task = newId[p] /\ records'[id].end # Null
        /\ \A k \in DOMAIN records : records'[k] = records[k]
    BY <2>1, <2>2, <2>3 DEF Insert
  <2>5. /\ DOMAIN seen.records \subseteq DOMAIN records'
        /\ \A r \in DOMAIN seen.records : records'[r] = seen.records[r]
        /\ \A r \in DOMAIN records' \ DOMAIN seen.records :
              records'[r].task = newId[p] /\ records'[r].end # Null
    BY <1>2, <1>3, <2>4 DEF HalfCopied
  <2> QED
    BY <1>2, <1>3, <2>5 DEF HalfCopied
<1>6. HalfCopied(p)'
  BY <1>4, <1>5
<1>7. UnderWay(p)'
  BY <1>2, <1>6 DEF UnderWay, Untouched, HalfDeleted, HalfStarted, HasRead, BeforeWrites,
     Creates, Lookups, PastOpen
<1> QED
  BY <1>0, <1>2, <1>7, SeenKept DEF GoesOn

(* A step of a method that does not end it goes on.                        *)
LEMMA StepGoesOn ==
    ASSUME OneUser, AllInv, SeenInv, UNCHANGED <<seen, ended>>, NEW p \in Proc,
           Step(p), pc'[p] # "idle"
    PROVE  GoesOn
<1>0. OneUser /\ IInv /\ UserInv
  BY DEF AllInv
<1>1. \A code, shown : ~ReturnShowing(p, code, shown)
  BY <1>0 DEF ReturnShowing, IInv, TypeOK, SessionOK
<1>2. \A code : ~Return(p, code)
  BY <1>1 DEF Return
<1>3. ASSUME NEW op, NEW at \in {"updUpdate", "delTask", "startSelect", "copyInsert"},
             FindTask(p, op, at)
      PROVE  GoesOn
  <2>1. pc[p] \in Lookups /\ UNCHANGED file /\ Proceed(p, at)
    BY <1>2, <1>3 DEF FindTask, LookedUp, Lookups
  <2> QED
    BY <1>0, <2>1, LookedUpGoesOn
<1>4. ASSUME NEW at \in Lookups, NEW op, NEW next \in {"addInsert", "lookup"},
             FindNoTask(p, at, op, next)
      PROVE  GoesOn
  <2>1. pc[p] \in Lookups /\ UNCHANGED file /\ Proceed(p, next)
    BY <1>2, <1>4 DEF FindNoTask, LookedUp
  <2> QED
    BY <1>0, <2>1, LookedUpGoesOn
<1>5. ~PrepareFails(p)
  BY <1>2 DEF PrepareFails
<1>6. /\ ~AddInsert(p) /\ ~UpdUpdate(p) /\ ~DelRecords(p) /\ ~StartInsert(p)
      /\ ~StopEnd(p) /\ ~StatusRow(p)
  BY <1>1, <1>2 DEF AddInsert, UpdUpdate, DelRecords, StartInsert, StopEnd, StatusRow
<1>7. ASSUME AddTask(p) \/ UpdTask(p) \/ DelTask(p) PROVE GoesOn
  BY <1>3, <1>4, <1>6, <1>7, DelTaskRowGoesOn DEF AddTask, UpdTask, DelTask, Lookups
<1>8. ASSUME StartTask(p) \/ StopTask(p) \/ Status(p) PROVE GoesOn
  BY <1>0, <1>3, <1>6, <1>8, FindOpenGoesOn, StartRowGoesOn, StartEndGoesOn, StartPausesGoOn,
     StopRowGoesOn
  DEF StartTask, StopTask, Status
<1>9. ASSUME CopyTask(p) PROVE GoesOn
  BY <1>0, <1>3, <1>4, <1>9, OpeningGoesOn, CopyInsertGoesOn, CopyLoopGoesOn
  DEF CopyTask, Lookups
<1> QED
  BY <1>0, <1>5, <1>7, <1>8, <1>9, OpeningGoesOn DEF Step

(* A process without a command takes no step of a method.                  *)
LEMMA IdleTakesNoStep ==
    ASSUME IInv, NEW p \in Proc, Step(p)
    PROVE  pc[p] # "idle"
<1> SUFFICES ASSUME pc[p] = "idle" PROVE FALSE
  OBVIOUS
<1>1. lock[p] = "none"
  BY DEF IInv, TypeOK, SessionOK
<1>2. ~Reserve(p) /\ ~Pend(p) /\ ~PrepareFails(p) /\ ~CreateCheck(p) /\ ~CreateDone(p)
  BY <1>1 DEF Reserve, Pend, PrepareFails, CreateCheck, CreateDone, Writes, Creates, Selects
<1>3. ~GetTaskId(p) /\ ~CopyOpen(p)
  BY DEF GetTaskId, CopyOpen, OpensSelect, Lookups
<1>4. /\ \A op, at : ~FindTask(p, op, at)
      /\ \A at \in Lookups : \A op, next : ~FindNoTask(p, at, op, next)
  BY DEF FindTask, FindNoTask, LookedUp, Lookups
<1>5. /\ ~AddInsert(p) /\ ~UpdUpdate(p) /\ ~DelTaskRow(p) /\ ~DelRecords(p)
      /\ ~StartEnd(p) /\ ~StartFinish(p) /\ ~StartTime(p) /\ ~StartInsert(p)
      /\ ~StopEnd(p) /\ ~CopyInsert(p) /\ ~CopyRecord(p)
  BY DEF AddInsert, UpdUpdate, DelTaskRow, DelRecords, StartEnd, StartFinish, StartTime,
     StartInsert, StopEnd, CopyInsert, CopyRecord, Commits, InsertRefused, WriteBusy
<1>6. /\ ~StartRow(p) /\ ~StopRow(p) /\ ~StatusRow(p) /\ ~CopyFetch(p)
      /\ \A at \in Selects : ~FindOpen(p, at)
  BY DEF StartRow, StopRow, StatusRow, CopyFetch, FindOpen, OpensSelect, HasRow, NoRow,
     SelectBusy, Selects
<1>7. ~AddTask(p) /\ ~UpdTask(p) /\ ~DelTask(p)
  BY <1>4, <1>5 DEF AddTask, UpdTask, DelTask, Lookups
<1>8. ~StartTask(p) /\ ~StopTask(p) /\ ~Status(p)
  BY <1>4, <1>5, <1>6 DEF StartTask, StopTask, Status, Selects
<1>9. ~CopyTask(p)
  BY <1>3, <1>4, <1>5, <1>6 DEF CopyTask, Lookups
<1> QED
  BY <1>2, <1>3, <1>7, <1>8, <1>9 DEF Step

(* The only process's command is the one that TimeTracker was given.       *)
LEMMA CommandGiven ==
    ASSUME OneUser, IInv, NEW p \in Proc
    PROVE  /\ (CHOOSE q \in Proc : TRUE) = p
           /\ cmd[p].op = "add" => cmd[p] = [op    |-> "add",
                                             label |-> cmd[p].label,
                                             title |-> cmd[p].title]
           /\ cmd[p].op = "upd" => cmd[p] = [op    |-> "upd",
                                             label |-> cmd[p].label,
                                             title |-> cmd[p].title]
           /\ cmd[p].op = "del" => cmd[p] = [op |-> "del", label |-> cmd[p].label]
           /\ cmd[p].op = "start" => cmd[p] = [op |-> "start", label |-> cmd[p].label]
           /\ cmd[p].op = "stop" => cmd[p] = [op |-> "stop"]
           /\ cmd[p].op = "status" => cmd[p] = [op |-> "status"]
           /\ cmd[p].op = "copy" => cmd[p] = [op       |-> "copy",
                                              label    |-> cmd[p].label,
                                              newLabel |-> cmd[p].newLabel,
                                              title    |-> cmd[p].title]
<1>1. (CHOOSE q \in Proc : TRUE) = p
  BY DEF OneUser
<1>2. cmd[p] \in Command \cup {NoCommand}
  BY DEF IInv, TypeOK, SessionOK
<1>3. PICK c : c = cmd[p]
  OBVIOUS
<1>4. \/ c \in [op : {"add", "upd"}, label : Label, title : Title]
      \/ c \in [op : {"del", "start"}, label : Label]
      \/ c \in [op : {"stop", "status"}]
      \/ c \in [op : {"copy"}, label : Label, newLabel : Label, title : Title]
      \/ c = NoCommand
  BY <1>2, <1>3 DEF Command
<1>5. c.op \in {"add", "upd"} => c = [op |-> c.op, label |-> c.label, title |-> c.title]
  BY <1>4 DEF NoCommand
<1>6. c.op \in {"del", "start"} => c = [op |-> c.op, label |-> c.label]
  BY <1>4 DEF NoCommand
<1>7. c.op \in {"stop", "status"} => c = [op |-> c.op]
  BY <1>4 DEF NoCommand
<1>8. c.op = "copy" => c = [op |-> "copy", label |-> c.label, newLabel |-> c.newLabel,
                            title |-> c.title]
  BY <1>4 DEF NoCommand
<1> QED
  BY <1>1, <1>3, <1>5, <1>6, <1>7, <1>8

(* The user sees nothing of the beginning of a command, which gives it.    *)
LEMMA BeginGives ==
    ASSUME OneUser, IInv, UserInv, SeenInv, UNCHANGED <<seen, ended>>, NEW p \in Proc,
           NEW c \in Command, Begin(p, c)
    PROVE  SeenInv' /\ Tracker!Next
<1>1. /\ UNCHANGED <<tasks, records, reply, clock>> /\ pc[p] = "idle"
      /\ pc'[p] = "createTasks" /\ cmd'[p] = c
  BY DEF Begin, file, IInv, TypeOK, SessionOK
<1>2. SeenInv'
  BY <1>1, OnlyRead DEF BeforeWrites, Creates
<1>3. (CHOOSE q \in Proc : TRUE) = p /\ cmd[p] = NoCommand
  BY <1>1, CommandGiven DEF UserInv, UserOK, Runs
<1>4. Tracker!Give(c)
  BY <1>1, <1>3 DEF Tracker!Give, Tracker!NoCommand, NoCommand
<1>5. c \in Tracker!Command
  BY DEF Command, Tracker!Command
<1> QED
  BY <1>2, <1>4, <1>5 DEF Tracker!Next

-----------------------------------------------------------------------------
(* The step that ends a command.                                           *)

\* The user sees the tables as the command has left them.
Shown == seen' = [tasks |-> tasks', records |-> records'] /\ ended' = clock

(* SeenInv holds again: the tables are in order between commands.          *)
LEMMA ShownSeen ==
    ASSUME OneUser, IInv, AllInv', NEW p \in Proc, pc'[p] = "idle", UNCHANGED clock, Shown
    PROVE  SeenInv'
<1>1. seen'.tasks = tasks' /\ seen'.records = records' /\ ended' = clock'
  BY DEF Shown
<1>2. TasksOK(tasks')
  BY DEF TasksOK, AllInv, IInv, TypeOK, FileOK, UserInv, UniqueLabels
<1>3. RecordsOK(tasks', records')
  BY DEF RecordsOK, OneUser, AllInv, IInv, TypeOK, FileOK, OneInv, OneOpenRecord, RecordInv,
     RecordsHaveTasks, InOrder
<1>4. UnderWay(p)'
  BY <1>1 DEF UnderWay, Untouched, HalfDeleted, HalfStarted, HalfCopied, HasRead, PastOpen
<1>5. clock' \in Nat
  BY ClockReads
<1>6. ended' \in 0..clock'
  BY <1>1, <1>5
<1>7. TablesOK(seen'.tasks, seen'.records)
  BY <1>1, <1>2, <1>3 DEF TablesOK
<1> QED
  BY <1>4, <1>6, <1>7 DEF SeenInv, OneUser

(* The user gets the answer of the only process.                           *)
LEMMA Answers ==
    ASSUME OneUser, IInv, NEW p \in Proc, NEW code, NEW shown, ReturnShowing(p, code, shown),
           Shown
    PROVE  Tracker!Answer(code, shown)
<1>1. (CHOOSE q \in Proc : TRUE) = p
  BY DEF OneUser
<1>2. /\ reply'[p] = [code |-> code, shown |-> shown] /\ cmd'[p] = NoCommand
      /\ UNCHANGED clock
  BY DEF ReturnShowing, IInv, TypeOK, SessionOK
<1> QED
  BY <1>1, <1>2 DEF Tracker!Answer, Tracker!NoCommand, NoCommand, Shown

(* A command that has written nothing leaves all that the user sees.       *)
LEMMA Refuses ==
    ASSUME OneUser, IInv, NEW p \in Proc, NEW code, Return(p, code), Shown,
           seen.tasks = tasks, seen.records = records, UNCHANGED <<tasks, records>>
    PROVE  Tracker!Refuse(code)
<1>1. Tracker!Answer(code, {})
  BY Answers DEF Return
<1>2. seen'.tasks = seen.tasks /\ seen'.records = seen.records
  BY DEF Shown
<1> QED
  BY <1>1, <1>2 DEF Tracker!Refuse

(* A command's label and title are among those that users type.            *)
LEMMA CommandTyped ==
    ASSUME IInv, NEW p \in Proc
    PROVE  /\ cmd[p].op \in {"add", "upd"} => cmd[p].label \in Label /\ cmd[p].title \in Title
           /\ cmd[p].op \in {"del", "start"} => cmd[p].label \in Label
           /\ cmd[p].op = "copy" => /\ cmd[p].label \in Label /\ cmd[p].newLabel \in Label
                                    /\ cmd[p].title \in Title
<1>1. cmd[p] \in Command \cup {NoCommand}
  BY DEF IInv, TypeOK, SessionOK
<1> QED
  BY <1>1 DEF Command, NoCommand

(* The commands of TimeTracker are steps of it.                            *)
LEMMA TrackerSteps ==
    ASSUME NEW l \in Label
    PROVE  /\ \A t \in Title : Tracker!AddTask(l, t) \/ Tracker!UpdTask(l, t) => Tracker!Next
           /\ Tracker!DelTask(l) \/ Tracker!StartTask(l) => Tracker!Next
           /\ \A new \in Label, t \in Title : Tracker!CopyTask(l, new, t) => Tracker!Next
  BY DEF Tracker!Next

(* GetTaskId finds the label exactly if the user sees it.                  *)
LEMMA FoundIsSeen ==
    ASSUME NEW T, TasksOK(T), NEW l, NEW k, IsFirst(WithLabel(T, l), k)
    PROVE  /\ k # 0 <=> l \in DOMAIN Titles(T)
           /\ k # 0 => k \in DOMAIN T /\ T[k].label = l
<1>1. 0 \notin DOMAIN T
  BY RowAssumption DEF TasksOK, RowId
<1>2. DOMAIN Titles(T) = LabelsOf(T)
  BY DEF Titles
<1> QED
  BY <1>1, <1>2 DEF IsFirst, WithLabel, LabelsOf

(* Every refusal for a label is TimeTracker's.                             *)
LEMMA LookupAnswers ==
    ASSUME OneUser, AllInv, SeenInv, Shown, NEW p \in Proc, pc'[p] = "idle",
           \/ \E op \in {"upd", "del", "start", "copy"}, at \in Writes \cup Selects :
                 FindTask(p, op, at)
           \/ FindNoTask(p, "lookup", "add", "addInsert")
           \/ FindNoTask(p, "lookupNew", "copy", "lookup")
    PROVE  Tracker!Next
<1>0. IInv /\ UserInv
  BY DEF AllInv
<1>1. pc[p] \in Lookups /\ UNCHANGED <<tasks, records>>
  BY DEF FindTask, FindNoTask, LookedUp, Lookups, file
<1>2. seen.tasks = tasks /\ seen.records = records /\ TasksOK(tasks)
  BY <1>1 DEF SeenInv, UnderWay, Untouched, BeforeWrites, TablesOK
<1>3. ASSUME NEW at, at # "idle", Proceed(p, at) PROVE FALSE
  BY <1>0, <1>3 DEF Proceed, Jump, IInv, TypeOK, SessionOK
<1>4. \A code : Return(p, code) => Tracker!Refuse(code)
  BY <1>0, <1>1, <1>2, Refuses
<1>5. DOMAIN Titles(seen.tasks) = DOMAIN Titles(tasks)
  BY <1>2
<1>6. ASSUME NEW op \in {"upd", "del", "start", "copy"}, NEW at \in Writes \cup Selects,
             FindTask(p, op, at)
      PROVE  Tracker!Next
  <2>1. LookedUp(p, "lookup", op) /\ taskId[p] = 0 /\ Return(p, "TASK_NOT_FOUND")
    BY <1>3, <1>6 DEF FindTask, Writes, Selects
  <2>2. cmd[p].op = op /\ pc[p] = "lookup" /\ IsFirst(WithLabel(tasks, cmd[p].label), taskId[p])
    BY <1>0, <2>1, FoundByLabel DEF Lookups
  <2>3. ~Tracker!Exists(cmd[p].label)
    BY <1>2, <1>5, <2>1, <2>2, FoundIsSeen DEF Tracker!Exists
  <2>4. Tracker!Refuse("TASK_NOT_FOUND")
    BY <1>4, <2>1
  <2>5. CASE op \in {"upd", "del", "start"}
    <3>1. cmd[p].label \in Label /\ (op = "upd" => cmd[p].title \in Title)
      BY <1>0, <2>2, <2>5, CommandTyped
    <3>2. CASE op = "upd"
      <4>1. Tracker!UpdTask(cmd[p].label, cmd[p].title)
        BY <1>0, <2>2, <2>3, <2>4, <3>2, CommandGiven DEF Tracker!UpdTask
      <4> QED
        BY <3>1, <3>2, <4>1, TrackerSteps
    <3>3. CASE op = "del"
      <4>1. Tracker!DelTask(cmd[p].label)
        BY <1>0, <2>2, <2>3, <2>4, <3>3, CommandGiven DEF Tracker!DelTask
      <4> QED
        BY <3>1, <4>1, TrackerSteps
    <3>4. CASE op = "start"
      <4>1. Tracker!StartTask(cmd[p].label)
        BY <1>0, <2>2, <2>3, <2>4, <3>4, CommandGiven DEF Tracker!StartTask
      <4> QED
        BY <3>1, <4>1, TrackerSteps
    <3> QED
      BY <2>5, <3>2, <3>3, <3>4
  <2>6. CASE op = "copy"
    <3>1. WithLabel(tasks, cmd[p].newLabel) = {}
      BY <1>0, <2>2, <2>6 DEF UserInv, UserOK, Sees
    <3>2. ~Tracker!Exists(cmd[p].newLabel)
      BY <1>2, <1>5, <3>1, KnownLabel DEF Tracker!Exists, Titles
    <3>3. Tracker!CopyTask(cmd[p].label, cmd[p].newLabel, cmd[p].title)
      BY <1>0, <2>2, <2>3, <2>4, <2>6, <3>2, CommandGiven DEF Tracker!CopyTask
    <3> QED
      BY <1>0, <2>2, <2>6, <3>3, CommandTyped, TrackerSteps
  <2> QED
    BY <2>5, <2>6
<1>7. ASSUME FindNoTask(p, "lookup", "add", "addInsert") PROVE Tracker!Next
  <2>1. LookedUp(p, "lookup", "add") /\ taskId[p] # 0 /\ Return(p, "TASK_ALREADY_EXISTS")
    BY <1>3, <1>7 DEF FindNoTask
  <2>2. cmd[p].op = "add" /\ IsFirst(WithLabel(tasks, cmd[p].label), taskId[p])
    BY <1>0, <2>1, FoundByLabel DEF Lookups
  <2>3. Tracker!Exists(cmd[p].label)
    BY <1>2, <1>5, <2>1, <2>2, FoundIsSeen DEF Tracker!Exists
  <2>4. Tracker!AddTask(cmd[p].label, cmd[p].title)
    BY <1>0, <1>4, <2>1, <2>2, <2>3, CommandGiven DEF Tracker!AddTask
  <2> QED
    BY <1>0, <2>2, <2>4, CommandTyped, TrackerSteps
<1>8. ASSUME FindNoTask(p, "lookupNew", "copy", "lookup") PROVE Tracker!Next
  <2>1. LookedUp(p, "lookupNew", "copy") /\ taskId[p] # 0 /\ Return(p, "TASK_ALREADY_EXISTS")
    BY <1>3, <1>8 DEF FindNoTask
  <2>2. cmd[p].op = "copy" /\ IsFirst(WithLabel(tasks, cmd[p].newLabel), taskId[p])
    BY <1>0, <2>1, FoundByLabel DEF Lookups
  <2>3. Tracker!Exists(cmd[p].newLabel)
    BY <1>2, <1>5, <2>1, <2>2, FoundIsSeen DEF Tracker!Exists
  <2>4. Tracker!CopyTask(cmd[p].label, cmd[p].newLabel, cmd[p].title)
    BY <1>0, <1>4, <2>1, <2>2, <2>3, CommandGiven DEF Tracker!CopyTask
  <2> QED
    BY <1>0, <2>2, <2>4, CommandTyped, TrackerSteps
<1> QED
  BY <1>6, <1>7, <1>8

(* A task without rows has an empty log.                                   *)
LEMMA NoPeriods ==
    ASSUME NEW R
    PROVE  PeriodsAt(R, {}) = <<>>
<1>1. Cardinality({}) = 0
  BY FS_EmptySet
<1>2. 1..0 = {}
  OBVIOUS
<1>3. PeriodsAt(R, {}) = [i \in {} |-> PeriodOf(R[Nth({}, i)])]
  BY <1>1, <1>2 DEF PeriodsAt
<1> QED
  BY <1>3

(* AddTask adds a task that nobody has worked on.                          *)
LEMMA AddInsertAnswers ==
    ASSUME OneUser, AllInv, SeenInv, HasRoom, Shown, NEW p \in Proc, AddInsert(p)
    PROVE  Tracker!Next
<1>0. IInv /\ UserInv
  BY DEF AllInv
<1>1. ~InsertRefused(p, "addInsert", tasks)
  BY NeverBusy DEF InsertRefused, HasRoom
<1>2. pc[p] = "addInsert" /\ UNCHANGED records /\ Return(p, "OK")
  BY <1>1 DEF AddInsert, Commits
<1>3. /\ seen.tasks = tasks /\ seen.records = records /\ TablesOK(tasks, records)
      /\ seen'.tasks = tasks' /\ seen'.records = records
  BY <1>2 DEF SeenInv, UnderWay, Untouched, BeforeWrites, Shown
<1>4. cmd[p].op = "add" /\ WithLabel(tasks, cmd[p].label) = {}
  BY <1>0, <1>2 DEF UserInv, UserOK, Runs, Sees
<1>5. cmd[p].label \in Label /\ cmd[p].title \in Title
  BY <1>0, <1>4, CommandTyped
<1> DEFINE row == [label |-> cmd[p].label, title |-> cmd[p].title]
<1>6. PICK id \in RowId : FreshRowid(tasks, id) /\ tasks' = Insert(tasks, id, row)
  BY <1>1 DEF AddInsert
<1>7. /\ row \in TaskRow /\ row.label = cmd[p].label /\ row.title = cmd[p].title
      /\ id \notin DOMAIN tasks
  BY <1>5, <1>6, RowAssumption DEF TaskRow, FreshRowid, RowId
<1> HIDE DEF row
<1>8. /\ Titles(tasks') = Tracker!With(Titles(tasks), row.label, row.title)
      /\ Logs(tasks', records)
            = Tracker!With(Logs(tasks, records), row.label,
                           PeriodsAt(records, EndedIds(records, id)))
      /\ Running(tasks', records) = Running(tasks, records)
  BY <1>3, <1>4, <1>6, <1>7, TaskInserted
<1>9. EndedIds(records, id) = {}
  BY <1>3, <1>7 DEF EndedIds, RecordsOf, TablesOK, RecordsOK
<1>10. ~Tracker!Exists(cmd[p].label)
  BY <1>3, <1>4, KnownLabel DEF Tracker!Exists, Titles, TablesOK
<1>11. Tracker!Answer("OK", {})
  BY <1>0, <1>2, Answers DEF Return
<1>12. Tracker!AddTask(cmd[p].label, cmd[p].title)
  BY <1>0, <1>3, <1>4, <1>7, <1>8, <1>9, <1>10, <1>11, NoPeriods, CommandGiven
  DEF Tracker!AddTask
<1> QED
  BY <1>5, <1>12, TrackerSteps

(* UpdTask gives the task another title.                                   *)
LEMMA UpdUpdateAnswers ==
    ASSUME OneUser, AllInv, SeenInv, Shown, NEW p \in Proc, UpdUpdate(p)
    PROVE  Tracker!Next
<1>0. IInv /\ UserInv
  BY DEF AllInv
<1>1. /\ pc[p] = "updUpdate" /\ UNCHANGED records /\ Return(p, "OK")
      /\ tasks' = Retitle(tasks, taskId[p], cmd[p].title)
  BY NeverBusy DEF UpdUpdate, Commits
<1>2. /\ seen.tasks = tasks /\ seen.records = records /\ TablesOK(tasks, records)
      /\ seen'.tasks = tasks' /\ seen'.records = records
  BY <1>1 DEF SeenInv, UnderWay, Untouched, BeforeWrites, Shown
<1>3. cmd[p].op = "upd" /\ taskId[p] \in WithLabel(tasks, cmd[p].label)
  BY <1>0, <1>1 DEF UserInv, UserOK, Runs, Sees, UsesTaskId
<1>4. taskId[p] \in DOMAIN tasks /\ tasks[taskId[p]].label = cmd[p].label
  BY <1>3 DEF WithLabel
<1>5. cmd[p].label \in Label /\ cmd[p].title \in Title
  BY <1>0, <1>3, CommandTyped
<1>6. /\ Titles(tasks') = Tracker!With(Titles(tasks), cmd[p].label, cmd[p].title)
      /\ Logs(tasks', records) = Logs(tasks, records)
      /\ Running(tasks', records) = Running(tasks, records)
  BY <1>1, <1>2, <1>4, <1>5, TaskRetitled
<1>7. Tracker!Exists(cmd[p].label)
  BY <1>2, <1>3, KnownLabel DEF Tracker!Exists, Titles, TablesOK
<1>8. Tracker!Answer("OK", {})
  BY <1>0, <1>1, Answers DEF Return
<1>9. Tracker!UpdTask(cmd[p].label, cmd[p].title)
  BY <1>0, <1>2, <1>3, <1>6, <1>7, <1>8, CommandGiven DEF Tracker!UpdTask
<1> QED
  BY <1>5, <1>9, TrackerSteps

(* DelTask deletes the task with all its periods, the running one as well. *)
LEMMA DelRecordsAnswers ==
    ASSUME OneUser, AllInv, SeenInv, Shown, NEW p \in Proc, DelRecords(p)
    PROVE  Tracker!Next
<1>0. IInv /\ UserInv
  BY DEF AllInv
<1>1. /\ pc[p] = "delRecords" /\ UNCHANGED tasks /\ Return(p, "OK")
      /\ records' = Delete(records, RecordsOf(records, taskId[p]))
  BY NeverBusy DEF DelRecords, Commits
<1>2. PICK T, R, k : T = seen.tasks /\ R = seen.records /\ k = taskId[p]
  OBVIOUS
<1>3. /\ k \in WithLabel(T, cmd[p].label) /\ TablesOK(T, R)
      /\ tasks = Delete(T, {k}) /\ records = R
  BY <1>1, <1>2 DEF SeenInv, UnderWay, HalfDeleted
<1>4. k \in DOMAIN T /\ T[k].label = cmd[p].label
  BY <1>3 DEF WithLabel
<1>5. /\ seen'.tasks = Delete(T, {k})
      /\ seen'.records = Delete(R, RecordsOf(R, k))
  BY <1>1, <1>2, <1>3 DEF Shown
<1>6. cmd[p].op = "del" /\ cmd[p].label \in Label
  BY <1>0, <1>1, CommandTyped DEF UserInv, UserOK, Runs
<1>7. /\ Titles(seen'.tasks) = Tracker!Without(Titles(T), cmd[p].label)
      /\ Logs(seen'.tasks, seen'.records) = Tracker!Without(Logs(T, R), cmd[p].label)
      /\ Running(seen'.tasks, seen'.records)
            = IF Running(T, R) # Null /\ Running(T, R).label = cmd[p].label
              THEN Null ELSE Running(T, R)
  BY <1>3, <1>4, <1>5, TaskDeleted
<1>8. Tracker!Exists(cmd[p].label)
  BY <1>2, <1>3, KnownLabel DEF Tracker!Exists, Titles, TablesOK
<1>9. Tracker!Answer("OK", {})
  BY <1>0, <1>1, Answers DEF Return
<1>10. Tracker!DelTask(cmd[p].label)
  BY <1>0, <1>2, <1>6, <1>7, <1>8, <1>9, CommandGiven DEF Tracker!DelTask, Tracker!WorkingOn
<1> QED
  BY <1>6, <1>10, TrackerSteps

(* The open row that a SELECT has found is what the user sees as running.  *)
LEMMA RowIsRunning ==
    ASSUME OneUser, AllInv, SeenInv, NEW p \in Proc, seen.tasks = tasks,
           seen.records = records, NEW o \in OpenRecords(records)
    PROVE  /\ TablesOK(tasks, records) /\ o \in DOMAIN records
           /\ records[o].task \in DOMAIN tasks
           /\ Running(tasks, records) # Null
           /\ Running(tasks, records) = [label |-> tasks[records[o].task].label,
                                         begin |-> records[o].begin]
<1>1. TablesOK(tasks, records)
  BY DEF SeenInv
<1> QED
  BY <1>1, RunningIs

(* StartTask refuses the task that is running.                             *)
LEMMA StartRowAnswers ==
    ASSUME OneUser, AllInv, SeenInv, Shown, NEW p \in Proc, StartRow(p), pc'[p] = "idle"
    PROVE  Tracker!Next
<1>0. IInv /\ UserInv
  BY DEF AllInv
<1>1. ~ThenHolding(p, "startEnd") /\ ~Proceed(p, "startTime")
  BY <1>0 DEF ThenHolding, Proceed, Jump, IInv, TypeOK, SessionOK
<1>2. /\ HasRow(p, "startSelect") /\ records[recordId[p]].task = taskId[p]
      /\ Return(p, "ALREADY_RUNNING") /\ UNCHANGED <<tasks, records>>
  BY <1>1 DEF StartRow, file
<1>3. pc[p] = "startSelect" /\ recordId[p] \in OpenRecords(records)
  BY <1>0, <1>2 DEF HasRow, IInv, ProcOK, HoldsRow
<1>4. seen.tasks = tasks /\ seen.records = records
  BY <1>3 DEF SeenInv, UnderWay, Untouched, BeforeWrites
<1>5. cmd[p].op = "start" /\ tasks[taskId[p]].label = cmd[p].label
  BY <1>0, <1>3 DEF UserInv, UserOK, Runs, Sees, UsesTaskId, WithLabel
<1>6. Running(tasks, records) # Null /\ Running(tasks, records).label = cmd[p].label
  BY <1>2, <1>3, <1>4, <1>5, RowIsRunning
<1>7. Tracker!Refuse("ALREADY_RUNNING")
  BY <1>0, <1>2, <1>4, Refuses
<1>8. Tracker!StartTask(cmd[p].label)
  BY <1>0, <1>4, <1>5, <1>6, <1>7, CommandGiven DEF Tracker!StartTask, Tracker!WorkingOn
<1> QED
  BY <1>0, <1>5, <1>8, CommandTyped, TrackerSteps

(* StartTask has ended the running period, if there was one, and begins    *)
(* another, later.                                                         *)
LEMMA StartInsertAnswers ==
    ASSUME OneUser, AllInv, SeenInv, HasRoom, Shown, NEW p \in Proc, StartInsert(p)
    PROVE  Tracker!Next
<1>0. /\ IInv /\ UserInv /\ clock \in Nat /\ ended \in Nat
      /\ now[p] \in Nat /\ now[p] <= clock
  BY ClockReads DEF AllInv, SeenInv
<1>1. ~InsertRefused(p, "startInsert", records)
  BY NeverBusy DEF InsertRefused, HasRoom
<1>2. pc[p] = "startInsert" /\ UNCHANGED tasks /\ Return(p, "OK")
  BY <1>1 DEF StartInsert, Commits
<1>3. PICK id \in RowId :
         /\ FreshRowid(records, id)
         /\ records' = Insert(records, id, [task  |-> taskId[p],
                                            begin |-> now[p],
                                            end   |-> Null])
  BY <1>1 DEF StartInsert
<1>4. id \notin DOMAIN records
  BY <1>3, RowAssumption DEF FreshRowid, RowId
<1>5. PICK T, R, k, b : T = seen.tasks /\ R = seen.records /\ k = taskId[p] /\ b = now[p]
  OBVIOUS
<1>6. /\ ended <= b /\ tasks = T /\ TablesOK(T, R)
      /\ \/ records = R /\ OpenRecords(R) = {}
         \/ \E o \in OpenRecords(R) : \E e \in ended..b :
               R[o].task # k /\ records = CloseRecord(R, o, e)
  BY <1>2, <1>5 DEF SeenInv, UnderWay, HalfStarted, HasRead, PastOpen
<1>7. cmd[p].op = "start" /\ k \in DOMAIN T /\ T[k].label = cmd[p].label
  BY <1>0, <1>2, <1>5, <1>6 DEF UserInv, UserOK, Runs, Sees, UsesTaskId, WithLabel
<1>8. /\ DOMAIN records \subseteq RowId /\ OpenRecords(records) = {} /\ TasksOK(T)
  BY <1>0, <1>2, <1>6 DEF IInv, TypeOK, FileOK, AllInv, OneInv, SawNothingOpen, NothingOpen,
     TablesOK, PastOpen
<1>9. /\ Logs(T, records') = Logs(T, records)
      /\ Running(T, records') = [label |-> cmd[p].label, begin |-> b]
  BY <1>3, <1>4, <1>5, <1>7, <1>8, PeriodBegun
<1>10. seen'.tasks = T /\ seen'.records = records'
  BY <1>2, <1>6 DEF Shown
<1>11. Tracker!Exists(cmd[p].label)
  BY <1>5, <1>7, <1>8, TaskOfLabel DEF Tracker!Exists, Titles
<1>12. Tracker!Answer("OK", {})
  BY <1>0, <1>2, Answers DEF Return
<1>13. b \in ended..clock /\ b \in b..clock
  BY <1>0, <1>5, <1>6
<1>14. CASE records = R /\ OpenRecords(R) = {}
  <2>1. Running(T, R) = Null
    BY <1>6, <1>14, RunningIs
  <2>2. ~Tracker!WorkingOn(cmd[p].label) /\ Tracker!LogEndedAt(b) = Logs(T, R)
    BY <1>5, <2>1 DEF Tracker!WorkingOn, Tracker!LogEndedAt
  <2>3. Tracker!StartTask(cmd[p].label)
    BY <1>0, <1>5, <1>7, <1>9, <1>10, <1>11, <1>12, <1>13, <1>14, <2>2, CommandGiven
    DEF Tracker!StartTask
  <2> QED
    BY <1>0, <1>7, <2>3, CommandTyped, TrackerSteps
<1>15. CASE \E o \in OpenRecords(R) : \E e \in ended..b :
               R[o].task # k /\ records = CloseRecord(R, o, e)
  <2>1. PICK o \in OpenRecords(R) : \E e \in ended..b :
               R[o].task # k /\ records = CloseRecord(R, o, e)
    BY <1>15
  <2>2. PICK e \in ended..b : R[o].task # k /\ records = CloseRecord(R, o, e)
    BY <2>1
  <2>3. e # Null /\ e \in ended..clock /\ b \in e..clock
    BY <1>0, <1>5, <2>2, RowAssumption
  <2>4. /\ Running(T, R) # Null
        /\ Running(T, R).label = T[R[o].task].label /\ R[o].task \in DOMAIN T
    BY <1>6, <2>1, RunningIs
  <2>5. Running(T, R).label # cmd[p].label
    BY <1>7, <1>8, <2>2, <2>4 DEF TasksOK
  <2>6. Logs(T, records)
           = [Logs(T, R) EXCEPT ![Running(T, R).label] =
                 Append(Logs(T, R)[Running(T, R).label],
                        [begin |-> Running(T, R).begin, end |-> e])]
    BY <1>6, <2>1, <2>2, <2>3, PeriodEnded
  <2>7. ~Tracker!WorkingOn(cmd[p].label) /\ Tracker!LogEndedAt(e) = Logs(T, records)
    BY <1>5, <2>4, <2>5, <2>6 DEF Tracker!WorkingOn, Tracker!LogEndedAt
  <2>8. Tracker!StartTask(cmd[p].label)
    BY <1>0, <1>5, <1>7, <1>9, <1>10, <1>11, <1>12, <2>3, <2>7, CommandGiven
    DEF Tracker!StartTask
  <2> QED
    BY <1>0, <1>7, <2>8, CommandTyped, TrackerSteps
<1> QED
  BY <1>6, <1>14, <1>15

(* StopTask says that nothing is running, or ends what is.                 *)
LEMMA StopAnswers ==
    ASSUME OneUser, AllInv, SeenInv, Shown, NEW p \in Proc, StopRow(p) \/ StopEnd(p),
           pc'[p] = "idle"
    PROVE  Tracker!Next
<1>0. /\ IInv /\ UserInv /\ clock \in Nat /\ ended \in Nat
      /\ now[p] \in Nat /\ now[p] <= clock
  BY ClockReads DEF AllInv, SeenInv
<1>1. pc[p] \in {"stopSelect", "stopEnd"} /\ UNCHANGED tasks
  BY DEF StopRow, StopEnd, HasRow, NoRow, SelectBusy, Commits, WriteBusy, file
<1>2. /\ seen.tasks = tasks /\ seen.records = records /\ TablesOK(tasks, records)
      /\ HasRead(p) /\ cmd[CHOOSE q \in Proc : TRUE] = [op |-> "stop"]
  <2>1. cmd[p].op = "stop"
    BY <1>0, <1>1 DEF UserInv, UserOK, Runs
  <2> QED
    BY <1>0, <1>1, <2>1, CommandGiven DEF SeenInv, UnderWay, Untouched, BeforeWrites
<1>3. CASE StopRow(p)
  <2>1. ~ThenHolding(p, "stopEnd")
    BY <1>0 DEF ThenHolding, Jump, IInv, TypeOK, SessionOK
  <2>2. /\ NoRow(p, "stopSelect") /\ Return(p, "NOTHING_RUNNING") /\ UNCHANGED records
    BY <1>3, <2>1 DEF StopRow, file
  <2>3. OpenRecords(records) = {}
    BY <1>2, <2>2, NeverBusy DEF NoRow, HasRead
  <2>4. Running(tasks, records) = Null
    BY <1>2, <2>3, RunningIs
  <2>5. Tracker!Refuse("NOTHING_RUNNING")
    BY <1>0, <1>1, <1>2, <2>2, Refuses
  <2> QED
    BY <1>2, <2>4, <2>5 DEF Tracker!StopTask, Tracker!Next
<1>4. CASE StopEnd(p)
  <2>1. /\ pc[p] = "stopEnd" /\ Return(p, "OK")
        /\ records' = CloseRecord(records, recordId[p], now[p])
    BY <1>4, NeverBusy DEF StopEnd, Commits
  <2>2. PICK o, e : o = recordId[p] /\ e = now[p]
    OBVIOUS
  <2>3. o \in OpenRecords(records) /\ e # Null /\ e \in ended..clock
    BY <1>0, <1>2, <2>1, <2>2, RowAssumption DEF IInv, ProcOK, HoldsRow, HasRead
  <2>4. Running(tasks, records) # Null /\ records' = CloseRecord(records, o, e)
    BY <1>2, <2>1, <2>2, <2>3, RunningIs
  <2>5. /\ Logs(tasks, records')
              = [Logs(tasks, records) EXCEPT ![Running(tasks, records).label] =
                    Append(Logs(tasks, records)[Running(tasks, records).label],
                           [begin |-> Running(tasks, records).begin, end |-> e])]
        /\ Running(tasks, records') = Null
    BY <1>2, <2>3, <2>4, PeriodEnded
  <2>6. seen'.tasks = tasks /\ seen'.records = records'
    BY <1>1 DEF Shown
  <2>7. Tracker!LogEndedAt(e) = Logs(tasks, records')
    BY <1>2, <2>4, <2>5 DEF Tracker!LogEndedAt
  <2>8. Tracker!Answer("OK", {})
    BY <1>0, <2>1, Answers DEF Return
  <2>9. Tracker!StopTask
    BY <1>2, <2>3, <2>4, <2>5, <2>6, <2>7, <2>8 DEF Tracker!StopTask
  <2> QED
    BY <2>9 DEF Tracker!Next
<1> QED
  BY <1>3, <1>4

(* Status tells which task is running and since when, or that none is.     *)
LEMMA StatusAnswers ==
    ASSUME OneUser, AllInv, SeenInv, Shown, NEW p \in Proc, StatusRow(p)
    PROVE  Tracker!Next
<1>0. IInv /\ UserInv
  BY DEF AllInv
<1>1. pc[p] = "statusSelect" /\ UNCHANGED <<tasks, records>>
  BY DEF StatusRow, HasRow, NoRow, SelectBusy, file
<1>2. /\ seen.tasks = tasks /\ seen.records = records /\ TablesOK(tasks, records)
      /\ seen'.tasks = tasks /\ seen'.records = records
      /\ cmd[CHOOSE q \in Proc : TRUE] = [op |-> "status"]
  <2>1. cmd[p].op = "status"
    BY <1>0, <1>1 DEF UserInv, UserOK, Runs
  <2> QED
    BY <1>0, <1>1, <2>1, CommandGiven DEF SeenInv, UnderWay, Untouched, BeforeWrites, Shown
<1>3. CASE NoRow(p, "statusSelect")
  <2>1. OpenRecords(records) = {}
    BY <1>3, NeverBusy DEF NoRow, AllInv, RecordInv, LocalOK, SawFree
  <2>2. Running(tasks, records) = Null
    BY <1>2, <2>1, RunningIs
  <2>3. Return(p, "NOTHING_RUNNING")
    BY <1>3 DEF StatusRow, HasRow, NoRow, SelectBusy
  <2>4. Tracker!Answer("NOTHING_RUNNING", {})
    BY <1>0, <2>3, Answers DEF Return
  <2> QED
    BY <1>2, <2>2, <2>4 DEF Tracker!Status, Tracker!Next
<1>4. CASE ~NoRow(p, "statusSelect")
  <2>1. HasRow(p, "statusSelect")
    BY <1>4 DEF StatusRow
  <2>2. recordId[p] \in OpenRecords(records)
    BY <1>0, <2>1 DEF HasRow, IInv, ProcOK, HoldsRow
  <2>3. PICK o, k : o = recordId[p] /\ k = records[o].task
    OBVIOUS
  <2>4. /\ k \in DOMAIN tasks /\ Running(tasks, records) # Null
        /\ Running(tasks, records) = [label |-> tasks[k].label, begin |-> records[o].begin]
    BY <1>2, <2>2, <2>3, RowIsRunning
  <2>5. ReturnShowing(p, "ALREADY_RUNNING", {[label |-> tasks[k].label,
                                              title |-> tasks[k].title,
                                              begin |-> records[o].begin]})
    BY <1>4, <2>3, <2>4 DEF StatusRow
  <2>6. Titles(tasks)[tasks[k].label] = tasks[k].title
    BY <1>2, <2>4, TaskOfLabel DEF Titles, TablesOK
  <2>7. Tracker!Answer("ALREADY_RUNNING", {[label |-> tasks[k].label,
                                            title |-> tasks[k].title,
                                            begin |-> records[o].begin]})
    BY <1>0, <2>5, Answers
  <2>8. Tracker!Status
    BY <1>2, <2>4, <2>6, <2>7 DEF Tracker!Status
  <2> QED
    BY <2>8 DEF Tracker!Next
<1> QED
  BY <1>3, <1>4

(* Time does not pass in a step of the program.                            *)
LEMMA ClockStands ==
    ASSUME NEW p \in Proc, Step(p)
    PROVE  UNCHANGED clock
<1>1. \A code, shown : ReturnShowing(p, code, shown) => UNCHANGED clock
  BY DEF ReturnShowing
<1>2. \A code : Return(p, code) => UNCHANGED clock
  BY DEF Return, ReturnShowing
<1>3. \A at : Jump(p, at) \/ Proceed(p, at) \/ ThenHolding(p, at) => UNCHANGED clock
  BY DEF Jump, Proceed, ThenHolding
<1>4. /\ \A op, at : FindTask(p, op, at) => UNCHANGED clock
      /\ \A at, op, next : FindNoTask(p, at, op, next) => UNCHANGED clock
      /\ \A at : FindOpen(p, at) => UNCHANGED clock
  BY <1>2, <1>3 DEF FindTask, FindNoTask, FindOpen
<1>5. Reserve(p) \/ Pend(p) \/ PrepareFails(p) \/ CreateCheck(p) \/ CreateDone(p)
         \/ GetTaskId(p) => UNCHANGED clock
  BY <1>2, <1>3 DEF Reserve, Pend, PrepareFails, CreateCheck, CreateDone, GetTaskId
<1>6. AddTask(p) \/ UpdTask(p) \/ DelTask(p) => UNCHANGED clock
  BY <1>2, <1>3, <1>4 DEF AddTask, AddInsert, UpdTask, UpdUpdate, DelTask, DelTaskRow, DelRecords
<1>7. StartTask(p) => UNCHANGED clock
  BY <1>2, <1>3, <1>4
  DEF StartTask, StartRow, StartEnd, StartFinish, StartTime, StartInsert
<1>8. StopTask(p) \/ Status(p) => UNCHANGED clock
  BY <1>1, <1>2, <1>3, <1>4 DEF StopTask, StopRow, StopEnd, Status, StatusRow
<1>9. CopyTask(p) => UNCHANGED clock
  BY <1>2, <1>3, <1>4 DEF CopyTask, CopyInsert, CopyOpen, CopyFetch, CopyRecord
<1> QED
  BY <1>5, <1>6, <1>7, <1>8, <1>9 DEF Step

(* CopyTask has given the new task the log of the original, with the       *)
(* running period, if it is the original's, as one with a blank end.       *)
LEMMA CopyFetchAnswers ==
    ASSUME OneUser, AllInv, SeenInv, HasRoom, Shown, NEW p \in Proc, CopyFetch(p),
           pc'[p] = "idle"
    PROVE  Tracker!Next
<1>0. IInv /\ UserInv
  BY DEF AllInv
<1>1. ~Jump(p, "copyRecord")
  BY <1>0 DEF Jump, IInv, TypeOK, SessionOK
<1>2. pc[p] = "copyFetch" /\ Return(p, "OK") /\ UNCHANGED <<tasks, records>>
  BY <1>1 DEF CopyFetch, SelectBusy, file
<1>3. PICK T, R, k, id : T = seen.tasks /\ R = seen.records /\ k = taskId[p] /\ id = newId[p]
  OBVIOUS
<1> DEFINE row == [label |-> cmd[p].newLabel, title |-> cmd[p].title]
<1>4. /\ TablesOK(T, R) /\ id \in RowId \ DOMAIN T /\ WithLabel(T, cmd[p].newLabel) = {}
      /\ k \in WithLabel(T, cmd[p].label) /\ tasks = Insert(T, id, row)
      /\ DOMAIN R \subseteq DOMAIN records /\ \A r \in DOMAIN R : records[r] = R[r]
      /\ \A r \in DOMAIN records \ DOMAIN R : records[r].task = id /\ records[r].end # Null
  BY <1>2, <1>3 DEF SeenInv, UnderWay, HalfCopied
<1>5. cmd[p].op = "copy"
  BY <1>0, <1>2 DEF UserInv, UserOK, Runs
<1>6. cmd[p].label \in Label /\ cmd[p].newLabel \in Label /\ cmd[p].title \in Title
  BY <1>0, <1>5, CommandTyped
<1>7. row \in TaskRow /\ row.label = cmd[p].newLabel /\ row.title = cmd[p].title
  BY <1>6 DEF TaskRow
<1>8. k \in DOMAIN T /\ T[k].label = cmd[p].label
  BY <1>4 DEF WithLabel
<1> HIDE DEF row
<1>9. /\ Titles(tasks) = Tracker!With(Titles(T), row.label, row.title)
      /\ Logs(tasks, records)
            = Tracker!With(Logs(T, R), row.label, PeriodsAt(records, EndedIds(records, id)))
      /\ Running(tasks, records) = Running(T, R)
  BY <1>4, <1>7, TaskInserted
<1>10. RecordsOf(records, k) = RecordsOf(R, k)
  BY <1>4, <1>8 DEF RecordsOf
<1>11. PICK g \in [RecordsOf(records, id) -> RecordsOf(R, k)] :
          /\ IsCopy(p, g)
          /\ \A r \in RecordsOf(R, k) : \E s \in RecordsOf(records, id) : g[s] = r
  BY <1>2, <1>3, <1>10, CopiedAll DEF HasRoom
<1>12. /\ \A s \in RecordsOf(records, id) :
             records[s].begin = R[g[s]].begin /\ records[s].end = Rebound(R[g[s]].end)
       /\ \A r, s \in RecordsOf(records, id) : r < s => g[r] < g[s]
  <2>1. ASSUME NEW s \in RecordsOf(records, id)
        PROVE  /\ records[s].begin = R[g[s]].begin
               /\ records[s].end = Rebound(R[g[s]].end)
    <3>1. records[s] = [task  |-> newId[p],
                        begin |-> records[g[s]].begin,
                        end   |-> Rebound(records[g[s]].end)]
      BY <1>11 DEF IsCopy
    <3>2. records[g[s]] = R[g[s]]
      BY <1>4, <1>11 DEF RecordsOf
    <3> QED
      BY <3>1, <3>2
  <2>2. \A r, s \in RecordsOf(records, id) : r < s => g[r] < g[s]
    BY <1>11 DEF IsCopy
  <2> QED
    BY <2>1, <2>2
<1>13. DOMAIN records \subseteq RowId
  BY <1>0 DEF IInv, TypeOK, FileOK
<1>14. PeriodsAt(records, EndedIds(records, id))
          = IF Running(T, R) # Null /\ Running(T, R).label = T[k].label
            THEN Append(Logs(T, R)[T[k].label],
                        [begin |-> Running(T, R).begin, end |-> Blank])
            ELSE Logs(T, R)[T[k].label]
  BY <1>4, <1>8, <1>11, <1>12, <1>13, PeriodsCopied
<1>15. seen'.tasks = tasks /\ seen'.records = records
  BY <1>2 DEF Shown
<1>16. Tracker!Exists(cmd[p].label) /\ ~Tracker!Exists(cmd[p].newLabel)
  BY <1>3, <1>4, KnownLabel DEF Tracker!Exists, Titles, TablesOK
<1>17. Tracker!Answer("OK", {})
  BY <1>0, <1>2, Answers DEF Return
<1>18. Tracker!CopyTask(cmd[p].label, cmd[p].newLabel, cmd[p].title)
  BY <1>0, <1>3, <1>5, <1>7, <1>8, <1>9, <1>14, <1>15, <1>16, <1>17, CommandGiven
  DEF Tracker!CopyTask, Tracker!WorkingOn
<1> QED
  BY <1>6, <1>18, TrackerSteps

(* Every step that ends a command is the step of TimeTracker for it.       *)
LEMMA StepAnswers ==
    ASSUME OneUser, AllInv, SeenInv, HasRoom, Shown, NEW p \in Proc, Step(p), pc'[p] = "idle"
    PROVE  Tracker!Next /\ UNCHANGED clock
<1>0. IInv /\ UserInv /\ cmd[p] \in Command \cup {NoCommand}
  BY DEF AllInv, IInv, TypeOK, SessionOK
<1>1. pc[p] # "idle"
  BY <1>0, IdleTakesNoStep
<1>2. ASSUME NEW at, at # "idle", Jump(p, at) PROVE FALSE
  BY <1>0, <1>2 DEF Jump, IInv, TypeOK, SessionOK
<1>3. ASSUME \/ Reserve(p) \/ Pend(p) \/ CreateCheck(p) \/ GetTaskId(p) \/ CopyOpen(p)
             \/ \E at : FindOpen(p, at)
      PROVE  FALSE
  BY <1>1, <1>3 DEF Reserve, Pend, CreateCheck, GetTaskId, CopyOpen, FindOpen
<1>4. ~CreateDone(p)
  <2>1. FirstStatement(cmd[p].op) # "idle"
    BY <1>0, SessionAssumption DEF FirstStatement, Command, NoCommand
  <2> QED
    BY <1>2, <2>1 DEF CreateDone
<1>5. ~PrepareFails(p)
  <2>1. PrepareFails(p) => pc[p] \notin {"idle"} \cup Creates
    BY DEF PrepareFails, Selects, Writes, Creates
  <2> QED
    BY <1>0, <2>1, AlwaysPrepared
<1>6. ~DelTaskRow(p) /\ ~CopyRecord(p)
  BY <1>2 DEF DelTaskRow, CopyRecord, Proceed
<1>7. ~StartEnd(p) /\ ~StartFinish(p) /\ ~StartTime(p)
  BY <1>2 DEF StartEnd, StartFinish, StartTime, Proceed
<1>8. ~CopyInsert(p)
  BY <1>2, NeverBusy DEF CopyInsert, InsertRefused, HasRoom
<1>9. ASSUME NEW op \in {"upd", "del", "start", "copy"}, NEW at \in Writes \cup Selects,
             FindTask(p, op, at)
      PROVE  Tracker!Next
  BY <1>9, LookupAnswers
<1>10. ASSUME AddTask(p) \/ UpdTask(p) \/ DelTask(p) PROVE Tracker!Next
  BY <1>6, <1>9, <1>10, LookupAnswers, AddInsertAnswers, UpdUpdateAnswers, DelRecordsAnswers
  DEF AddTask, UpdTask, DelTask, Writes
<1>11. ASSUME StartTask(p) \/ StopTask(p) \/ Status(p) PROVE Tracker!Next
  BY <1>3, <1>7, <1>9, <1>11, StartRowAnswers, StartInsertAnswers, StopAnswers, StatusAnswers
  DEF StartTask, StopTask, Status, Selects
<1>12. ASSUME CopyTask(p) PROVE Tracker!Next
  BY <1>3, <1>6, <1>8, <1>9, <1>12, LookupAnswers, CopyFetchAnswers DEF CopyTask, Writes
<1>13. Tracker!Next
  BY <1>3, <1>4, <1>5, <1>10, <1>11, <1>12 DEF Step
<1> QED
  BY <1>13, ClockStands

-----------------------------------------------------------------------------
(* The refinement. *)

(* What the user sees stays as it is between commands.                     *)
LEMMA NothingSeen ==
    ASSUME UNCHANGED <<seen, ended, cmd, reply, clock>>
    PROVE  UNCHANGED Tracker!vars
  BY DEF Tracker!vars, Tracker!tracker

(* The user sees empty tables first.                                       *)
LEMMA InitImplements ==
    ASSUME Proc # {}, SoloInit
    PROVE  Tracker!Init /\ SeenInv
<1>1. /\ seen.tasks = <<>> /\ seen.records = <<>> /\ ended = 0 /\ clock = 0
      /\ tasks = <<>> /\ records = <<>>
      /\ \A p \in Proc : /\ pc[p] = "idle" /\ reply[p] = [code |-> "NONE", shown |-> {}]
                        /\ cmd[p] = NoCommand
  BY DEF SoloInit, Init
<1>2. PICK none : none = <<>>
  OBVIOUS
<1>3. DOMAIN none = {}
  BY <1>2
<1>4. LabelsOf(none) = {} /\ OpenRecords(none) = {} /\ OpenPeriods(none, none) = {}
  BY <1>3 DEF LabelsOf, OpenRecords, OpenPeriods
<1>5. /\ Titles(none) = <<>> /\ Logs(none, none) = <<>>
      /\ Running(none, none) = Null
  BY <1>4 DEF Titles, Logs, Running
<1>6. (CHOOSE q \in Proc : TRUE) \in Proc
  OBVIOUS
<1>7. Tracker!Init
  BY <1>1, <1>2, <1>5, <1>6 DEF Tracker!Init, Tracker!NoCommand, NoCommand
<1>8. TablesOK(none, none)
  BY <1>3, <1>4 DEF TablesOK, TasksOK, RecordsOK
<1>9. \A p \in Proc : UnderWay(p)
  BY <1>1 DEF UnderWay, Untouched, HalfDeleted, HalfStarted, HalfCopied, HasRead, PastOpen
<1>10. ended \in 0..clock
  BY <1>1
<1> QED
  BY <1>1, <1>2, <1>7, <1>8, <1>9, <1>10 DEF SeenInv

(* A step that is not a process's: the clock's, or none.                   *)
LEMMA TimeImplements ==
    ASSUME OneUser, Proc # {}, IInv, SeenInv, UNCHANGED <<seen, ended>>, Tick \/ UNCHANGED vars
    PROVE  SeenInv' /\ [Tracker!Next]_(Tracker!vars)
<1>1. UNCHANGED <<tasks, records, pc, cmd, local, lock, reply>>
  BY DEF Tick, vars, file
<1>2. clock' \in Nat /\ clock <= clock'
  BY ClockReads DEF Tick, vars
<1>3. SeenInv'
  <2>1. PICK p \in Proc : TRUE
    OBVIOUS
  <2> QED
    BY <1>1, <1>2, OnlyLocks
<1>4. CASE Tick
  <2>1. Tracker!Tick
    BY <1>1, <1>4 DEF Tick, Tracker!Tick, Tracker!tracker
  <2> QED
    BY <1>3, <2>1 DEF Tracker!Next
<1>5. CASE UNCHANGED vars
  <2>1. UNCHANGED clock
    BY <1>5 DEF vars
  <2> QED
    BY <1>1, <1>3, <2>1, NothingSeen
<1> QED
  BY <1>4, <1>5

(* Every step implements a step of TimeTracker, or is not seen.            *)
LEMMA NextImplements ==
    ASSUME Undisturbed, Proc # {}, AllInv, AllInv', SeenInv, HasRoom, [SoloNext]_soloVars
    PROVE  SeenInv' /\ [Tracker!Next]_(Tracker!vars)
<1>0. OneUser /\ ~Crashes /\ IInv
  BY DEF Undisturbed, AllInv
<1>1. CASE UNCHANGED soloVars
  <2>1. UNCHANGED vars /\ UNCHANGED <<seen, ended>>
    BY <1>1 DEF soloVars
  <2> QED
    BY <1>0, <2>1, TimeImplements
<1>2. CASE SoloNext
  <2>1. GoesOn /\ UNCHANGED <<seen, ended>> => SeenInv' /\ [Tracker!Next]_(Tracker!vars)
    BY NothingSeen DEF GoesOn
  <2>2. ASSUME NEW p \in Proc, Step(p), pc'[p] = "idle"
        PROVE  SeenInv' /\ [Tracker!Next]_(Tracker!vars)
    <3>1. CommandReturns
      BY <1>0, <2>2, IdleTakesNoStep DEF CommandReturns
    <3>2. Shown
      BY <1>2, <3>1 DEF SoloNext, Shown
    <3> QED
      BY <1>0, <2>2, <3>2, StepAnswers, ShownSeen
  <2>3. ASSUME NEW p \in Proc, Step(p), pc'[p] # "idle"
        PROVE  SeenInv' /\ [Tracker!Next]_(Tracker!vars)
    <3>1. UNCHANGED <<seen, ended>>
      BY <1>0, <1>2, <2>3 DEF SoloNext, CommandReturns, OneUser
    <3> QED
      BY <1>0, <2>1, <2>3, <3>1, StepGoesOn
  <2>4. ASSUME NEW p \in Proc, NEW c \in Command, Begin(p, c)
        PROVE  SeenInv' /\ [Tracker!Next]_(Tracker!vars)
    <3>1. UNCHANGED <<seen, ended>>
      BY <1>0, <1>2, <2>4 DEF SoloNext, CommandReturns, OneUser, Begin
    <3> QED
      BY <1>0, <2>4, <3>1, BeginGives DEF AllInv
  <2>5. ASSUME NEW p \in Proc, Crash(p) PROVE FALSE
    BY <1>0, <2>5 DEF Crash
  <2>6. ASSUME Tick \/ Quiet
        PROVE  SeenInv' /\ [Tracker!Next]_(Tracker!vars)
    <3>1. UNCHANGED pc /\ (Tick \/ UNCHANGED vars)
      BY <2>6 DEF Tick, Quiet, vars
    <3>2. UNCHANGED <<seen, ended>>
      BY <1>2, <3>1 DEF SoloNext, CommandReturns
    <3> QED
      BY <1>0, <3>1, <3>2, TimeImplements
  <2> QED
    BY <1>2, <2>2, <2>3, <2>4, <2>5, <2>6 DEF SoloNext, Next
<1> QED
  BY <1>1, <1>2

(* SoloTracker's history variables do not constrain the program.           *)
LEMMA SoloIsSession == SoloSpec => Spec
<1>1. SoloInit => Init
  BY DEF SoloInit
<1>2. [SoloNext]_soloVars => [Next]_vars
  BY DEF SoloNext, soloVars
<1> QED
  BY <1>1, <1>2, PTL DEF SoloSpec, Spec

(* Each of one user's commands, a sequence of SQL statements with the clock *)
(* running between them, does what TimeTracker does in one step for the     *)
(* command given, on the label given, and answers what it answers: as long  *)
(* as nothing is killed and the tables are not full.                        *)
THEOREM SoloImplementsTracker ==
    ASSUME Undisturbed, Proc # {}
    PROVE  SoloSpec /\ []HasRoom => ImplementsTracker
<1>1. SoloInit => Tracker!Init /\ SeenInv
  BY InitImplements
<1>2. AllInv /\ AllInv' /\ SeenInv /\ HasRoom /\ [SoloNext]_soloVars
         => SeenInv' /\ [Tracker!Next]_(Tracker!vars)
  BY NextImplements
<1>3. Spec => []AllInv
  BY UndisturbedInvariant
<1> QED
  BY <1>1, <1>2, <1>3, SoloIsSession, PTL DEF SoloSpec, ImplementsTracker, Tracker!Spec
=============================================================================
