--------------------------- MODULE PwtList_proofs ---------------------------
(***************************************************************************)
(* What list asks for, with titles and patterns of any length and any      *)
(* letters: a plain pattern between two % is found where it is a part.     *)
(***************************************************************************)
EXTENDS PwtList, FiniteSetTheorems, TLAPS

-----------------------------------------------------------------------------
(* Induction on the places of a text, which is all of it that is needed.   *)

(* Every set of numbers has a smallest one.                                *)
LEMMA Smallest ==
    ASSUME NEW T \in SUBSET Nat, T # {}
    PROVE  \E n \in T : \A m \in T : n <= m
<1> DEFINE F == {0..n : n \in T}
<1>1. IsWellFoundedOn(StrictSubsetOrdering(Nat), FiniteSubsetsOf(Nat))
  BY FS_StrictSubsetOrderingWellFounded
<1>2. F # {}
  OBVIOUS
<1>3. ASSUME NEW n \in T PROVE 0..n \in FiniteSubsetsOf(Nat)
  <2>1. IsFiniteSet(0..n) /\ 0..n \in SUBSET Nat
    BY FS_Interval
  <2> QED
    BY <2>1 DEF FiniteSubsetsOf
<1>4. F \subseteq FiniteSubsetsOf(Nat)
  BY <1>3
<1>5. PICK S \in F : \A U \in F : <<U, S>> \notin StrictSubsetOrdering(Nat)
  <2> HIDE DEF F
  <2> QED  BY <1>1, <1>2, <1>4, WFMin, Zenon
<1>6. PICK n \in T : S = 0..n
  OBVIOUS
<1>7. ASSUME NEW m \in T, m < n PROVE FALSE
  <2>1. 0..m \in F /\ 0..m \in SUBSET Nat /\ S \in SUBSET Nat
    BY <1>6
  <2>2. 0..m \subseteq S /\ 0..m # S
    BY <1>6, <1>7
  <2> QED
    BY <1>5, <2>1, <2>2 DEF StrictSubsetOrdering
<1> QED
  BY <1>7

(* Cuts that move on by one character after each other are in a row.       *)
LEMMA CutsInARow ==
    ASSUME NEW n \in Nat, NEW m \in Nat, NEW cut \in [0..n + 2 -> 0..m],
           \A k \in 1..n : cut[k + 1] = cut[k] + 1
    PROVE  \A k \in 0..n : cut[k + 1] = cut[1] + k
<1> DEFINE Off == {k \in 0..n : cut[k + 1] # cut[1] + k}
<1> SUFFICES ASSUME Off # {} PROVE FALSE
  OBVIOUS
<1>1. PICK k \in Off : \A j \in Off : k <= j
  <2>1. Off \in SUBSET Nat
    OBVIOUS
  <2> HIDE DEF Off
  <2> QED  BY <2>1, Smallest
<1>2. k # 0
  BY cut[1] \in 0..m
<1>3. k - 1 \in 0..n /\ k \in 1..n
  BY <1>2
<1>4. cut[k] = cut[1] + (k - 1)
  <2>1. k - 1 \notin Off
    BY <1>1, <1>3
  <2> QED
    BY <1>3, <2>1
<1>5. cut[k + 1] = cut[k] + 1
  BY <1>3
<1>6. cut[1] \in Nat
  OBVIOUS
<1> QED
  BY <1>3, <1>4, <1>5, <1>6

-----------------------------------------------------------------------------
(* The pattern between two %.                                              *)

LEMMA TmpPatternIs ==
    ASSUME NEW p \in Seq(Letter), Plain(p)
    PROVE  /\ Len(TmpPattern(p)) = Len(p) + 2
           /\ DOMAIN TmpPattern(p) = 1..Len(p) + 2
           /\ TmpPattern(p)[1] = Percent
           /\ TmpPattern(p)[Len(p) + 2] = Percent
           /\ \A k \in 1..Len(p) :
                 /\ TmpPattern(p)[k + 1] = p[k]
                 /\ p[k] # Percent /\ p[k] # Underscore
<1>1. Percent \in Letter
  BY ListAssumption
<1>2. /\ <<Percent>> \o p \in Seq(Letter)
      /\ Len(<<Percent>> \o p) = Len(p) + 1
      /\ (<<Percent>> \o p)[1] = Percent
      /\ \A k \in 1..Len(p) : (<<Percent>> \o p)[k + 1] = p[k]
  BY <1>1
<1>3. \A k \in 1..Len(p) : p[k] \in ToSet(p)
  BY DEF ToSet
<1>4. \A k \in 1..Len(p) : p[k] # Percent /\ p[k] # Underscore
  BY <1>3 DEF Plain
<1> DEFINE q == <<Percent>> \o p
<1>5. /\ Len(q \o <<Percent>>) = Len(p) + 2
      /\ (q \o <<Percent>>)[Len(p) + 2] = Percent
      /\ \A k \in 1..Len(p) + 1 : (q \o <<Percent>>)[k] = q[k]
      /\ q \o <<Percent>> \in Seq(Letter)
  <2> HIDE DEF q
  <2> QED  BY <1>1, <1>2 DEF q
<1> QED
  BY <1>2, <1>4, <1>5 DEF TmpPattern

(* Two % around a plain pattern: LIKE holds exactly where the pattern is a  *)
(* part of the text.                                                       *)
LEMMA LikeIsPart ==
    ASSUME NEW x \in Seq(Letter), NEW p \in Seq(Letter), Plain(p)
    PROVE  Like(x, TmpPattern(p)) <=> HasPart(x, p)
<1> DEFINE n == Len(p)
           P == TmpPattern(p)
<1>1. /\ Len(P) = n + 2 /\ DOMAIN P = 1..n + 2
      /\ P[1] = Percent /\ P[n + 2] = Percent
      /\ \A k \in 1..n : P[k + 1] = p[k] /\ p[k] # Percent /\ p[k] # Underscore
  BY TmpPatternIs
<1>2. n \in Nat /\ Len(x) \in Nat /\ DOMAIN p = 1..n
  OBVIOUS
<1> HIDE DEF n, P
<1>3. ASSUME Like(x, P)
      PROVE  \E i \in 0..Len(x) : At(p, x, i)
  <2>1. PICK cut \in [0..n + 2 -> 0..Len(x)] :
           \A j \in 1..n + 2 :
              IF P[j] = Percent THEN cut[j - 1] <= cut[j]
              ELSE /\ cut[j] = cut[j - 1] + 1
                   /\ P[j] = Underscore \/ Same(P[j], x[cut[j]])
    BY <1>1, <1>3 DEF Like
  <2>2. ASSUME NEW k \in 1..n
        PROVE  cut[k + 1] = cut[k] + 1 /\ Same(p[k], x[cut[k + 1]])
    <3>1. k + 1 \in 1..n + 2 /\ (k + 1) - 1 = k
      BY <1>2
    <3> QED
      BY <1>1, <2>1, <3>1
  <2>3. \A k \in 0..n : cut[k + 1] = cut[1] + k
    BY <1>2, <2>2, CutsInARow
  <2>4. cut[1] \in 0..Len(x) /\ cut[n + 1] \in 0..Len(x)
    BY <1>2
  <2>5. cut[1] + n <= Len(x)
    BY <1>2, <2>3, <2>4
  <2>6. ASSUME NEW k \in 1..n PROVE Same(p[k], x[cut[1] + k])
    <3>1. cut[k + 1] = cut[1] + k
      BY <1>2, <2>3
    <3>2. Same(p[k], x[cut[k + 1]])
      BY <2>2
    <3> QED
      BY <3>1, <3>2, Zenon
  <2> QED
    BY <1>2, <2>4, <2>5, <2>6 DEF At, n
<1>4. ASSUME NEW i \in 0..Len(x), At(p, x, i)
      PROVE  Like(x, P)
  <2> DEFINE cut == [j \in 0..n + 2 |-> IF j = 0 THEN 0
                                        ELSE IF j = n + 2 THEN Len(x)
                                        ELSE i + (j - 1)]
  <2>1. i + n <= Len(x) /\ \A k \in 1..n : Same(p[k], x[i + k])
    BY <1>2, <1>4 DEF At, n
  <2>2. cut \in [0..n + 2 -> 0..Len(x)]
    BY <1>2, <2>1
  <2>3. cut[0] = 0 /\ cut[n + 2] = Len(x)
    BY <1>2
  <2>4. \A k \in 1..n + 1 : cut[k] = i + (k - 1)
    BY <1>2
  <2>5. ASSUME NEW j \in 1..n + 2
        PROVE  IF P[j] = Percent THEN cut[j - 1] <= cut[j]
               ELSE /\ cut[j] = cut[j - 1] + 1
                    /\ P[j] = Underscore \/ Same(P[j], x[cut[j]])
    <3> HIDE DEF cut
    <3>1. CASE j = 1
      BY <1>1, <1>2, <2>3, <2>4, <3>1
    <3>2. CASE j = n + 2
      BY <1>1, <1>2, <2>1, <2>3, <2>4, <3>2
    <3>3. ASSUME j # 1, j # n + 2
          PROVE  /\ P[j] = p[j - 1] /\ P[j] # Percent
                 /\ cut[j] = cut[j - 1] + 1 /\ Same(P[j], x[cut[j]])
      <4>1. j - 1 \in 1..n /\ j = (j - 1) + 1
        BY <1>2, <3>3
      <4>2. P[j] = p[j - 1] /\ P[j] # Percent
        BY <1>1, <4>1
      <4>3. cut[j] = i + (j - 1) /\ cut[j - 1] = i + (j - 2)
        BY <1>2, <2>4, <4>1
      <4> QED
        BY <2>1, <4>1, <4>2, <4>3
    <3> QED
      BY <3>1, <3>2, <3>3
  <2> HIDE DEF cut
  <2> QED
    BY <1>1, <2>2, <2>3, <2>5 DEF Like
<1> QED
  BY <1>3, <1>4 DEF P, HasPart

-----------------------------------------------------------------------------
(* The list. *)

\* The texts are texts, and the list of all tasks is that of all.
IInv ==
    /\ title \in Seq(Letter)
    /\ pattern \in Seq(Letter)
    /\ pattern = <<Star>> /\ shown # "not yet" => shown = "yes"

(* Texts are sequences, also within the bounds.                            *)
LEMMA BoundedSeqIsSeq ==
    ASSUME NEW n \in Nat, NEW x \in BoundedSeq(Letter, n)
    PROVE  x \in Seq(Letter)
  BY DEF BoundedSeq, SeqOf

(* For a plain pattern ListTask binds a LIKE pattern that selects exactly   *)
(* the titles the pattern is a part of, whatever the case, and for "*" it   *)
(* shows all: for texts of any length, in any letters.                      *)
THEOREM ListQueryFindsParts == Spec => []QueryFindsParts
<1>1. Init => IInv
  <2> SUFFICES ASSUME Init PROVE IInv
    OBVIOUS
  <2>1. title \in Seq(Letter) /\ pattern \in Seq(Letter)
    BY ListAssumption, BoundedSeqIsSeq DEF Init
  <2> QED
    BY <2>1 DEF Init, IInv
<1>2. IInv /\ [Next]_vars => IInv'
  BY DEF IInv, Next, ListTask, Listed, vars
<1>3. IInv => QueryFindsParts
  BY LikeIsPart DEF IInv, QueryFindsParts
<1> QED
  BY <1>1, <1>2, <1>3, PTL DEF Spec
=============================================================================
