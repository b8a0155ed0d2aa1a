---------------------------- MODULE ListProofs ----------------------------
(***************************************************************************)
(* Lemmas about loops over lists.  A loop is a walk: a recursive function  *)
(* from the number of passes to the state after it.  That there is such a  *)
(* function, and that what each pass keeps is kept to the end, follows     *)
(* from the least number (the induction theorems of the library take an    *)
(* operator as a parameter, and cannot be cited).  Then what is in a list  *)
(* that grows at its end and is taken from at its head.                    *)
(***************************************************************************)
EXTENDS Lists, Integers, FiniteSets, FiniteSetTheorems, SequenceTheorems, TLAPS

\* Numbers as the sizes of sets: by the finite sets they are well-founded.
LEMMA LeastOf ==
    ASSUME NEW S \in SUBSET Nat, S # {}
    PROVE  \E m \in S : \A k \in S : m <= k
<1> DEFINE Upto(n) == 1 .. n
           T == {Upto(n) : n \in S}
<1>1. \A n \in S : Upto(n) \in FiniteSubsetsOf(Nat)
    BY FS_Interval DEF FiniteSubsetsOf
<1>2. PICK x \in T : \A y \in T : <<y, x>> \notin StrictSubsetOrdering(Nat)
    <2>1. T \subseteq FiniteSubsetsOf(Nat) /\ T # {}
        BY <1>1
    <2> HIDE DEF T
    <2> QED BY <2>1, FS_StrictSubsetOrderingWellFounded, WFMin
<1>3. PICK m \in S : x = Upto(m)
    OBVIOUS
<1>4. ASSUME NEW k \in S, ~(m <= k)
      PROVE  FALSE
    <2>1. Upto(k) \subseteq Upto(m) /\ m \in Upto(m) /\ m \notin Upto(k)
        BY <1>4
    <2>2. Upto(k) \in SUBSET Nat /\ Upto(m) \in SUBSET Nat /\ Upto(k) # Upto(m)
        BY <2>1
    <2> HIDE DEF Upto
    <2>3. <<Upto(k), Upto(m)>> \in StrictSubsetOrdering(Nat)
        BY <2>1, <2>2 DEF StrictSubsetOrdering
    <2> QED BY <1>2, <1>3, <2>3
<1> QED BY <1>4

\* What every step of a walk keeps is there at its end.
LEMMA WalkKeeps ==
    ASSUME NEW n \in Nat, NEW walk, NEW good, walk[0] \in good[0],
           \A i \in 1 .. n : walk[i - 1] \in good[i - 1] => walk[i] \in good[i]
    PROVE  \A i \in 0 .. n : walk[i] \in good[i]
<1> DEFINE Bad == {i \in 0 .. n : walk[i] \notin good[i]}
<1>1. SUFFICES ASSUME Bad # {} PROVE FALSE
    OBVIOUS
<1>2. PICK k \in Bad : \A i \in Bad : k <= i
    <2>1. Bad \in SUBSET Nat
        OBVIOUS
    <2> HIDE DEF Bad
    <2> QED BY <1>1, <2>1, LeastOf
<1>3. k \in 1 .. n
    BY <1>2
<1>4. k - 1 \in 0 .. n /\ k - 1 \notin Bad
    BY <1>2, <1>3
<1> QED BY <1>2, <1>3, <1>4

\* A walk by a function for each of its steps.
Along(n, move, base, walk) == [i \in 0 .. n |-> IF i = 0 THEN base ELSE move[i][walk[i - 1]]]

NextSteps(n, X) == [1 .. n -> [X -> X]]
Walks(n, X) == [0 .. n -> X]

LEMMA WalkExists ==
    ASSUME NEW X, NEW base \in X, NEW n \in Nat, NEW move \in NextSteps(n, X)
    PROVE  \E walk \in Walks(n, X) : walk = Along(n, move, base, walk)
<1> DEFINE Missing == {k \in 0 .. n : ~\E walk \in [0 .. k -> X] : walk = Along(k, move, base, walk)}
<1>1. SUFFICES ASSUME Missing # {} PROVE FALSE
    BY DEF Walks
<1> USE DEF NextSteps
<1>2. PICK k \in Missing : \A i \in Missing : k <= i
    <2>1. Missing \in SUBSET Nat
        OBVIOUS
    <2> HIDE DEF Missing
    <2> QED BY <1>1, <2>1, LeastOf
<1>3. CASE k = 0
    <2> DEFINE walk == [i \in 0 .. 0 |-> base]
    <2>1. walk \in [0 .. 0 -> X] /\ walk = Along(0, move, base, walk)
        BY DEF Along
    <2> QED BY <1>2, <1>3, <2>1
<1>4. CASE k # 0
    <2>1. k \in 1 .. n /\ k - 1 \in 0 .. n /\ k - 1 \notin Missing
        BY <1>2, <1>4
    <2>2. PICK before \in [0 .. k - 1 -> X] : before = Along(k - 1, move, base, before)
        BY <2>1
    <2> DEFINE walk == [i \in 0 .. k |-> IF i = k THEN move[k][before[k - 1]] ELSE before[i]]
    <2>3. walk \in [0 .. k -> X]
        BY <2>1, <2>2
    <2>4. ASSUME NEW i \in 0 .. k
          PROVE  walk[i] = IF i = 0 THEN base ELSE move[i][walk[i - 1]]
        <3>1. CASE i = k
            BY <2>1, <3>1
        <3>2. CASE i # k
            <4>1. i \in 0 .. k - 1 /\ (i # 0 => i - 1 \in 0 .. k - 1)
                BY <2>1, <3>2
            <4>2. before[i] = IF i = 0 THEN base ELSE move[i][before[i - 1]]
                BY <2>2, <4>1 DEF Along
            <4> QED BY <2>1, <3>2, <4>1, <4>2
        <3> QED BY <3>1, <3>2
    <2> HIDE DEF walk
    <2>5. walk = [i \in 0 .. k |-> walk[i]]
        BY <2>3
    <2>6. walk = Along(k, move, base, walk)
        BY <2>4, <2>5 DEF Along
    <2> QED BY <1>2, <2>3, <2>6
<1> QED BY <1>3, <1>4

\* The walk, step by step; what all its steps keep is there at its end.
LEMMA WalkSteps ==
    ASSUME NEW X, NEW base \in X, NEW n \in Nat, NEW move \in NextSteps(n, X)
    PROVE  \E walk \in Walks(n, X) : \A i \in 0 .. n : walk[i] = IF i = 0 THEN base ELSE move[i][walk[i - 1]]
BY WalkExists DEF Along

LEMMA WalkStays ==
    ASSUME NEW X, NEW n \in Nat, NEW walk, walk[0] \in X,
           \A i \in 1 .. n : walk[i - 1] \in X => walk[i] \in X
    PROVE  walk[n] \in X
<1> DEFINE good == [i \in 0 .. n |-> X]
<1>1. walk[0] \in good[0] /\ \A i \in 1 .. n : walk[i - 1] \in good[i - 1] => walk[i] \in good[i]
    OBVIOUS
<1>2. \A i \in 0 .. n : walk[i] \in good[i]
    <2> HIDE DEF good
    <2> QED BY <1>1, WalkKeeps
<1> QED BY <1>2

(***************************************************************************)
(* The chosen part of a list: each place that is chosen comes after as     *)
(* many elements as there are chosen places before it.                     *)
(***************************************************************************)
\* How many of the first places are chosen.
CountUpto(S, i) == Cardinality(S \cap (1 .. i))

LEMMA CountNext ==
    ASSUME NEW S, NEW i \in Nat, NEW next, next = i + 1
    PROVE  /\ CountUpto(S, i) \in Nat
           /\ next \in S => CountUpto(S, next) = CountUpto(S, i) + 1
           /\ next \notin S => CountUpto(S, next) = CountUpto(S, i)
<1> USE DEF CountUpto
<1>1. IsFiniteSet(1 .. i)
    BY FS_Interval
<1>2. IsFiniteSet(S \cap (1 .. i)) /\ Cardinality(S \cap (1 .. i)) \in Nat
    BY <1>1, FS_Subset, FS_CardinalityType
<1>3. ASSUME next \in S
      PROVE  Cardinality(S \cap (1 .. next)) = Cardinality(S \cap (1 .. i)) + 1
    <2>1. S \cap (1 .. next) = (S \cap (1 .. i)) \cup {next} /\ next \notin S \cap (1 .. i)
        BY <1>3
    <2> QED BY <1>2, <2>1, FS_AddElement
<1>4. ASSUME next \notin S
      PROVE  S \cap (1 .. next) = S \cap (1 .. i)
    BY <1>4
<1> QED BY <1>2, <1>3, <1>4

\* What a loop has kept of the first k elements.
KeptUpto(X, list, S, k) ==
    {s \in Seq(X) :
        /\ Len(s) = CountUpto(S, k)
        /\ \A j \in 1 .. k : j \in S => CountUpto(S, j) \in 1 .. Len(s) /\ s[CountUpto(S, j)] = list[j]
        /\ \A m \in 1 .. Len(s) : \E j \in 1 .. k : j \in S /\ m = CountUpto(S, j) /\ s[m] = list[j]}

LEMMA KeepOne ==
    ASSUME NEW X, NEW list \in Seq(X), NEW S, NEW i \in 1 .. Len(list), NEW s \in KeptUpto(X, list, S, i - 1)
    PROVE  (IF i \in S THEN Append(s, list[i]) ELSE s) \in KeptUpto(X, list, S, i)
<1> DEFINE c(j) == CountUpto(S, j)
<1>1. i - 1 \in Nat /\ i = (i - 1) + 1 /\ list[i] \in X
    BY ElementOfSeq
<1>2. /\ c(i - 1) \in Nat
      /\ i \in S => c(i) = c(i - 1) + 1
      /\ i \notin S => c(i) = c(i - 1)
    BY <1>1, CountNext
<1>3. /\ s \in Seq(X) /\ Len(s) = c(i - 1)
      /\ \A j \in 1 .. i - 1 : j \in S => c(j) \in 1 .. Len(s) /\ s[c(j)] = list[j]
      /\ \A m \in 1 .. Len(s) : \E j \in 1 .. i - 1 : j \in S /\ m = c(j) /\ s[m] = list[j]
    BY DEF KeptUpto
<1> HIDE DEF c
<1>4. CASE i \notin S
    <2>1. \A j \in 1 .. i : j \in S => j \in 1 .. i - 1
        BY <1>4
    <2>2. /\ Len(s) = c(i)
          /\ \A j \in 1 .. i : j \in S => c(j) \in 1 .. Len(s) /\ s[c(j)] = list[j]
          /\ \A m \in 1 .. Len(s) : \E j \in 1 .. i : j \in S /\ m = c(j) /\ s[m] = list[j]
        BY <1>2, <1>3, <1>4, <2>1
    <2> QED BY <1>3, <1>4, <2>2 DEF KeptUpto, c
<1>5. CASE i \in S
    <2> DEFINE new == Append(s, list[i])
    <2>1. /\ new \in Seq(X) /\ Len(new) = Len(s) + 1 /\ new[Len(s) + 1] = list[i]
          /\ \A m \in 1 .. Len(s) : new[m] = s[m]
        BY <1>1, <1>3, AppendProperties
    <2> HIDE DEF new
    <2>2. Len(s) \in Nat /\ Len(new) = c(i) /\ c(i) = Len(s) + 1
        BY <1>2, <1>3, <1>5, <2>1
    <2>3. ASSUME NEW j \in 1 .. i, j \in S
          PROVE  c(j) \in 1 .. Len(new) /\ new[c(j)] = list[j]
        <3>1. CASE j = i
            BY <2>1, <2>2, <3>1
        <3>2. CASE j # i
            BY <1>3, <2>1, <2>2, <2>3, <3>2
        <3> QED BY <3>1, <3>2
    <2>4. ASSUME NEW m \in 1 .. Len(new)
          PROVE  \E j \in 1 .. i : j \in S /\ m = c(j) /\ new[m] = list[j]
        <3>1. CASE m = Len(s) + 1
            BY <1>5, <2>1, <2>2, <3>1
        <3>2. CASE m # Len(s) + 1
            <4>1. m \in 1 .. Len(s)
                BY <2>1, <2>2, <3>2
            <4>2. PICK j \in 1 .. i - 1 : j \in S /\ m = c(j) /\ s[m] = list[j]
                BY <1>3, <4>1
            <4> QED BY <2>1, <4>1, <4>2
        <3> QED BY <3>1, <3>2
    <2> QED BY <1>5, <2>1, <2>2, <2>3, <2>4 DEF KeptUpto, c, new
<1> QED BY <1>4, <1>5

LEMMA ChosenIs ==
    ASSUME NEW X, NEW list \in Seq(X), NEW S
    PROVE  Chosen(list, S) \in KeptUpto(X, list, S, Len(list))
<1> DEFINE n == Len(list)
           none == <<>>
           Keep(s, i) == IF i \in S THEN Append(s, list[i]) ELSE s
           G(f) == [i \in 0 .. n |-> IF i = 0 THEN none ELSE Keep(f[i - 1], i)]
           move == [i \in 1 .. n |-> [s \in Seq(X) |-> Keep(s, i)]]
           kept == CHOOSE f : f = G(f)
<1>1. n \in Nat /\ none \in Seq(X) /\ \A i \in 1 .. n : list[i] \in X
    BY ElementOfSeq, EmptySeq
<1>2. Chosen(list, S) = kept[n]
    BY DEF Chosen
<1> HIDE DEF n, none
<1>3. \A i \in 1 .. n : \A s \in Seq(X) : Keep(s, i) \in Seq(X)
    BY <1>1, AppendProperties
<1>4. \E f : f = G(f)
    <2>1. move \in NextSteps(n, Seq(X))
        BY <1>3 DEF NextSteps
    <2>2. \A i \in 1 .. n : \A s \in Seq(X) : move[i][s] = Keep(s, i)
        OBVIOUS
    <2> HIDE DEF move, Keep
    <2>3. PICK f \in Walks(n, Seq(X)) : \A i \in 0 .. n : f[i] = IF i = 0 THEN none ELSE move[i][f[i - 1]]
        BY <1>1, <2>1, WalkSteps
    <2>4. \A i \in 1 .. n : move[i][f[i - 1]] = Keep(f[i - 1], i)
        BY <1>1, <2>2, <2>3 DEF Walks
    <2>5. \A i \in 0 .. n : f[i] = IF i = 0 THEN none ELSE Keep(f[i - 1], i)
        BY <1>1, <2>3, <2>4
    <2>6. f = [i \in 0 .. n |-> f[i]]
        BY <2>3 DEF Walks
    <2> QED BY <2>5, <2>6
<1>5. kept = G(kept)
    BY <1>4
<1> HIDE DEF kept
<1>6. kept[0] = none /\ \A i \in 1 .. n : kept[i] = Keep(kept[i - 1], i)
    <2>1. \A i \in 0 .. n : kept[i] = IF i = 0 THEN none ELSE Keep(kept[i - 1], i)
        BY <1>5
    <2> HIDE DEF Keep
    <2> QED BY <1>1, <2>1
<1> DEFINE good == [i \in 0 .. n |-> KeptUpto(X, list, S, i)]
<1>7. kept[0] \in good[0]
    <2>1. S \cap (1 .. 0) = {} /\ Len(none) = 0
        BY DEF none
    <2>2. CountUpto(S, 0) = 0
        BY <2>1, FS_EmptySet DEF CountUpto
    <2> QED BY <1>1, <1>6, <2>1, <2>2 DEF KeptUpto
<1>8. \A i \in 1 .. n : kept[i - 1] \in good[i - 1] => kept[i] \in good[i]
    <2>1. SUFFICES ASSUME NEW i \in 1 .. n, kept[i - 1] \in KeptUpto(X, list, S, i - 1)
                   PROVE  kept[i] \in KeptUpto(X, list, S, i)
        BY <1>1
    <2>2. Keep(kept[i - 1], i) \in KeptUpto(X, list, S, i)
        BY <2>1, KeepOne DEF n
    <2> HIDE DEF Keep
    <2> QED BY <1>6, <2>2
<1>9. \A i \in 0 .. n : kept[i] \in good[i]
    <2> HIDE DEF good
    <2> QED BY <1>1, <1>7, <1>8, WalkKeeps
<1>10. kept[n] \in KeptUpto(X, list, S, n)
    BY <1>1, <1>9
<1> QED BY <1>2, <1>10 DEF n

\* A loop keeps elements at chosen places, and all of them.
LEMMA ChosenElements ==
    ASSUME NEW X, NEW list \in Seq(X), NEW S
    PROVE  /\ Chosen(list, S) \in Seq(X)
           /\ \A m \in 1 .. Len(Chosen(list, S)) : \E j \in 1 .. Len(list) : j \in S /\ Chosen(list, S)[m] = list[j]
           /\ \A j \in 1 .. Len(list) : j \in S => \E m \in 1 .. Len(Chosen(list, S)) : Chosen(list, S)[m] = list[j]
<1>1. Chosen(list, S) \in KeptUpto(X, list, S, Len(list))
    BY ChosenIs
<1> QED BY <1>1 DEF KeptUpto

(***************************************************************************)
(* What is in a list.                                                      *)
(***************************************************************************)
ElementsOf(s) == {s[i] : i \in 1 .. Len(s)}

LEMMA ElementsOfNone ==
    ElementsOf(<<>>) = {}
BY DEF ElementsOf

LEMMA ElementsOfOne ==
    ASSUME NEW x
    PROVE  ElementsOf(<<x>>) = {x}
<1>1. Len(<<x>>) = 1 /\ <<x>>[1] = x
    OBVIOUS
<1> QED BY <1>1 DEF ElementsOf

LEMMA ElementsAppended ==
    ASSUME NEW X, NEW s \in Seq(X), NEW x \in X
    PROVE  Append(s, x) \in Seq(X) /\ ElementsOf(Append(s, x)) = ElementsOf(s) \cup {x}
<1>1. /\ Append(s, x) \in Seq(X) /\ Len(Append(s, x)) = Len(s) + 1 /\ Append(s, x)[Len(s) + 1] = x
      /\ \A i \in 1 .. Len(s) : Append(s, x)[i] = s[i]
    BY AppendProperties
<1>2. Len(s) \in Nat
    OBVIOUS
<1> DEFINE new == Append(s, x)
<1> HIDE DEF new
<1>3. ASSUME NEW y \in ElementsOf(s) \cup {x} PROVE y \in ElementsOf(new)
    BY <1>1, <1>2 DEF new, ElementsOf
<1>4. ASSUME NEW y \in ElementsOf(new) PROVE y \in ElementsOf(s) \cup {x}
    <2>1. PICK i \in 1 .. Len(new) : y = new[i]
        BY DEF ElementsOf
    <2>2. CASE i = Len(s) + 1
        BY <1>1, <2>1, <2>2 DEF new
    <2>3. CASE i # Len(s) + 1
        <3>1. i \in 1 .. Len(s)
            BY <1>1, <1>2, <2>1, <2>3 DEF new
        <3> QED BY <1>1, <2>1, <3>1 DEF new, ElementsOf
    <2> QED BY <2>2, <2>3
<1> QED BY <1>1, <1>3, <1>4 DEF new

LEMMA ElementsConcatenated ==
    ASSUME NEW X, NEW s \in Seq(X), NEW t \in Seq(X)
    PROVE  s \o t \in Seq(X) /\ ElementsOf(s \o t) = ElementsOf(s) \cup ElementsOf(t)
<1> DEFINE new == s \o t
<1>1. /\ new \in Seq(X) /\ Len(new) = Len(s) + Len(t)
      /\ \A i \in 1 .. Len(s) + Len(t) : new[i] = IF i <= Len(s) THEN s[i] ELSE t[i - Len(s)]
    BY ConcatProperties
<1>2. Len(s) \in Nat /\ Len(t) \in Nat
    OBVIOUS
<1> HIDE DEF new
<1>3. ASSUME NEW y \in ElementsOf(s) PROVE y \in ElementsOf(new)
    BY <1>1, <1>2 DEF ElementsOf
<1>4. ASSUME NEW y \in ElementsOf(t) PROVE y \in ElementsOf(new)
    <2>1. PICK i \in 1 .. Len(t) : y = t[i]
        BY DEF ElementsOf
    <2>2. i + Len(s) \in 1 .. Len(new) /\ ~(i + Len(s) <= Len(s)) /\ (i + Len(s)) - Len(s) = i
        BY <1>1, <1>2
    <2>3. new[i + Len(s)] = t[i]
        BY <1>1, <2>2
    <2> QED BY <2>1, <2>2, <2>3 DEF ElementsOf
<1>5. ASSUME NEW y \in ElementsOf(new) PROVE y \in ElementsOf(s) \cup ElementsOf(t)
    <2>1. PICK i \in 1 .. Len(new) : y = new[i]
        BY DEF ElementsOf
    <2>2. CASE i <= Len(s)
        <3>1. i \in 1 .. Len(s) /\ y = s[i]
            BY <1>1, <1>2, <2>1, <2>2
        <3> QED BY <3>1 DEF ElementsOf
    <2>3. CASE ~(i <= Len(s))
        <3>1. i - Len(s) \in 1 .. Len(t) /\ y = t[i - Len(s)]
            BY <1>1, <1>2, <2>1, <2>3
        <3> QED BY <3>1 DEF ElementsOf
    <2> QED BY <2>2, <2>3
<1> QED BY <1>1, <1>3, <1>4, <1>5 DEF new

LEMMA ElementsTaken ==
    ASSUME NEW X, NEW s \in Seq(X), s # <<>>
    PROVE  /\ Head(s) \in X /\ Tail(s) \in Seq(X) /\ Len(Tail(s)) = Len(s) - 1 /\ Len(s) >= 1
           /\ ElementsOf(s) = {Head(s)} \cup ElementsOf(Tail(s))
<1> DEFINE rest == Tail(s)
<1>1. /\ Head(s) = s[1] /\ Head(s) \in X /\ rest \in Seq(X) /\ Len(rest) = Len(s) - 1 /\ Len(s) \in Nat \ {0}
      /\ \A i \in 1 .. Len(rest) : rest[i] = s[i + 1]
    BY HeadTailProperties
<1> HIDE DEF rest
<1>2. ASSUME NEW y \in ElementsOf(s) PROVE y \in {Head(s)} \cup ElementsOf(rest)
    <2>1. PICK i \in 1 .. Len(s) : y = s[i]
        BY DEF ElementsOf
    <2>2. CASE i = 1
        BY <1>1, <2>1, <2>2
    <2>3. CASE i # 1
        <3>1. i - 1 \in 1 .. Len(rest) /\ (i - 1) + 1 = i
            BY <1>1, <2>3
        <3>2. y = rest[i - 1]
            BY <1>1, <2>1, <3>1
        <3> QED BY <3>1, <3>2 DEF ElementsOf
    <2> QED BY <2>2, <2>3
<1>3. ASSUME NEW y \in {Head(s)} \cup ElementsOf(rest) PROVE y \in ElementsOf(s)
    BY <1>1 DEF ElementsOf
<1> QED BY <1>1, <1>2, <1>3 DEF rest

\* The first of some places.
LEMMA FirstOfIs ==
    ASSUME NEW places \in SUBSET (Nat \ {0})
    PROVE  /\ FirstOf(places) = 0 <=> places = {}
           /\ places # {} => FirstOf(places) \in places /\ \A i \in places : FirstOf(places) <= i
<1>1. ASSUME places # {}
      PROVE  \E m \in places : \A i \in places : m <= i
    BY <1>1, LeastOf
<1> QED BY <1>1 DEF FirstOf
=============================================================================
