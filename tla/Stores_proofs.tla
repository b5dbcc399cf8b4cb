---------------------------- MODULE Stores_proofs ----------------------------
(***************************************************************************)
(* Theorems about what is kept beside the task board and worked out from   *)
(* it: knowledge entries, estimates, conflicts, prompts and the breaking   *)
(* of a feature into tasks.  The modules share no variable; each theorem   *)
(* is of the specification of one of them, for any scenes, records,        *)
(* documents and bounds its assumptions allow.                             *)
(***************************************************************************)
EXTENDS Knowledge, Workload, Packets, Decompose, FiniteSetTheorems, NaturalsInduction, WellFoundedInduction, TLAPS

-----------------------------------------------------------------------------
(* Numbers.                                                                *)

LEMMA LeastOf ==
    ASSUME NEW R, IsWellFoundedOn(R, Nat), NEW T, T \subseteq Nat, T # {}
    PROVE  \E x \in T : \A y \in T : ~ (<<y, x>> \in R)
  BY WFMin

LEMMA LeastNumber ==
    ASSUME NEW T \in SUBSET Nat, T # {} PROVE \E x \in T : \A y \in T : x <= y
  <1>1. PICK R : IsWellFoundedOn(R, Nat) /\ \A a, b \in Nat : a < b => <<a, b>> \in R
    BY NatLessThanWellFounded DEF OpToRel
  <1>2. \E x \in T : \A y \in T : ~ (<<y, x>> \in R)
    BY <1>1, LeastOf
  <1>3. PICK x \in T : \A y \in T : ~ (<<y, x>> \in R)
    BY <1>2
  <1>4. \A y \in T : ~ (y < x)
    BY <1>1, <1>3
  <1>5. \A a, b \in Nat : ~ (a < b) => b <= a
    OBVIOUS
  <1> QED
    BY <1>4, <1>5

(* Induction on a set of numbers, without an operator.                     *)
LEMMA UpTo ==
    ASSUME NEW n \in Nat, NEW T, 0 \in T, \A k \in 1..n : k - 1 \in T => k \in T
    PROVE  0..n \subseteq T /\ n \in T
  <1> DEFINE Lacking == {k \in 0..n : k \notin T}
  <1> SUFFICES ASSUME Lacking # {} PROVE FALSE
    <2>1. n \in 0..n
      OBVIOUS
    <2> QED BY <2>1
  <1>1. PICK k \in Lacking : \A y \in Lacking : k <= y
    <2>1. Lacking \in SUBSET Nat
      OBVIOUS
    <2> HIDE DEF Lacking
    <2> QED BY <2>1, LeastNumber
  <1>2. k \in 1..n /\ k \notin T
    BY <1>1
  <1>3. k - 1 \in 0..n /\ ~ (k <= k - 1)
    BY <1>2
  <1>4. k - 1 \in T
    BY <1>1, <1>3
  <1> QED
    BY <1>2, <1>4

(* The largest of a set of numbers. *)
Top(S) == CHOOSE x \in S : \A y \in S : x >= y

LEMMA TopIs ==
    ASSUME NEW k \in Nat, NEW S \in SUBSET (1..k), k \in S PROVE Top(S) = k
  <1>1. \A y \in S : k >= y
    OBVIOUS
  <1>2. \A x \in S : (\A y \in S : x >= y) => x = k
    OBVIOUS
  <1> QED
    BY <1>1, <1>2 DEF Top

LEMMA Below ==
    ASSUME NEW k \in Nat, k >= 1, NEW S \in SUBSET (1..k)
    PROVE  /\ S \ {k} \in SUBSET (1..(k - 1))
           /\ k \notin S => S \in SUBSET (1..(k - 1)) /\ S \ {Top(S)} \in SUBSET (1..(k - 1))
           /\ k \notin S \ {k}
  <1>1. S \ {k} \in SUBSET (1..(k - 1)) /\ k \notin S \ {k}
    OBVIOUS
  <1>2. k \notin S => S \in SUBSET (1..(k - 1))
    OBVIOUS
  <1>3. \A R \in SUBSET (1..(k - 1)) : R \ {Top(S)} \in SUBSET (1..(k - 1))
    OBVIOUS
  <1> QED
    BY <1>1, <1>2, <1>3

(* The fold of one row, and its values on 1..m. *)
RowFold(f, dom, base, first, entries, i, ix) ==
    f = [S \in SUBSET dom |->
            IF S = {} THEN base
            ELSE Compared(f[S \ {Top(S)}], first, entries[i + ix[Top(S)]])]

LEMMA RowFoldIsThere ==
    ASSUME NEW n \in Nat, NEW base, NEW first, NEW entries, NEW i, NEW ix
    PROVE  \E f : RowFold(f, 1..n, base, first, entries, i, ix)
  <1> DEFINE T == {m \in 0..n : \E f : RowFold(f, 1..m, base, first, entries, i, ix)}
  <1>1. 0 \in T
    <2> DEFINE f == [S \in SUBSET (1..0) |-> base]
    <2>1. \A S \in SUBSET (1..0) : S = {}
      OBVIOUS
    <2>2. f = [S \in SUBSET (1..0) |->
                  IF S = {} THEN base ELSE Compared(f[S \ {Top(S)}], first, entries[i + ix[Top(S)]])]
      BY <2>1
    <2> HIDE DEF f
    <2>3. RowFold(f, 1..0, base, first, entries, i, ix)
      BY <2>2 DEF RowFold
    <2> QED BY <2>3
  <1>2. ASSUME NEW k \in 1..n, k - 1 \in T PROVE k \in T
    <2>1. PICK f : RowFold(f, 1..k - 1, base, first, entries, i, ix)
      BY <1>2
    <2>2. \A S \in SUBSET (1..(k - 1)) :
             f[S] = IF S = {} THEN base ELSE Compared(f[S \ {Top(S)}], first, entries[i + ix[Top(S)]])
      BY <2>1 DEF RowFold
    <2> DEFINE g == [S \in SUBSET (1..k) |->
                        IF k \in S THEN Compared(f[S \ {k}], first, entries[i + ix[k]]) ELSE f[S]]
    <2>3. ASSUME NEW S \in SUBSET (1..k)
          PROVE  g[S] = IF S = {} THEN base
                        ELSE Compared(g[S \ {Top(S)}], first, entries[i + ix[Top(S)]])
      <3>1. CASE k \in S
        <4>1. Top(S) = k
          BY <3>1, TopIs
        <4>2. S \ {k} \in SUBSET (1..k) /\ k \notin S \ {k} /\ S # {}
          BY <3>1
        <4>3. g[S \ {k}] = f[S \ {k}]
          BY <4>2
        <4>4. g[S] = Compared(f[S \ {k}], first, entries[i + ix[k]])
          BY <3>1
        <4> HIDE DEF g
        <4> QED BY <4>1, <4>2, <4>3, <4>4
      <3>2. CASE k \notin S
        <4>1. S \in SUBSET (1..(k - 1)) /\ S \ {Top(S)} \in SUBSET (1..(k - 1))
          BY <3>2, Below
        <4>2. S \ {Top(S)} \in SUBSET (1..k) /\ k \notin S \ {Top(S)}
          BY <3>2
        <4>3. g[S \ {Top(S)}] = f[S \ {Top(S)}]
          BY <4>2
        <4>4. g[S] = f[S]
          BY <3>2
        <4> HIDE DEF g
        <4> QED BY <2>2, <4>1, <4>3, <4>4
      <3> QED BY <3>1, <3>2
    <2>4. g = [S \in SUBSET (1..k) |->
                  IF S = {} THEN base ELSE Compared(g[S \ {Top(S)}], first, entries[i + ix[Top(S)]])]
      <3>1. g = [S \in SUBSET (1..k) |-> g[S]]
        OBVIOUS
      <3> HIDE DEF g
      <3> QED BY <2>3, <3>1
    <2> HIDE DEF g
    <2>5. RowFold(g, 1..k, base, first, entries, i, ix)
      BY <2>4 DEF RowFold
    <2> QED BY <2>5
  <1> HIDE DEF T
  <1>3. n \in T
    BY <1>1, <1>2, UpTo
  <1> QED
    BY <1>3 DEF T

LEMMA UpToItsTop ==
    ASSUME NEW n \in Nat, NEW m \in 1..n
    PROVE  /\ (1..m) \in SUBSET (1..n) /\ (1..m) # {}
           /\ Top(1..m) = m /\ (1..m) \ {m} = 1..(m - 1)
  <1>1. m \in Nat /\ m \in 1..m
    OBVIOUS
  <1>2. (1..m) \in SUBSET (1..n)
    OBVIOUS
  <1>3. (1..m) # {}
    BY <1>1
  <1>4. Top(1..m) = m
    BY <1>1, TopIs
  <1>5. (1..m) \ {m} = 1..(m - 1)
    OBVIOUS
  <1> QED
    BY <1>2, <1>3, <1>4, <1>5

LEMMA RowFoldSteps ==
    ASSUME NEW n \in Nat, NEW base, NEW first, NEW entries, NEW i, NEW ix, NEW f,
           RowFold(f, 1..n, base, first, entries, i, ix)
    PROVE  /\ f[1..0] = base
           /\ \A m \in 1..n : f[1..m] = Compared(f[1..(m - 1)], first, entries[i + ix[m]])
  <1>1. \A S \in SUBSET (1..n) :
           f[S] = IF S = {} THEN base ELSE Compared(f[S \ {Top(S)}], first, entries[i + ix[Top(S)]])
    BY DEF RowFold
  <1>2. f[1..0] = base
    <2>1. (1..0) \in SUBSET (1..n) /\ (1..0) = {}
      OBVIOUS
    <2> QED BY <1>1, <2>1
  <1>3. ASSUME NEW m \in 1..n PROVE f[1..m] = Compared(f[1..(m - 1)], first, entries[i + ix[m]])
    <2>1. /\ (1..m) \in SUBSET (1..n) /\ (1..m) # {}
          /\ Top(1..m) = m /\ (1..m) \ {m} = 1..(m - 1)
      BY UpToItsTop
    <2> QED BY <1>1, <2>1
  <1> QED
    BY <1>2, <1>3

(* The states a row goes through. *)
RowRun(g, entries, s, i) ==
    /\ g[0] = [s EXCEPT !.slot = entries[i]]
    /\ \A m \in 1..(Len(entries) - i) : g[m] = Compared(g[m - 1], entries[i].id, entries[i + m])
    /\ CompareRow(entries, s, i) = g[Len(entries) - i]

LEMMA RowRuns ==
    ASSUME NEW entries, NEW s, NEW i, Len(entries) - i \in Nat, entries[i].id \notin s.processed
    PROVE  \E g : RowRun(g, entries, s, i)
  <1> DEFINE n == Len(entries) - i
             base == [s EXCEPT !.slot = entries[i]]
             ix == [k \in 1..n |-> k]
             f == CHOOSE f : RowFold(f, DOMAIN ix, base, entries[i].id, entries, i, ix)
             g == [m \in 0..n |-> f[1..m]]
  <1>1. CompareRow(entries, s, i) = f[DOMAIN ix]
    BY DEF CompareRow, FoldLeft, MapThenFoldSet, RowFold, Top, Max
  <1>2. DOMAIN ix = 1..n /\ \A m \in 1..n : ix[m] = m
    OBVIOUS
  <1>3. n \in Nat
    OBVIOUS
  <1> HIDE DEF n, base, ix
  <1>9. \A first : \E h : RowFold(h, 1..n, base, first, entries, i, ix)
    BY <1>3, RowFoldIsThere
  <1>4. \E h : RowFold(h, DOMAIN ix, base, entries[i].id, entries, i, ix)
    BY <1>2, <1>9
  <1>5. RowFold(f, 1..n, base, entries[i].id, entries, i, ix)
    BY <1>2, <1>4
  <1> HIDE DEF f
  <1>6. /\ f[1..0] = base
        /\ \A m \in 1..n : f[1..m] = Compared(f[1..(m - 1)], entries[i].id, entries[i + ix[m]])
    BY <1>3, <1>5, RowFoldSteps
  <1>7. g[0] = base /\ g[n] = f[1..n] /\ \A m \in 1..n : g[m] = f[1..m] /\ g[m - 1] = f[1..(m - 1)]
    BY <1>3, <1>6
  <1> HIDE DEF g
  <1>8. \A m \in 1..n : g[m] = Compared(g[m - 1], entries[i].id, entries[i + m])
    BY <1>2, <1>6, <1>7
  <1> QED
    BY <1>1, <1>2, <1>7, <1>8 DEF base, n, RowRun

(* The fold of all rows, and its values on 1..m. *)
AllFold(f, dom, base, entries, ix) ==
    f = [S \in SUBSET dom |->
            IF S = {} THEN base
            ELSE CompareRow(entries, f[S \ {Top(S)}], ix[Top(S)])]

LEMMA AllFoldIsThere ==
    ASSUME NEW n \in Nat, NEW base, NEW entries, NEW ix
    PROVE  \E f : AllFold(f, 1..n, base, entries, ix)
  <1> DEFINE T == {m \in 0..n : \E f : AllFold(f, 1..m, base, entries, ix)}
  <1>1. 0 \in T
    <2> DEFINE f == [S \in SUBSET (1..0) |-> base]
    <2>1. \A S \in SUBSET (1..0) : S = {}
      OBVIOUS
    <2>2. f = [S \in SUBSET (1..0) |->
                  IF S = {} THEN base ELSE CompareRow(entries, f[S \ {Top(S)}], ix[Top(S)])]
      BY <2>1
    <2> HIDE DEF f
    <2>3. AllFold(f, 1..0, base, entries, ix)
      BY <2>2 DEF AllFold
    <2> QED BY <2>3
  <1>2. ASSUME NEW k \in 1..n, k - 1 \in T PROVE k \in T
    <2>1. PICK f : AllFold(f, 1..k - 1, base, entries, ix)
      BY <1>2
    <2>2. \A S \in SUBSET (1..(k - 1)) :
             f[S] = IF S = {} THEN base ELSE CompareRow(entries, f[S \ {Top(S)}], ix[Top(S)])
      BY <2>1 DEF AllFold
    <2> DEFINE g == [S \in SUBSET (1..k) |->
                        IF k \in S THEN CompareRow(entries, f[S \ {k}], ix[k]) ELSE f[S]]
    <2>3. ASSUME NEW S \in SUBSET (1..k)
          PROVE  g[S] = IF S = {} THEN base
                        ELSE CompareRow(entries, g[S \ {Top(S)}], ix[Top(S)])
      <3>1. CASE k \in S
        <4>1. Top(S) = k
          BY <3>1, TopIs
        <4>2. S \ {k} \in SUBSET (1..k) /\ k \notin S \ {k} /\ S # {}
          BY <3>1
        <4>3. g[S \ {k}] = f[S \ {k}]
          BY <4>2
        <4>4. g[S] = CompareRow(entries, f[S \ {k}], ix[k])
          BY <3>1
        <4> HIDE DEF g
        <4> QED BY <4>1, <4>2, <4>3, <4>4
      <3>2. CASE k \notin S
        <4>1. S \in SUBSET (1..(k - 1)) /\ S \ {Top(S)} \in SUBSET (1..(k - 1))
          BY <3>2, Below
        <4>2. S \ {Top(S)} \in SUBSET (1..k) /\ k \notin S \ {Top(S)}
          BY <3>2
        <4>3. g[S \ {Top(S)}] = f[S \ {Top(S)}]
          BY <4>2
        <4>4. g[S] = f[S]
          BY <3>2
        <4> HIDE DEF g
        <4> QED BY <2>2, <4>1, <4>3, <4>4
      <3> QED BY <3>1, <3>2
    <2>4. g = [S \in SUBSET (1..k) |->
                  IF S = {} THEN base ELSE CompareRow(entries, g[S \ {Top(S)}], ix[Top(S)])]
      <3>1. g = [S \in SUBSET (1..k) |-> g[S]]
        OBVIOUS
      <3> HIDE DEF g
      <3> QED BY <2>3, <3>1
    <2> HIDE DEF g
    <2>5. AllFold(g, 1..k, base, entries, ix)
      BY <2>4 DEF AllFold
    <2> QED BY <2>5
  <1> HIDE DEF T
  <1>3. n \in T
    BY <1>1, <1>2, UpTo
  <1> QED
    BY <1>3 DEF T

LEMMA AllFoldSteps ==
    ASSUME NEW n \in Nat, NEW base, NEW entries, NEW ix, NEW f,
           AllFold(f, 1..n, base, entries, ix)
    PROVE  /\ f[1..0] = base
           /\ \A m \in 1..n : f[1..m] = CompareRow(entries, f[1..(m - 1)], ix[m])
  <1>1. \A S \in SUBSET (1..n) :
           f[S] = IF S = {} THEN base ELSE CompareRow(entries, f[S \ {Top(S)}], ix[Top(S)])
    BY DEF AllFold
  <1>2. f[1..0] = base
    <2>1. (1..0) \in SUBSET (1..n) /\ (1..0) = {}
      OBVIOUS
    <2> QED BY <1>1, <2>1
  <1>3. ASSUME NEW m \in 1..n PROVE f[1..m] = CompareRow(entries, f[1..(m - 1)], ix[m])
    <2>1. /\ (1..m) \in SUBSET (1..n) /\ (1..m) # {}
          /\ Top(1..m) = m /\ (1..m) \ {m} = 1..(m - 1)
      BY UpToItsTop
    <2> QED BY <1>1, <2>1
  <1> QED
    BY <1>2, <1>3

LEMMA AllRuns ==
    ASSUME NEW scope, Len(Active(scope)) \in Nat
    PROVE  \E g : /\ g[0] = [slot |-> [id |-> 0], updates |-> <<>>, processed |-> {}]
                  /\ \A m \in 1..Len(Active(scope)) : g[m] = CompareRow(Active(scope), g[m - 1], m)
                  /\ CompactEntries(scope) =
                       {g[Len(Active(scope))].updates[k] : k \in DOMAIN g[Len(Active(scope))].updates}
  <1> DEFINE entries == Active(scope)
             n == Len(entries)
             base == [slot |-> [id |-> 0], updates |-> <<>>, processed |-> {}]
             ix == [i \in 1..n |-> i]
             f == CHOOSE f : AllFold(f, DOMAIN ix, base, entries, ix)
             g == [m \in 0..n |-> f[1..m]]
  <1>1. CompactEntries(scope) = {f[DOMAIN ix].updates[k] : k \in DOMAIN f[DOMAIN ix].updates}
    BY DEF CompactEntries, FoldLeft, MapThenFoldSet, AllFold, Top, Max
  <1>2. DOMAIN ix = 1..n /\ \A m \in 1..n : ix[m] = m
    OBVIOUS
  <1>3. n \in Nat
    OBVIOUS
  <1> HIDE DEF n, base, ix, entries
  <1>4. \E h : AllFold(h, DOMAIN ix, base, entries, ix)
    BY <1>2, <1>3, AllFoldIsThere
  <1>5. AllFold(f, 1..n, base, entries, ix)
    BY <1>2, <1>4
  <1> HIDE DEF f
  <1>6. /\ f[1..0] = base
        /\ \A m \in 1..n : f[1..m] = CompareRow(entries, f[1..(m - 1)], ix[m])
    BY <1>3, <1>5, AllFoldSteps
  <1>7. g[0] = base /\ g[n] = f[1..n] /\ \A m \in 1..n : g[m] = f[1..m] /\ g[m - 1] = f[1..(m - 1)]
    BY <1>3, <1>6
  <1> HIDE DEF g
  <1>8. \A m \in 1..n : g[m] = CompareRow(entries, g[m - 1], m)
    BY <1>2, <1>6, <1>7
  <1>9. f[DOMAIN ix] = g[n]
    BY <1>2, <1>7
  <1> QED
    BY <1>1, <1>7, <1>8, <1>9 DEF base, n, entries

-----------------------------------------------------------------------------
(* The entries a compaction looks at. *)

Increasing(s) == \A i, j \in DOMAIN s : i < j => s[i] < s[j]

LEMMA InOrderIs ==
    ASSUME NEW n \in Nat, NEW ids \in SUBSET (1..n)
    PROVE  /\ Cardinality(ids) \in Nat
           /\ InOrder(ids) \in [1..Cardinality(ids) -> ids]
           /\ Increasing(InOrder(ids))
  <1> DEFINE Some(k) == \E s \in [1..Cardinality(ids \cap 1..k) -> ids \cap 1..k] : Increasing(s)
             T == {k \in 0..n : Some(k)}
  <1>1. \A k \in 0..n : IsFiniteSet(ids \cap 1..k) /\ Cardinality(ids \cap 1..k) \in Nat
    <2> SUFFICES ASSUME NEW k \in 0..n
                 PROVE  IsFiniteSet(ids \cap 1..k) /\ Cardinality(ids \cap 1..k) \in Nat
      OBVIOUS
    <2>1. IsFiniteSet(1..k)
      BY FS_Interval
    <2>2. ids \cap 1..k \subseteq 1..k
      OBVIOUS
    <2> QED BY <2>1, <2>2, FS_Subset, FS_CardinalityType
  <1>2. 0 \in T
    <2>1. ids \cap 1..0 = {}
      OBVIOUS
    <2>2. Cardinality(ids \cap 1..0) = 0
      BY <2>1, FS_EmptySet
    <2> DEFINE s == [i \in 1..0 |-> 1]
    <2>3. s \in [1..0 -> ids \cap 1..0] /\ Increasing(s)
      BY DEF Increasing
    <2> HIDE DEF s
    <2>4. Some(0)
      BY <2>2, <2>3
    <2> QED BY <2>4
  <1>3. ASSUME NEW k \in 1..n, k - 1 \in T PROVE k \in T
    <2>1. CASE k \notin ids
      <3>1. ids \cap 1..k = ids \cap 1..(k - 1)
        BY <2>1
      <3>2. Some(k - 1)
        BY <1>3
      <3>3. Some(k)
        BY <3>1, <3>2
      <3> HIDE DEF Some
      <3> QED BY <3>3
    <2>2. CASE k \in ids
      <3> DEFINE old == ids \cap 1..(k - 1)
                 c == Cardinality(old)
      <3>1. ids \cap 1..k = old \cup {k} /\ k \notin old
        BY <2>2
      <3>2. IsFiniteSet(old) /\ c \in Nat
        BY <1>1
      <3>3. Cardinality(ids \cap 1..k) = c + 1
        <4> HIDE DEF old
        <4> QED BY <3>1, <3>2, FS_AddElement
      <3>4. PICK s \in [1..c -> old] : Increasing(s)
        BY <1>3
      <3> DEFINE t == [i \in 1..(c + 1) |-> IF i = c + 1 THEN k ELSE s[i]]
      <3>5. \A i \in old : i \in Nat /\ i < k /\ k \in Nat
        OBVIOUS
      <3> HIDE DEF old, c
      <3>6. t \in [1..(c + 1) -> old \cup {k}]
        BY <3>2, <3>4
      <3>7. Increasing(t)
        <4>1. ASSUME NEW i \in 1..(c + 1), NEW j \in 1..(c + 1), i < j PROVE t[i] < t[j]
          <5>1. i \in 1..c /\ t[i] = s[i] /\ s[i] \in old
            BY <3>2, <3>4, <4>1
          <5>2. CASE j = c + 1
            BY <3>5, <5>1, <5>2
          <5>3. CASE j # c + 1
            <6>1. j \in 1..c /\ t[j] = s[j]
              BY <3>2, <4>1, <5>3
            <6> QED BY <3>4, <4>1, <5>1, <6>1 DEF Increasing
          <5> QED BY <5>2, <5>3
        <4> QED BY <4>1 DEF Increasing
      <3> HIDE DEF t
      <3>8. Some(k)
        BY <3>1, <3>3, <3>6, <3>7
      <3> HIDE DEF Some
      <3> QED BY <3>8
    <2> QED BY <2>1, <2>2
  <1> HIDE DEF T
  <1>4. n \in T
    BY <1>2, <1>3, UpTo
  <1>5. ids \cap 1..n = ids
    OBVIOUS
  <1>6. \E s \in [1..Cardinality(ids) -> ids] : \A i, j \in DOMAIN s : i < j => s[i] < s[j]
    BY <1>4, <1>5 DEF T, Increasing
  <1>7. Cardinality(ids) \in Nat
    BY <1>1, <1>5
  <1> QED
    BY <1>6, <1>7 DEF InOrder, Increasing

ActiveIds(scope) == {i \in Ids : Live(kb[i]) /\ (scope = "all" \/ kb[i].scope = scope)}

LEMMA ActiveIs ==
    ASSUME Len(kb) \in Nat, NEW scope
    PROVE  /\ Len(Active(scope)) \in Nat
           /\ \A k \in 1..Len(Active(scope)) :
                 /\ Active(scope)[k].id \in ActiveIds(scope)
                 /\ Active(scope)[k] = [id |-> Active(scope)[k].id, e |-> kb[Active(scope)[k].id]]
           /\ \A j, k \in 1..Len(Active(scope)) :
                 j < k => Active(scope)[j].id < Active(scope)[k].id
  <1> DEFINE ids == ActiveIds(scope)
             s == InOrder(ids)
  <1>1. ids \in SUBSET (1..Len(kb))
    BY DEF ActiveIds, Ids
  <1>2. Cardinality(ids) \in Nat /\ s \in [1..Cardinality(ids) -> ids] /\ Increasing(s)
    <2> HIDE DEF ids
    <2> QED BY <1>1, InOrderIs
  <1>3. Active(scope) = [k \in DOMAIN s |-> [id |-> s[k], e |-> kb[s[k]]]]
    BY DEF Active, EntriesOf, ActiveIds
  <1> DEFINE a == Active(scope)
  <1> HIDE DEF s, ids
  <1>4. a = [k \in 1..Cardinality(ids) |-> [id |-> s[k], e |-> kb[s[k]]]]
    BY <1>2, <1>3
  <1> HIDE DEF a
  <1>5. Len(a) = Cardinality(ids)
    BY <1>2, <1>4
  <1>6. \A k \in 1..Len(a) : a[k].id = s[k] /\ a[k] = [id |-> s[k], e |-> kb[s[k]]] /\ s[k] \in ids
    BY <1>2, <1>4, <1>5
  <1>7. \A j, k \in 1..Len(a) : j < k => s[j] < s[k]
    BY <1>2, <1>5 DEF Increasing
  <1> QED
    BY <1>2, <1>5, <1>6, <1>7 DEF a, ids

-----------------------------------------------------------------------------
(* What holds while a compaction is worked out.  A are the ids of the       *)
(* entries looked at.                                                      *)

Words == UNION {note.topic \cup note.content : note \in kscene.notes}
Scores == {500} \cup {WilsonScore[x] : x \in Nat \X Nat}
Statuses == {"contributed", "confirmed", "disputed", "stale", "retired"}

EntryRecords ==
    [topic: SUBSET Words, scope: {note.scope : note \in kscene.notes}, content: SUBSET Words,
     tier: {2} \cup kscene.tiers, st: Statuses, use: Nat, miss: Nat, conf: Scores,
     merged: BOOLEAN, idle: 0..3, since: 0..3]

CounterRule(e) ==
    ~ e.merged /\ Live(e) => /\ e.miss < 2
                             /\ e.st = "contributed" => e.use < 3 \/ e.miss > 0

SameText(a, b) == a.topic = b.topic /\ a.content = b.content

(* Every entry that is discarded says what one says that is kept.           *)
SaidAgain(processed, A) == \A x \in processed : \E y \in A \ processed : SameText(kb[x], kb[y])

(* An entry to write: it says what the entry says, and is retired only if   *)
(* another is kept.                                                        *)
Filed(u, A, processed) ==
    /\ u \in [id: A, e: EntryRecords]
    /\ CounterRule(u.e)
    /\ SameText(u.e, kb[u.id])
    /\ Live(u.e) \/ u.id \in processed

Between(s, A) ==
    /\ s = [slot |-> s.slot, updates |-> s.updates, processed |-> s.processed]
    /\ s.processed \in SUBSET A
    /\ \A k \in DOMAIN s.updates : Filed(s.updates[k], A, s.processed)
    /\ SaidAgain(s.processed, A)

InRow(s, A, next) ==
    /\ Between(s, A)
    /\ s.slot \in [id: A, e: EntryRecords]
    /\ CounterRule(s.slot.e)
    /\ SameText(s.slot.e, kb[s.slot.id])
    /\ Live(s.slot.e)
    /\ s.slot.id \notin s.processed
    /\ s.slot.id < next

LEMMA MergesCopiesOnly ==
    ASSUME NEW a, NEW b, ShouldMerge(a, b) PROVE SameText(a, b)
  <1>1. GetConfidence(a) = 500 /\ GetConfidence(b) = 500 /\ ~ (500 > 500)
    BY DEF GetConfidence
  <1>2. DetectRelationship(a, b) = "exact_duplicate"
    BY <1>1 DEF ShouldMerge
  <1> QED
    BY <1>2 DEF DetectRelationship, SameTopic, SameText

LEMMA FoundAgain ==
    ASSUME NEW updates, NEW id, NEW u
    PROVE  \A k \in DOMAIN Filing(updates, id, u) :
              \/ Filing(updates, id, u)[k] = u
              \/ k \in DOMAIN updates /\ Filing(updates, id, u)[k] = updates[k]
  BY DEF Filing

LEMMA RetiredFiled ==
    ASSUME NEW A, NEW x \in [id: A, e: EntryRecords], SameText(x.e, kb[x.id]), NEW processed, x.id \in processed
    PROVE  Filed([x EXCEPT !.e.st = "retired"], A, processed)
  <1> DEFINE u == [x EXCEPT !.e.st = "retired"]
  <1>1. u.id = x.id /\ u.e = [x.e EXCEPT !.st = "retired"] /\ u = [id |-> u.id, e |-> u.e]
    OBVIOUS
  <1>2. u.e \in EntryRecords /\ u.e.st = "retired" /\ SameText(u.e, x.e)
    BY DEF EntryRecords, Statuses, SameText
  <1> HIDE DEF u
  <1> QED
    BY <1>1, <1>2 DEF Filed, CounterRule, Live, SameText

LEMMA DisputedFiled ==
    ASSUME NEW A, NEW x \in [id: A, e: EntryRecords], SameText(x.e, kb[x.id]), CounterRule(x.e),
           Live(x.e), NEW processed
    PROVE  Filed([x EXCEPT !.e.st = "disputed"], A, processed)
  <1> DEFINE u == [x EXCEPT !.e.st = "disputed"]
  <1>1. u.id = x.id /\ u.e = [x.e EXCEPT !.st = "disputed"] /\ u = [id |-> u.id, e |-> u.e]
    OBVIOUS
  <1>2. /\ u.e \in EntryRecords /\ u.e.st = "disputed" /\ SameText(u.e, x.e)
        /\ u.e.miss = x.e.miss /\ u.e.merged = x.e.merged
    BY DEF EntryRecords, Statuses, SameText
  <1> HIDE DEF u
  <1> QED
    BY <1>1, <1>2 DEF Filed, CounterRule, Live, SameText

LEMMA MergedFiled ==
    ASSUME NEW A, NEW x \in [id: A, e: EntryRecords], SameText(x.e, kb[x.id]), Live(x.e),
           NEW uses \in Nat, NEW misses \in Nat, NEW processed
    PROVE  LET u == [x EXCEPT !.e.use = uses, !.e.miss = misses, !.e.merged = TRUE] IN
           Filed(u, A, processed) /\ Live(u.e) /\ u.id = x.id
  <1> DEFINE u1 == [x EXCEPT !.e.use = uses]
             u2 == [u1 EXCEPT !.e.miss = misses]
             u == [u2 EXCEPT !.e.merged = TRUE]
  <1>1. /\ u1 \in [id: A, e: EntryRecords] /\ u1.id = x.id
        /\ u1.e.st = x.e.st /\ SameText(u1.e, x.e)
    BY DEF EntryRecords, SameText
  <1> HIDE DEF u1
  <1>2. /\ u2 \in [id: A, e: EntryRecords] /\ u2.id = x.id
        /\ u2.e.st = x.e.st /\ SameText(u2.e, x.e)
    BY <1>1 DEF EntryRecords, SameText
  <1> HIDE DEF u2
  <1>3. /\ u \in [id: A, e: EntryRecords] /\ u.id = x.id
        /\ u.e.st = x.e.st /\ SameText(u.e, x.e) /\ u.e.merged = TRUE
    BY <1>2 DEF EntryRecords, SameText
  <1> HIDE DEF u
  <1>4. Filed(u, A, processed) /\ Live(u.e) /\ u.id = x.id
    BY <1>3 DEF Filed, CounterRule, Live, SameText
  <1> QED
    BY <1>4 DEF u, u1, u2

LEMMA MergeIs ==
    ASSUME NEW A,
           NEW a \in [id: A, e: EntryRecords], SameText(a.e, kb[a.id]), Live(a.e),
           NEW b \in [id: A, e: EntryRecords], SameText(b.e, kb[b.id]), Live(b.e)
    PROVE  LET m == MergeEntries(a, b) IN
           /\ \/ m.kept.id = a.id /\ m.discarded.id = b.id
              \/ m.kept.id = b.id /\ m.discarded.id = a.id
           /\ Live(m.kept.e)
           /\ \A processed : Filed(m.kept, A, processed)
           /\ \A processed : m.discarded.id \in processed => Filed(m.discarded, A, processed)
  <1> DEFINE uses == a.e.use + b.e.use
             misses == a.e.miss + b.e.miss
             kept(x) == [x EXCEPT !.e.use = uses, !.e.miss = misses, !.e.merged = TRUE]
             discarded(x) == [x EXCEPT !.e.st = "retired"]
             m == MergeEntries(a, b)
  <1>1. \/ m = [kept |-> kept(a), discarded |-> discarded(b)]
        \/ m = [kept |-> kept(b), discarded |-> discarded(a)]
    BY DEF MergeEntries
  <1>2. uses \in Nat /\ misses \in Nat
    BY DEF EntryRecords
  <1> HIDE DEF uses, misses
  <1>3. \A processed : /\ Filed(kept(a), A, processed) /\ Live(kept(a).e) /\ kept(a).id = a.id
                       /\ Filed(kept(b), A, processed) /\ Live(kept(b).e) /\ kept(b).id = b.id
    <2>1. \A processed : Filed(kept(a), A, processed) /\ Live(kept(a).e) /\ kept(a).id = a.id
      BY <1>2, MergedFiled
    <2>2. \A processed : Filed(kept(b), A, processed) /\ Live(kept(b).e) /\ kept(b).id = b.id
      BY <1>2, MergedFiled
    <2> QED BY <2>1, <2>2
  <1>4. \A processed : /\ a.id \in processed => Filed(discarded(a), A, processed)
                       /\ b.id \in processed => Filed(discarded(b), A, processed)
    BY RetiredFiled
  <1>5. discarded(a).id = a.id /\ discarded(b).id = b.id
    OBVIOUS
  <1> HIDE DEF kept, discarded, m
  <1>6. CASE m = [kept |-> kept(a), discarded |-> discarded(b)]
    BY <1>3, <1>4, <1>5, <1>6 DEF m
  <1>7. CASE m = [kept |-> kept(b), discarded |-> discarded(a)]
    BY <1>3, <1>4, <1>5, <1>7 DEF m
  <1> QED
    BY <1>1, <1>6, <1>7

(* Who is retired in addition: what was filed stays as it should be. *)
LEMMA FiledStays ==
    ASSUME NEW u, NEW A, NEW processed, NEW more, Filed(u, A, processed), processed \subseteq more
    PROVE  Filed(u, A, more)
  BY DEF Filed

LEMMA AnotherSays ==
    ASSUME NEW A, NEW processed \in SUBSET A,
           SaidAgain(processed, A), NEW kept \in A \ processed, NEW gone \in A \ processed, kept # gone, SameText(kb[gone], kb[kept])
    PROVE  SaidAgain(processed \cup {gone}, A)
  <1>1. kept \in A \ (processed \cup {gone})
    OBVIOUS
  <1> SUFFICES ASSUME NEW x \in processed \cup {gone}
               PROVE  \E y \in A \ (processed \cup {gone}) : SameText(kb[x], kb[y])
    BY DEF SaidAgain
  <1>2. CASE x = gone
    BY <1>1, <1>2
  <1>3. CASE x \in processed
    <2>1. PICK y \in A \ processed : SameText(kb[x], kb[y])
      BY <1>3 DEF SaidAgain
    <2>2. CASE y = gone
      BY <1>1, <2>1, <2>2 DEF SameText
    <2>3. CASE y # gone
      BY <2>1, <2>3
    <2> QED BY <2>2, <2>3
  <1> QED
    BY <1>2, <1>3

LEMMA ComparedKeeps ==
    ASSUME NEW A \in SUBSET Nat, NEW s, NEW first,
           NEW b \in [id: A, e: EntryRecords], SameText(b.e, kb[b.id]), Live(b.e), CounterRule(b.e),
           InRow(s, A, b.id)
    PROVE  InRow(Compared(s, first, b), A, b.id + 1)
  <1> USE DEF InRow
  <1>0. b.id \in Nat /\ b.id \in A /\ s.slot.id \in Nat /\ s.slot.id # b.id /\ s.slot.id < b.id + 1
    <2>1. b.id \in A /\ s.slot.id \in A /\ s.slot.id < b.id
      OBVIOUS
    <2>2. \A p, q \in Nat : p < q => p # q /\ p < q + 1
      OBVIOUS
    <2> QED BY <2>1, <2>2
  <1>1. CASE b.id \in s.processed
    <2>1. Compared(s, first, b) = s
      BY <1>1 DEF Compared
    <2> QED BY <1>0, <2>1
  <1>2. CASE b.id \notin s.processed /\ ShouldMerge(s.slot.e, b.e)
    <2> DEFINE m == MergeEntries(s.slot, b)
               r == Compared(s, first, b)
               gone == m.discarded.id
               more == s.processed \cup {gone}
    <2>1. r = [slot |-> m.kept,
               updates |-> Filing(Filing(s.updates, m.kept.id, m.kept), gone, m.discarded),
               processed |-> more]
      BY <1>2 DEF Compared
    <2>2. SameText(s.slot.e, b.e)
      BY <1>2, MergesCopiesOnly
    <2>3. /\ \/ m.kept.id = s.slot.id /\ gone = b.id
             \/ m.kept.id = b.id /\ gone = s.slot.id
          /\ Live(m.kept.e)
          /\ \A processed : Filed(m.kept, A, processed)
          /\ \A processed : gone \in processed => Filed(m.discarded, A, processed)
      BY MergeIs
    <2> HIDE DEF m, r
    <2>4. /\ m.kept.id \in A \ s.processed /\ gone \in A \ s.processed /\ gone # m.kept.id
          /\ SameText(kb[gone], kb[m.kept.id]) /\ m.kept.id < b.id + 1
      <3>1. SameText(kb[s.slot.id], kb[b.id]) /\ SameText(kb[b.id], kb[s.slot.id])
        BY <2>2 DEF SameText
      <3>2. s.slot.id \in A \ s.processed /\ b.id \in A \ s.processed
        BY <1>0, <1>2
      <3>3. b.id < b.id + 1
        BY <1>0
      <3>4. CASE m.kept.id = s.slot.id /\ gone = b.id
        BY <1>0, <3>1, <3>2, <3>4
      <3>5. CASE m.kept.id = b.id /\ gone = s.slot.id
        BY <1>0, <3>1, <3>2, <3>3, <3>5
      <3> QED BY <2>3, <3>4, <3>5
    <2> HIDE DEF gone
    <2>5. SaidAgain(more, A)
      <3>1. s.processed \in SUBSET A /\ SaidAgain(s.processed, A)
        BY DEF Between
      <3> HIDE DEF InRow
      <3> QED BY <2>4, <3>1, AnotherSays
    <2>6. \A k \in DOMAIN r.updates : Filed(r.updates[k], A, more)
      <3> SUFFICES ASSUME NEW k \in DOMAIN r.updates PROVE Filed(r.updates[k], A, more)
        OBVIOUS
      <3> DEFINE once == Filing(s.updates, m.kept.id, m.kept)
      <3>1. \/ r.updates[k] = m.discarded
            \/ k \in DOMAIN once /\ r.updates[k] = once[k]
        BY <2>1, FoundAgain
      <3>2. k \in DOMAIN once => \/ once[k] = m.kept
                                 \/ k \in DOMAIN s.updates /\ once[k] = s.updates[k]
        BY FoundAgain
      <3>3. k \in DOMAIN s.updates => Filed(s.updates[k], A, more)
        BY FiledStays DEF Between
      <3> HIDE DEF once
      <3> QED BY <2>3, <3>1, <3>2, <3>3
    <2>7. /\ r = [slot |-> r.slot, updates |-> r.updates, processed |-> r.processed]
          /\ r.slot = m.kept /\ r.processed = more
      BY <2>1
    <2>8. more \in SUBSET A
      BY <2>4 DEF Between
    <2>9. Between(r, A)
      BY <2>5, <2>6, <2>7, <2>8 DEF Between
    <2>10. m.kept \in [id: A, e: EntryRecords] /\ CounterRule(m.kept.e) /\ SameText(m.kept.e, kb[m.kept.id])
      BY <2>3 DEF Filed
    <2>11. m.kept.id \notin more
      BY <2>4
    <2> HIDE DEF more
    <2> QED BY <2>3, <2>4, <2>7, <2>9, <2>10, <2>11 DEF r
  <1>3. CASE /\ b.id \notin s.processed /\ ~ ShouldMerge(s.slot.e, b.e)
             /\ DetectRelationship(s.slot.e, b.e) = "contradiction"
    <2> DEFINE r == Compared(s, first, b)
               x == [s.slot EXCEPT !.e.st = "disputed"]
               y == [b EXCEPT !.e.st = "disputed"]
               once == Filing(s.updates, first, x)
    <2>1. r = [s EXCEPT !.updates = Filing(once, b.id, y)]
      BY <1>3 DEF Compared
    <2>2. Filed(x, A, s.processed) /\ Filed(y, A, s.processed)
      BY DisputedFiled
    <2> HIDE DEF r, x, y
    <2>3. /\ r = [slot |-> r.slot, updates |-> r.updates, processed |-> r.processed]
          /\ r.slot = s.slot /\ r.processed = s.processed /\ r.updates = Filing(once, b.id, y)
      BY <2>1 DEF Between
    <2>4. \A k \in DOMAIN r.updates : Filed(r.updates[k], A, s.processed)
      <3> SUFFICES ASSUME NEW k \in DOMAIN r.updates PROVE Filed(r.updates[k], A, s.processed)
        OBVIOUS
      <3>1. \/ r.updates[k] = y
            \/ k \in DOMAIN once /\ r.updates[k] = once[k]
        BY <2>3, FoundAgain
      <3>2. k \in DOMAIN once => \/ once[k] = x
                                 \/ k \in DOMAIN s.updates /\ once[k] = s.updates[k]
        BY FoundAgain
      <3> HIDE DEF once
      <3> QED BY <2>2, <3>1, <3>2 DEF Between
    <2>5. Between(r, A)
      BY <2>3, <2>4 DEF Between
    <2> QED BY <1>0, <2>3, <2>5 DEF r
  <1>4. CASE /\ b.id \notin s.processed /\ ~ ShouldMerge(s.slot.e, b.e)
             /\ DetectRelationship(s.slot.e, b.e) # "contradiction"
    <2>1. Compared(s, first, b) = s
      BY <1>4 DEF Compared
    <2> QED BY <1>0, <2>1
  <1> QED
    BY <1>1, <1>2, <1>3, <1>4

LEMMA ActiveEntry ==
    ASSUME kb \in Seq(EntryRecords), \A i \in Ids : CounterRule(kb[i]), NEW scope,
           NEW k \in 1..Len(Active(scope))
    PROVE  /\ Active(scope)[k] \in [id: ActiveIds(scope), e: EntryRecords]
           /\ SameText(Active(scope)[k].e, kb[Active(scope)[k].id])
           /\ Live(Active(scope)[k].e)
           /\ CounterRule(Active(scope)[k].e)
  <1> DEFINE b == Active(scope)[k]
  <1>1. Len(kb) \in Nat
    OBVIOUS
  <1>2. b.id \in ActiveIds(scope) /\ b = [id |-> b.id, e |-> kb[b.id]]
    BY <1>1, ActiveIs
  <1> HIDE DEF b
  <1>3. b.id \in Ids /\ Live(kb[b.id])
    BY <1>2 DEF ActiveIds
  <1>4. kb[b.id] \in EntryRecords
    BY <1>3 DEF Ids
  <1>5. b.e = kb[b.id]
    BY <1>2
  <1>6. b \in [id: ActiveIds(scope), e: EntryRecords]
    BY <1>2, <1>4
  <1> QED
    BY <1>3, <1>5, <1>6 DEF b, SameText

LEMMA RowBegins ==
    ASSUME NEW A \in SUBSET Nat, NEW s, Between(s, A),
           NEW b \in [id: A, e: EntryRecords], SameText(b.e, kb[b.id]), Live(b.e), CounterRule(b.e),
           b.id \notin s.processed
    PROVE  InRow([s EXCEPT !.slot = b], A, b.id + 1)
  <1> DEFINE r == [s EXCEPT !.slot = b]
  <1>1. /\ r = [slot |-> r.slot, updates |-> r.updates, processed |-> r.processed]
        /\ r.slot = b /\ r.updates = s.updates /\ r.processed = s.processed
    BY DEF Between
  <1> HIDE DEF r
  <1>2. Between(r, A)
    BY <1>1 DEF Between
  <1>3. \A p \in Nat : p < p + 1
    OBVIOUS
  <1> QED
    BY <1>1, <1>2, <1>3 DEF r, InRow

LEMMA RowKeeps ==
    ASSUME kb \in Seq(EntryRecords), \A i \in Ids : CounterRule(kb[i]), NEW scope,
           NEW i \in 1..Len(Active(scope)), NEW s, Between(s, ActiveIds(scope))
    PROVE  Between(CompareRow(Active(scope), s, i), ActiveIds(scope))
  <1> DEFINE entries == Active(scope)
             A == ActiveIds(scope)
             n == Len(entries) - i
  <1>1. Len(kb) \in Nat
    OBVIOUS
  <1>2. Len(entries) \in Nat /\ \A j, k \in 1..Len(entries) : j < k => entries[j].id < entries[k].id
    BY <1>1, ActiveIs
  <1>3. \A k \in 1..Len(entries) : /\ entries[k] \in [id: A, e: EntryRecords]
                                   /\ SameText(entries[k].e, kb[entries[k].id])
                                   /\ Live(entries[k].e)
                                   /\ CounterRule(entries[k].e)
    BY ActiveEntry
  <1>4. A \in SUBSET Nat
    BY <1>1 DEF ActiveIds, Ids
  <1>5. n \in Nat /\ \A m \in 0..n : i + m \in 1..Len(entries)
    BY <1>2
  <1> HIDE DEF A, entries, n
  <1>6. CASE entries[i].id \in s.processed
    <2>1. CompareRow(entries, s, i) = s
      BY <1>6 DEF CompareRow
    <2> QED BY <2>1 DEF entries
  <1>7. CASE entries[i].id \notin s.processed
    <2>1. PICK g : /\ g[0] = [s EXCEPT !.slot = entries[i]]
                   /\ \A m \in 1..n : g[m] = Compared(g[m - 1], entries[i].id, entries[i + m])
                   /\ CompareRow(entries, s, i) = g[n]
      <3>1. \E g : RowRun(g, entries, s, i)
        BY <1>5, <1>7, RowRuns DEF n
      <3> QED BY <3>1 DEF RowRun, n
    <2> DEFINE T == {m \in 0..n : InRow(g[m], A, entries[i + m].id + 1)}
    <2>2. 0 \in T
      <3>1. i \in 1..Len(entries) /\ i + 0 = i
        BY DEF entries
      <3>2. Between(s, A)
        BY DEF A
      <3>3. InRow(g[0], A, entries[i].id + 1)
        BY <1>3, <1>4, <1>7, <2>1, <3>1, <3>2, RowBegins
      <3> QED BY <1>5, <3>1, <3>3
    <2>3. ASSUME NEW m \in 1..n, m - 1 \in T PROVE m \in T
      <3> DEFINE b == entries[i + m]
                 a == entries[i + (m - 1)]
      <3>1. m - 1 \in 0..n /\ m \in 0..n /\ i + (m - 1) < i + m
        BY <1>5
      <3>2. i + m \in 1..Len(entries) /\ i + (m - 1) \in 1..Len(entries)
        BY <1>5, <3>1
      <3>3. a.id < b.id
        BY <1>2, <3>1, <3>2
      <3>4. b \in [id: A, e: EntryRecords] /\ SameText(b.e, kb[b.id]) /\ Live(b.e) /\ CounterRule(b.e)
        BY <1>3, <3>2
      <3>5. a.id \in Nat /\ b.id \in Nat
        <4>1. a \in [id: A, e: EntryRecords]
          BY <1>3, <3>2
        <4> QED BY <1>4, <3>4, <4>1
      <3>6. InRow(g[m - 1], A, a.id + 1)
        BY <2>3
      <3> HIDE DEF a, b
      <3>7. InRow(g[m - 1], A, b.id)
        <4>1. g[m - 1].slot.id \in Nat /\ g[m - 1].slot.id < a.id + 1
          BY <1>4, <3>6 DEF InRow
        <4>2. \A p, q, r \in Nat : p < q + 1 /\ q < r => p < r
          OBVIOUS
        <4>3. g[m - 1].slot.id < b.id
          BY <3>3, <3>5, <4>1, <4>2
        <4> QED BY <3>6, <4>3 DEF InRow
      <3>8. InRow(Compared(g[m - 1], entries[i].id, b), A, b.id + 1)
        BY <1>4, <3>4, <3>7, ComparedKeeps
      <3>9. g[m] = Compared(g[m - 1], entries[i].id, b)
        BY <2>1 DEF b
      <3> QED BY <3>1, <3>8, <3>9 DEF b
    <2> HIDE DEF T
    <2>4. n \in T
      BY <1>5, <2>2, <2>3, UpTo
    <2>5. Between(g[n], A)
      BY <2>4 DEF T, InRow
    <2> QED BY <2>1, <2>5 DEF A, entries
  <1> QED
    BY <1>6, <1>7

(* What a compaction files, whatever the entries are. *)
LEMMA CompactionFiles ==
    ASSUME kb \in Seq(EntryRecords), \A i \in Ids : CounterRule(kb[i]), NEW scope
    PROVE  \E processed \in SUBSET ActiveIds(scope) :
              /\ SaidAgain(processed, ActiveIds(scope))
              /\ \A u \in CompactEntries(scope) : Filed(u, ActiveIds(scope), processed)
  <1> DEFINE A == ActiveIds(scope)
             n == Len(Active(scope))
  <1>1. Len(kb) \in Nat
    OBVIOUS
  <1>2. n \in Nat
    BY <1>1, ActiveIs
  <1>3. PICK g : /\ g[0] = [slot |-> [id |-> 0], updates |-> <<>>, processed |-> {}]
                 /\ \A m \in 1..n : g[m] = CompareRow(Active(scope), g[m - 1], m)
                 /\ CompactEntries(scope) = {g[n].updates[k] : k \in DOMAIN g[n].updates}
    BY <1>2, AllRuns
  <1> DEFINE T == {m \in 0..n : Between(g[m], A)}
  <1>4. 0 \in T
    <2>1. DOMAIN <<>> = {}
      OBVIOUS
    <2>2. Between(g[0], A)
      BY <1>3, <2>1 DEF Between, SaidAgain
    <2> QED BY <1>2, <2>2
  <1>5. ASSUME NEW m \in 1..n, m - 1 \in T PROVE m \in T
    <2>1. Between(g[m - 1], A) /\ m \in 0..n
      BY <1>5
    <2>2. g[m] = CompareRow(Active(scope), g[m - 1], m)
      BY <1>3
    <2>3. Between(CompareRow(Active(scope), g[m - 1], m), A)
      BY <2>1, RowKeeps
    <2> QED BY <2>1, <2>2, <2>3
  <1> HIDE DEF T, n
  <1>6. n \in T
    BY <1>2, <1>4, <1>5, UpTo
  <1>7. Between(g[n], A)
    BY <1>6 DEF T
  <1> HIDE DEF A
  <1>8. \A u \in CompactEntries(scope) : Filed(u, A, g[n].processed)
    BY <1>3, <1>7 DEF Between
  <1> QED
    BY <1>7, <1>8 DEF A, Between

-----------------------------------------------------------------------------
(* The inductive invariant. *)

SoundRecords == {e \in EntryRecords : CounterRule(e)}

(* The calls that may be under way when there are n entries: what they are  *)
(* about to write obeys the rule of the counters too.                      *)
Calls(n) ==
    [op: {"contribute"}, e: SoundRecords]
    \cup [op: {"compact"}, todo: SUBSET [id: 1..n, e: SoundRecords], cli: BOOLEAN]
    \cup [op: {"prune"}, todo: SUBSET (1..n), cli: BOOLEAN]
    \cup [op: {"resolve_merge", "resolve_retire", "resolve_confirm"},
          keep: 1..n, drop: 1..n, k: SoundRecords, d: SoundRecords]
    \cup [op: {"cli_keep", "cli_drop"},
          keep: 1..n, drop: 1..n, k: SoundRecords, d: SoundRecords, new: SoundRecords]
    \cup [op: {"surface"}, scope: Scopes, token: {"current", "old"}]

KnowledgeTypeOK ==
    /\ kb \in Seq(SoundRecords)
    /\ kpend \in SUBSET Calls(Len(kb))
    /\ surfacer \in [token: {"none", "current", "old"}, entries: Seq(SoundRecords)]
    /\ caphits \in [Scopes -> Nat]

KInv == KnowledgeTypeOK /\ CopyIsCurrent

(* What RetiredIsFinal says of one step. *)
RetiredStep ==
    \A i \in Ids : ~ Live(kb[i]) /\ Live(kb'[i]) => \E p \in kpend : RevivesFromSnapshot(p, i)

LEMMA SameScene ==
    ASSUME kscene' = kscene
    PROVE  EntryRecords' = EntryRecords /\ SoundRecords' = SoundRecords
  <1>1. EntryRecords' = EntryRecords
    BY DEF EntryRecords, Words, Scores
  <1> QED
    BY <1>1 DEF SoundRecords, CounterRule, Live

LEMMA SameCalls ==
    ASSUME kscene' = kscene, Len(kb') = Len(kb) PROVE Calls(Len(kb))' = Calls(Len(kb))
  <1>1. SoundRecords' = SoundRecords
    BY SameScene
  <1> QED
    BY <1>1 DEF Calls

LEMMA MoreCalls ==
    ASSUME NEW n \in Nat, NEW p \in Calls(n) PROVE p \in Calls(n + 1)
  <1>1. 1..n \subseteq 1..(n + 1)
    OBVIOUS
  <1>2. SUBSET (1..n) \subseteq SUBSET (1..(n + 1))
    BY <1>1
  <1>3. SUBSET [id: 1..n, e: SoundRecords] \subseteq SUBSET [id: 1..(n + 1), e: SoundRecords]
    BY <1>1
  <1>4. CASE p \in [op: {"compact"}, todo: SUBSET [id: 1..n, e: SoundRecords], cli: BOOLEAN]
    <2>1. p \in [op: {"compact"}, todo: SUBSET [id: 1..(n + 1), e: SoundRecords], cli: BOOLEAN]
      BY <1>3, <1>4
    <2> QED BY <2>1 DEF Calls
  <1>5. CASE p \in [op: {"prune"}, todo: SUBSET (1..n), cli: BOOLEAN]
    <2>1. p \in [op: {"prune"}, todo: SUBSET (1..(n + 1)), cli: BOOLEAN]
      BY <1>2, <1>5
    <2> QED BY <2>1 DEF Calls
  <1>6. CASE p \in [op: {"resolve_merge", "resolve_retire", "resolve_confirm"},
                    keep: 1..n, drop: 1..n, k: SoundRecords, d: SoundRecords]
    BY <1>1, <1>6 DEF Calls
  <1>7. CASE p \in [op: {"cli_keep", "cli_drop"},
                    keep: 1..n, drop: 1..n, k: SoundRecords, d: SoundRecords, new: SoundRecords]
    BY <1>1, <1>7 DEF Calls
  <1> QED
    BY <1>4, <1>5, <1>6, <1>7 DEF Calls

LEMMA CopyOutdated ==
    ASSUME KInv
    PROVE  /\ Outdated(surfacer) \in [token: {"none", "old"}, entries: Seq(SoundRecords)]
           /\ \A p \in kpend : p.op = "surface" => Outdated(p) \in Calls(Len(kb))
  <1>1. surfacer \in [token: {"none", "current", "old"}, entries: Seq(SoundRecords)]
    BY DEF KInv, KnowledgeTypeOK
  <1>2. Outdated(surfacer) \in [token: {"none", "old"}, entries: Seq(SoundRecords)]
    BY <1>1 DEF Outdated
  <1>3. ASSUME NEW p \in kpend, p.op = "surface" PROVE Outdated(p) \in Calls(Len(kb))
    <2>1. p \in Calls(Len(kb))
      BY DEF KInv, KnowledgeTypeOK
    <2>2. p \in [op: {"surface"}, scope: Scopes, token: {"current", "old"}]
      BY <1>3, <2>1 DEF Calls
    <2>3. Outdated(p) \in [op: {"surface"}, scope: Scopes, token: {"current", "old"}]
      BY <2>2 DEF Outdated
    <2> QED BY <2>3 DEF Calls
  <1> QED
    BY <1>2, <1>3

LEMMA StoreKeeps ==
    ASSUME KInv, NEW i \in Ids, NEW e \in SoundRecords, Store(i, e),
           kpend' \in SUBSET Calls(Len(kb)),
           Live(e) /\ ~ Live(kb[i]) => \E p \in kpend : RevivesFromSnapshot(p, i)
    PROVE  KInv' /\ RetiredStep
  <1>1. kb' = [kb EXCEPT ![i] = e] /\ surfacer' = Outdated(surfacer) /\ kscene' = kscene /\ caphits' = caphits
    BY DEF Store, Restamped
  <1>2. kb \in Seq(SoundRecords) /\ caphits \in [Scopes -> Nat] /\ i \in 1..Len(kb)
    BY DEF KInv, KnowledgeTypeOK, Ids
  <1>3. kb' \in Seq(SoundRecords) /\ Len(kb') = Len(kb)
    BY <1>1, <1>2
  <1>4. \A j \in 1..Len(kb) : kb'[j] = IF j = i THEN e ELSE kb[j]
    BY <1>1, <1>2
  <1>5. SoundRecords' = SoundRecords /\ Calls(Len(kb))' = Calls(Len(kb))
    BY <1>1, <1>3, SameScene, SameCalls
  <1>6. surfacer' \in [token: {"none", "old"}, entries: Seq(SoundRecords)]
    BY <1>1, CopyOutdated
  <1>7. surfacer'.token # "current" /\ surfacer' \in [token: {"none", "current", "old"}, entries: Seq(SoundRecords)]
    BY <1>6
  <1>8. KInv'
    BY <1>1, <1>2, <1>3, <1>5, <1>7 DEF KInv, KnowledgeTypeOK, CopyIsCurrent
  <1>9. RetiredStep
    BY <1>4 DEF RetiredStep, Ids
  <1> QED
    BY <1>8, <1>9

LEMMA SavesKeeps ==
    ASSUME KInv, NEW i \in Ids, NEW e \in SoundRecords, Saves(i, e), Live(e) => Live(kb[i])
    PROVE  KInv' /\ RetiredStep
  <1> DEFINE f == [e EXCEPT !.since = 0]
  <1>1. f \in SoundRecords /\ f.st = e.st
    BY DEF SoundRecords, EntryRecords, CounterRule, Live
  <1>2. Store(i, f) /\ kpend' = {IF p.op = "surface" THEN Outdated(p) ELSE p : p \in kpend}
    BY DEF Saves
  <1>3. Live(f) => Live(kb[i])
    BY <1>1 DEF Live
  <1> HIDE DEF f
  <1>4. kpend \in SUBSET Calls(Len(kb))
    BY DEF KInv, KnowledgeTypeOK
  <1>5. kpend' \in SUBSET Calls(Len(kb))
    BY <1>2, <1>4, CopyOutdated
  <1> QED
    BY <1>1, <1>2, <1>3, <1>5, StoreKeeps

LEMMA QuietKeeps ==
    ASSUME KInv, UNCHANGED <<kscene, kb, surfacer>>, kpend' \in SUBSET Calls(Len(kb)),
           caphits' \in [Scopes -> Nat]
    PROVE  KInv' /\ RetiredStep
  <1>1. SoundRecords' = SoundRecords /\ Calls(Len(kb))' = Calls(Len(kb))
    BY SameScene, SameCalls
  <1>2. KInv'
    BY <1>1 DEF KInv, KnowledgeTypeOK, CopyIsCurrent
  <1> QED
    BY <1>2 DEF RetiredStep

-----------------------------------------------------------------------------
(* What the calls do to an entry. *)

LEMMA EntryAt ==
    ASSUME KInv, NEW i \in Ids PROVE kb[i] \in SoundRecords
  BY DEF KInv, KnowledgeTypeOK, Ids

LEMMA NothingFollowsRetired ==
    ASSUME NEW from, NEW to, CanTransitionKnowledge(from, to), from \in Statuses PROVE from # "retired"
  BY DEF CanTransitionKnowledge, KnowledgeTransitions

LEMMA RetiredIsSound ==
    ASSUME NEW e \in EntryRecords
    PROVE  [e EXCEPT !.st = "retired"] \in SoundRecords /\ ~ Live([e EXCEPT !.st = "retired"])
  BY DEF SoundRecords, EntryRecords, CounterRule, Live, Statuses

LEMMA ConfirmedIsSound ==
    ASSUME NEW e \in SoundRecords, NEW st, st = "confirmed" \/ st = e.st, e.st # "retired" \/ st = e.st
    PROVE  [e EXCEPT !.st = st] \in SoundRecords /\ (Live([e EXCEPT !.st = st]) <=> Live(e))
  <1> DEFINE f == [e EXCEPT !.st = st]
  <1>1. f \in EntryRecords /\ f.st = st /\ f.use = e.use /\ f.miss = e.miss /\ f.merged = e.merged
    BY DEF SoundRecords, EntryRecords, Statuses
  <1> HIDE DEF f
  <1>2. f \in SoundRecords
    BY <1>1 DEF SoundRecords, CounterRule, Live
  <1> QED
    BY <1>1, <1>2 DEF Live, f

LEMMA ScoreIs == \A u, m \in Nat : WilsonScore[u, m] \in Scores
  BY DEF Scores

LEMMA Fields ==
    ASSUME NEW e \in SoundRecords
    PROVE  /\ e \in EntryRecords /\ CounterRule(e)
           /\ e.use \in Nat /\ e.miss \in Nat /\ e.st \in Statuses /\ e.merged \in BOOLEAN
           /\ e.use + 1 \in Nat /\ e.miss + 1 \in Nat
  BY DEF SoundRecords, EntryRecords

MissedBy(e, misses, score, st) == [e EXCEPT !.miss = misses, !.conf = score, !.st = st]
CountedBy(e, uses, score, st) == [e EXCEPT !.use = uses, !.conf = score, !.idle = 0, !.st = st]

LEMMA Missed ==
    ASSUME NEW e \in EntryRecords, NEW misses \in Nat, NEW score \in Scores, NEW st \in Statuses
    PROVE  /\ MissedBy(e, misses, score, st) \in EntryRecords
           /\ MissedBy(e, misses, score, st).miss = misses
           /\ MissedBy(e, misses, score, st).st = st
  <1> DEFINE f == MissedBy(e, misses, score, st)
  <1>1. f \in EntryRecords
    BY DEF EntryRecords, MissedBy
  <1>2. f.miss = misses /\ f.st = st
    BY DEF EntryRecords, MissedBy
  <1> QED
    BY <1>1, <1>2

LEMMA Counted ==
    ASSUME NEW e \in EntryRecords, NEW uses \in Nat, NEW score \in Scores, NEW st \in Statuses
    PROVE  /\ CountedBy(e, uses, score, st) \in EntryRecords
           /\ CountedBy(e, uses, score, st).use = uses
           /\ CountedBy(e, uses, score, st).miss = e.miss
           /\ CountedBy(e, uses, score, st).merged = e.merged
           /\ CountedBy(e, uses, score, st).st = st
  <1> DEFINE g == [e EXCEPT !.use = uses, !.conf = score]
             h == [g EXCEPT !.idle = 0]
             f == [h EXCEPT !.st = st]
  <1>1. g \in EntryRecords /\ g.use = uses /\ g.miss = e.miss /\ g.merged = e.merged
    BY DEF EntryRecords
  <1> HIDE DEF g
  <1>2. h \in EntryRecords /\ h.use = g.use /\ h.miss = g.miss /\ h.merged = g.merged
    <2>1. 0 \in 0..3
      OBVIOUS
    <2> QED BY <1>1, <2>1 DEF EntryRecords
  <1> HIDE DEF h
  <1>3. f \in EntryRecords /\ f.use = h.use /\ f.miss = h.miss /\ f.merged = h.merged /\ f.st = st
    BY <1>2 DEF EntryRecords
  <1>4. f = CountedBy(e, uses, score, st)
    BY DEF g, h, CountedBy
  <1> HIDE DEF f
  <1> QED
    BY <1>1, <1>2, <1>3, <1>4

LEMMA FlaggedIsSound ==
    ASSUME NEW e \in SoundRecords, Live(e) PROVE Flagged(e) \in SoundRecords
  <1> DEFINE f == Flagged(e)
             misses == e.miss + 1
             score == WilsonScore[e.use, e.miss + 1]
             st == IF e.miss + 1 >= 2 THEN "retired"
                   ELSE IF CanTransitionKnowledge(e.st, "disputed") THEN "disputed" ELSE e.st
  <1>1. score \in Scores /\ misses \in Nat
    BY Fields, ScoreIs
  <1>2. st \in Statuses /\ (misses < 2 => st # "contributed" \/ st = e.st) /\ (misses >= 2 => st = "retired")
    BY Fields DEF Statuses
  <1>3. f = MissedBy(e, misses, score, st)
    BY DEF Flagged, MissedBy
  <1>4. misses > 0
    BY Fields
  <1>5. e \in EntryRecords
    BY Fields
  <1> HIDE DEF misses, score, st, f
  <1>6. f \in EntryRecords /\ f.miss = misses /\ f.st = st
    BY <1>1, <1>2, <1>3, <1>5, Missed
  <1>7. f \in SoundRecords
    BY <1>1, <1>2, <1>4, <1>6 DEF SoundRecords, CounterRule, Live
  <1> QED
    BY <1>7 DEF f

LEMMA UsedIsSound ==
    ASSUME NEW e \in SoundRecords PROVE Used(e) \in SoundRecords /\ (Live(Used(e)) => Live(e))
  <1> DEFINE f == Used(e)
             uses == e.use + 1
             score == WilsonScore[e.use + 1, e.miss]
             st == IF e.st = "contributed" /\ e.use + 1 >= 3 /\ e.miss = 0 THEN "confirmed" ELSE e.st
  <1>1. score \in Scores /\ uses \in Nat
    BY Fields, ScoreIs
  <1>2. st \in Statuses
    BY Fields DEF Statuses
  <1>3. f = CountedBy(e, uses, score, st)
    BY DEF Used, CountedBy
  <1>4. e \in EntryRecords /\ e.miss \in Nat /\ e.use \in Nat /\ CounterRule(e) /\ e.merged \in BOOLEAN
    BY Fields
  <1>5. /\ st = "contributed" => e.st = "contributed" /\ (uses < 3 \/ e.miss > 0)
        /\ st # "retired" => e.st # "retired"
    <2>1. \A u, m \in Nat : ~ (u + 1 >= 3 /\ m = 0) => (u + 1 < 3 \/ m > 0)
      OBVIOUS
    <2>2. (e.use + 1 >= 3 /\ e.miss = 0) \/ e.use + 1 < 3 \/ e.miss > 0
      BY <1>4, <2>1
    <2> QED BY <2>2
  <1> HIDE DEF uses, score, st, f
  <1>7. f \in EntryRecords /\ f.use = uses /\ f.miss = e.miss /\ f.merged = e.merged /\ f.st = st
    BY <1>1, <1>2, <1>3, <1>4, Counted
  <1>8. f \in SoundRecords
    BY <1>4, <1>5, <1>7 DEF SoundRecords, CounterRule, Live
  <1> QED
    BY <1>5, <1>7, <1>8 DEF Live, f

LEMMA ReportedIsSound ==
    ASSUME NEW e \in SoundRecords
    PROVE  ReportedWrong(e) \in SoundRecords /\ (Live(ReportedWrong(e)) => Live(e))
  <1> DEFINE f == ReportedWrong(e)
             misses == e.miss + 1
             score == WilsonScore[e.use, e.miss + 1]
             st == IF e.miss + 1 >= 2 THEN "retired" ELSE e.st
  <1>1. score \in Scores /\ misses \in Nat
    BY Fields, ScoreIs
  <1>2. st \in Statuses /\ (misses >= 2 => st = "retired") /\ (st = "retired" \/ st = e.st)
    BY Fields DEF Statuses
  <1>3. f = MissedBy(e, misses, score, st)
    BY DEF ReportedWrong, MissedBy
  <1>4. misses > 0
    BY Fields
  <1>5. e \in EntryRecords
    BY Fields
  <1> HIDE DEF misses, score, st, f
  <1>6. f \in EntryRecords /\ f.miss = misses /\ f.st = st
    BY <1>1, <1>2, <1>3, <1>5, Missed
  <1>7. f \in SoundRecords
    BY <1>1, <1>2, <1>4, <1>6 DEF SoundRecords, CounterRule, Live
  <1> QED
    BY <1>2, <1>6, <1>7 DEF f, Live

Rewritten(e, text) == [e EXCEPT !.content = text, !.use = 0, !.miss = 0, !.conf = 500]

LEMMA UpdatedIsSound ==
    ASSUME NEW e \in SoundRecords, NEW note \in kscene.notes
    PROVE  /\ Rewritten(e, note.content) \in SoundRecords
           /\ Live(Rewritten(e, note.content)) => Live(e)
  <1> DEFINE text == note.content
             a == [e EXCEPT !.content = text]
             b == [a EXCEPT !.use = 0]
             c == [b EXCEPT !.miss = 0]
             d == [c EXCEPT !.conf = 500]
  <1>1. e \in EntryRecords /\ text \in SUBSET Words /\ 500 \in Scores /\ 0 \in Nat
    BY DEF SoundRecords, Words, Scores
  <1>2. Rewritten(e, text) = d
    BY DEF Rewritten
  <1> HIDE DEF text
  <1>3. a \in EntryRecords /\ a.st = e.st /\ a.merged = e.merged
    BY <1>1 DEF EntryRecords
  <1> HIDE DEF a
  <1>4. b \in EntryRecords /\ b.st = a.st /\ b.merged = a.merged /\ b.use = 0
    BY <1>1, <1>3 DEF EntryRecords
  <1> HIDE DEF b
  <1>5. c \in EntryRecords /\ c.st = b.st /\ c.merged = b.merged /\ c.use = 0 /\ c.miss = 0
    BY <1>1, <1>4 DEF EntryRecords
  <1> HIDE DEF c
  <1>6. d \in EntryRecords /\ d.st = c.st /\ d.merged = c.merged /\ d.use = 0 /\ d.miss = 0
    BY <1>1, <1>5 DEF EntryRecords
  <1> HIDE DEF d
  <1>7. CounterRule(e) /\ (Live(d) <=> Live(e))
    BY <1>3, <1>4, <1>5, <1>6 DEF SoundRecords, Live
  <1>8. CounterRule(d)
    BY <1>3, <1>4, <1>5, <1>6, <1>7 DEF CounterRule
  <1> QED
    BY <1>2, <1>6, <1>7, <1>8 DEF SoundRecords, text

LEMMA PromotedIsSound ==
    ASSUME NEW e \in SoundRecords
    PROVE  [e EXCEPT !.tier = 2] \in SoundRecords /\ (Live([e EXCEPT !.tier = 2]) => Live(e))
  BY DEF SoundRecords, EntryRecords, CounterRule, Live

LEMMA SummedIsSound ==
    ASSUME NEW e \in SoundRecords, NEW uses \in Nat, NEW misses \in Nat
    PROVE  LET f == [e EXCEPT !.use = uses, !.miss = misses, !.merged = TRUE] IN
           f \in SoundRecords /\ (Live(f) => Live(e))
  BY DEF SoundRecords, EntryRecords, CounterRule, Live

LEMMA ResolvedIsSound ==
    ASSUME NEW e \in SoundRecords, NEW content \in SUBSET Words, NEW uses \in Nat
    PROVE  [e EXCEPT !.st = "confirmed", !.merged = TRUE, !.content = content, !.use = uses] \in SoundRecords
  BY DEF SoundRecords, EntryRecords, CounterRule, Statuses

LEMMA NewIsSound ==
    ASSUME NEW note \in kscene.notes, NEW tier \in kscene.tiers PROVE NewEntry(note, tier) \in SoundRecords
  <1>1. note.topic \in SUBSET Words /\ note.content \in SUBSET Words /\ 500 \in Scores
    BY DEF Words, Scores
  <1>2. NewEntry(note, tier) \in EntryRecords
    BY <1>1 DEF NewEntry, EntryRecords, Statuses
  <1>3. NewEntry(note, tier).use = 0 /\ NewEntry(note, tier).miss = 0
    BY DEF NewEntry
  <1> QED
    BY <1>2, <1>3 DEF SoundRecords, CounterRule

LEMMA OlderIsSound ==
    ASSUME NEW entries \in Seq(SoundRecords)
    PROVE  /\ Older(entries) \in Seq(SoundRecords) /\ Len(Older(entries)) = Len(entries)
           /\ \A i \in 1..Len(entries) : Older(entries)[i].st = entries[i].st
  <1> DEFINE older(e) == [e EXCEPT !.idle = IF @ < 3 THEN @ + 1 ELSE @,
                                   !.since = IF @ < 3 THEN @ + 1 ELSE @]
  <1>1. ASSUME NEW e \in SoundRecords PROVE older(e) \in SoundRecords /\ older(e).st = e.st
    <2> DEFINE f == older(e)
    <2>1. f \in EntryRecords
      <3> DEFINE idle == IF e.idle < 3 THEN e.idle + 1 ELSE e.idle
                 since == IF e.since < 3 THEN e.since + 1 ELSE e.since
      <3>1. e \in EntryRecords
        BY DEF SoundRecords
      <3>2. e.idle \in 0..3 /\ e.since \in 0..3
        BY <3>1 DEF EntryRecords
      <3>3. idle \in 0..3 /\ since \in 0..3
        BY <3>2
      <3>4. f = [e EXCEPT !.idle = idle, !.since = since]
        OBVIOUS
      <3> HIDE DEF idle, since, f
      <3> QED BY <3>1, <3>3, <3>4 DEF EntryRecords
    <2>2. f.st = e.st /\ f.use = e.use /\ f.miss = e.miss /\ f.merged = e.merged
      BY DEF SoundRecords, EntryRecords
    <2> HIDE DEF f
    <2>3. f \in SoundRecords
      BY <2>1, <2>2 DEF SoundRecords, CounterRule, Live
    <2> QED BY <2>2, <2>3 DEF f
  <1>2. Len(entries) \in Nat /\ \A i \in 1..Len(entries) : entries[i] \in SoundRecords
    OBVIOUS
  <1>3. Older(entries) = [i \in 1..Len(entries) |-> older(entries[i])]
    BY DEF Older
  <1> HIDE DEF older
  <1>4. Older(entries) \in [1..Len(entries) -> SoundRecords]
    BY <1>1, <1>2, <1>3
  <1> QED
    BY <1>1, <1>2, <1>3, <1>4

-----------------------------------------------------------------------------
(* The steps. *)

LEMMA OnEntryStep ==
    ASSUME KInv, NEW i \in Ids, OnEntry(i) PROVE KInv' /\ RetiredStep
  <1>0. kb[i] \in SoundRecords /\ kb[i].st \in Statuses
    BY EntryAt, Fields
  <1>1. ASSUME NEW note \in kscene.notes, KnowledgeUpdate(i, note.content) PROVE KInv' /\ RetiredStep
    <2> DEFINE f == Rewritten(kb[i], note.content)
    <2>1. f \in SoundRecords /\ (Live(f) => Live(kb[i]))
      BY <1>0, UpdatedIsSound
    <2>2. Saves(i, f)
      BY <1>1 DEF KnowledgeUpdate, Rewritten
    <2> HIDE DEF f
    <2> QED BY <2>1, <2>2, SavesKeeps
  <1>2. CASE KnowledgeConfirm(i)
    <2> DEFINE f == [kb[i] EXCEPT !.st = "confirmed"]
    <2>1. kb[i].st # "retired"
      BY <1>0, <1>2, NothingFollowsRetired DEF KnowledgeConfirm
    <2>2. f \in SoundRecords /\ (Live(f) => Live(kb[i]))
      BY <1>0, <2>1, ConfirmedIsSound
    <2>3. Saves(i, f)
      BY <1>2 DEF KnowledgeConfirm
    <2> HIDE DEF f
    <2> QED BY <2>2, <2>3, SavesKeeps
  <1>3. CASE CliConfirm(i)
    <2> DEFINE st == IF kb[i].st = "stale" THEN "confirmed" ELSE kb[i].st
               f == [kb[i] EXCEPT !.st = st]
    <2>1. (st = "confirmed" \/ st = kb[i].st) /\ (kb[i].st # "retired" \/ st = kb[i].st)
      OBVIOUS
    <2>2. Saves(i, f)
      BY <1>3 DEF CliConfirm
    <2> HIDE DEF st
    <2>3. f \in SoundRecords /\ (Live(f) => Live(kb[i]))
      BY <1>0, <2>1, ConfirmedIsSound
    <2> HIDE DEF f
    <2> QED BY <2>2, <2>3, SavesKeeps
  <1>4. CASE KnowledgeRetire(i)
    <2> DEFINE f == [kb[i] EXCEPT !.st = "retired"]
    <2>1. f \in SoundRecords /\ ~ Live(f)
      BY <1>0, Fields, RetiredIsSound
    <2>2. Saves(i, f)
      BY <1>4 DEF KnowledgeRetire
    <2> HIDE DEF f
    <2> QED BY <2>1, <2>2, SavesKeeps
  <1>5. CASE KnowledgeFlag(i)
    <2>1. Live(kb[i]) /\ Saves(i, Flagged(kb[i]))
      BY <1>5 DEF KnowledgeFlag
    <2>2. Flagged(kb[i]) \in SoundRecords
      BY <1>0, <2>1, FlaggedIsSound
    <2> QED BY <2>1, <2>2, SavesKeeps
  <1>6. CASE Promote(i)
    <2> DEFINE f == [kb[i] EXCEPT !.tier = 2]
    <2>1. f \in SoundRecords /\ (Live(f) => Live(kb[i]))
      BY <1>0, PromotedIsSound
    <2>2. Saves(i, f)
      BY <1>6 DEF Promote
    <2> HIDE DEF f
    <2> QED BY <2>1, <2>2, SavesKeeps
  <1>7. CASE ContextReport(i)
    <2>1. Saves(i, Used(kb[i])) \/ Saves(i, ReportedWrong(kb[i]))
      BY <1>7 DEF ContextReport
    <2>2. CASE Saves(i, Used(kb[i]))
      BY <1>0, <2>2, UsedIsSound, SavesKeeps
    <2>3. CASE Saves(i, ReportedWrong(kb[i]))
      BY <1>0, <2>3, ReportedIsSound, SavesKeeps
    <2> QED BY <2>1, <2>2, <2>3
  <1> QED
    BY <1>1, <1>2, <1>3, <1>4, <1>5, <1>6, <1>7 DEF OnEntry

LEMMA PendingSound == ASSUME KInv PROVE kpend \in SUBSET Calls(Len(kb)) /\ Len(kb) \in Nat
  BY DEF KInv, KnowledgeTypeOK

LEMMA ContributeStep ==
    ASSUME KInv, NEW note \in kscene.notes, NEW tier \in kscene.tiers, ContributeChecked(note, tier)
    PROVE  KInv' /\ RetiredStep
  <1>1. NewEntry(note, tier) \in SoundRecords
    BY NewIsSound
  <1>2. [op |-> "contribute", e |-> NewEntry(note, tier)] \in Calls(Len(kb))
    BY <1>1 DEF Calls
  <1>3. kpend' \in SUBSET Calls(Len(kb)) /\ UNCHANGED <<kscene, kb, surfacer>> /\ caphits' = caphits
    BY <1>2, PendingSound DEF ContributeChecked
  <1>4. caphits' \in [Scopes -> Nat]
    BY <1>3 DEF KInv, KnowledgeTypeOK
  <1> QED
    BY <1>3, <1>4, QuietKeeps

LEMMA ContributeWrittenStep ==
    ASSUME KInv, NEW p \in kpend, ContributeWritten(p) PROVE KInv' /\ RetiredStep
  <1>1. /\ p.op = "contribute" /\ kb' = Append(kb, p.e)
        /\ kpend' = {IF q.op = "surface" THEN Outdated(q) ELSE q : q \in kpend \ {p}}
        /\ surfacer' = Outdated(surfacer) /\ kscene' = kscene /\ caphits' = caphits
    BY DEF ContributeWritten, Restamped
  <1>2. p \in Calls(Len(kb)) /\ Len(kb) \in Nat
    BY PendingSound
  <1>3. p.e \in SoundRecords
    BY <1>1, <1>2 DEF Calls
  <1>4. kb \in Seq(SoundRecords) /\ caphits \in [Scopes -> Nat]
    BY DEF KInv, KnowledgeTypeOK
  <1>5. /\ kb' \in Seq(SoundRecords) /\ Len(kb') = Len(kb) + 1
        /\ \A i \in 1..Len(kb) : kb'[i] = kb[i]
    BY <1>1, <1>3, <1>4
  <1>6. kpend' \in SUBSET Calls(Len(kb))
    BY <1>1, PendingSound, CopyOutdated
  <1>7. kpend' \in SUBSET Calls(Len(kb) + 1)
    BY <1>2, <1>6, MoreCalls
  <1>8. SoundRecords' = SoundRecords
    BY <1>1, SameScene
  <1>9. Calls(Len(kb))' = Calls(Len(kb) + 1)
    BY <1>5, <1>8 DEF Calls
  <1>10. surfacer' \in [token: {"none", "current", "old"}, entries: Seq(SoundRecords)] /\ surfacer'.token # "current"
    BY <1>1, CopyOutdated
  <1>11. KInv'
    BY <1>1, <1>4, <1>5, <1>7, <1>8, <1>9, <1>10 DEF KInv, KnowledgeTypeOK, CopyIsCurrent
  <1>12. RetiredStep
    BY <1>5 DEF RetiredStep, Ids
  <1> QED
    BY <1>11, <1>12

LEMMA CompactBeginStep ==
    ASSUME KInv, NEW scope, NEW cli \in BOOLEAN, CompactBegin(scope, cli) PROVE KInv' /\ RetiredStep
  <1>1. kb \in Seq(EntryRecords) /\ \A i \in Ids : CounterRule(kb[i])
    <2>1. kb \in Seq(SoundRecords)
      BY DEF KInv, KnowledgeTypeOK
    <2>2. \A i \in Ids : CounterRule(kb[i])
      BY EntryAt, Fields
    <2> QED BY <2>1, <2>2 DEF SoundRecords
  <1>2. PICK processed \in SUBSET ActiveIds(scope) :
           \A u \in CompactEntries(scope) : Filed(u, ActiveIds(scope), processed)
    BY <1>1, CompactionFiles
  <1>3. ASSUME NEW u \in CompactEntries(scope) PROVE u \in [id: 1..Len(kb), e: SoundRecords]
    <2>1. Filed(u, ActiveIds(scope), processed)
      BY <1>2
    <2>2. u \in [id: ActiveIds(scope), e: EntryRecords] /\ CounterRule(u.e)
      BY <2>1 DEF Filed
    <2>3. ActiveIds(scope) \subseteq 1..Len(kb)
      BY DEF ActiveIds, Ids
    <2>4. u.e \in SoundRecords /\ u.id \in 1..Len(kb) /\ u = [id |-> u.id, e |-> u.e]
      BY <2>2, <2>3 DEF SoundRecords
    <2> QED BY <2>4
  <1> DEFINE todo == CompactEntries(scope)
  <1>4. kpend' = {[op |-> "compact", todo |-> todo, cli |-> cli]} /\ UNCHANGED <<kscene, kb, surfacer, caphits>>
    BY DEF CompactBegin, Undertake
  <1>5. todo \in SUBSET [id: 1..Len(kb), e: SoundRecords]
    BY <1>3
  <1> HIDE DEF todo
  <1>6. [op |-> "compact", todo |-> todo, cli |-> cli] \in Calls(Len(kb))
    BY <1>5 DEF Calls
  <1>7. kpend' \in SUBSET Calls(Len(kb)) /\ caphits' \in [Scopes -> Nat]
    BY <1>4, <1>6 DEF KInv, KnowledgeTypeOK
  <1> QED
    BY <1>4, <1>7, QuietKeeps

LEMMA CompactStepStep ==
    ASSUME KInv, NEW p \in kpend, CompactStep(p) PROVE KInv' /\ RetiredStep
  <1>1. p.op = "compact" /\ p \in Calls(Len(kb))
    BY PendingSound DEF CompactStep
  <1>2. p \in [op: {"compact"}, todo: SUBSET [id: 1..Len(kb), e: SoundRecords], cli: BOOLEAN]
    BY <1>1 DEF Calls
  <1>3. PICK u \in p.todo :
           /\ kpend' = (kpend \ {p}) \cup IF p.todo = {u} THEN {} ELSE {[p EXCEPT !.todo = @ \ {u}]}
           /\ Store(u.id, Compacted(p, u))
    BY DEF CompactStep
  <1>4. u.id \in Ids /\ u.e \in SoundRecords
    BY <1>2 DEF Ids
  <1>5. kb[u.id] \in SoundRecords
    BY <1>4, EntryAt
  <1>6. Compacted(p, u) \in SoundRecords
    <2>1. [kb[u.id] EXCEPT !.st = "retired"] \in SoundRecords
      BY <1>5, Fields, RetiredIsSound
    <2> QED BY <1>4, <1>5, <2>1 DEF Compacted
  <1>7. Live(Compacted(p, u)) /\ ~ Live(kb[u.id]) => RevivesFromSnapshot(p, u.id)
    <2>1. ~ Live([kb[u.id] EXCEPT !.st = "retired"])
      BY <1>5, Fields, RetiredIsSound
    <2>2. Live(Compacted(p, u)) /\ ~ Live(kb[u.id]) => Live(u.e)
      BY <2>1 DEF Compacted
    <2> QED BY <1>1, <2>2 DEF RevivesFromSnapshot
  <1>8. [p EXCEPT !.todo = @ \ {u}] \in Calls(Len(kb))
    <2>1. [p EXCEPT !.todo = @ \ {u}] \in
             [op: {"compact"}, todo: SUBSET [id: 1..Len(kb), e: SoundRecords], cli: BOOLEAN]
      BY <1>2
    <2> QED BY <2>1 DEF Calls
  <1>9. kpend' \in SUBSET Calls(Len(kb))
    BY <1>3, <1>8, PendingSound
  <1> QED
    BY <1>3, <1>4, <1>6, <1>7, <1>9, StoreKeeps

LEMMA PruneStepStep ==
    ASSUME KInv, NEW p \in kpend, PruneStep(p) PROVE KInv' /\ RetiredStep
  <1>1. p.op = "prune" /\ p \in Calls(Len(kb))
    BY PendingSound DEF PruneStep
  <1>2. p \in [op: {"prune"}, todo: SUBSET (1..Len(kb)), cli: BOOLEAN]
    BY <1>1 DEF Calls
  <1>3. PICK i \in p.todo :
           /\ kpend' = (kpend \ {p}) \cup IF p.todo = {i} THEN {} ELSE {[p EXCEPT !.todo = @ \ {i}]}
           /\ \/ Store(i, [kb[i] EXCEPT !.st = "retired"])
              \/ UNCHANGED <<kscene, kb, surfacer, caphits>>
    BY DEF PruneStep
  <1>4. i \in Ids
    BY <1>2 DEF Ids
  <1>5. [p EXCEPT !.todo = @ \ {i}] \in Calls(Len(kb))
    <2>1. [p EXCEPT !.todo = @ \ {i}] \in [op: {"prune"}, todo: SUBSET (1..Len(kb)), cli: BOOLEAN]
      BY <1>2
    <2> QED BY <2>1 DEF Calls
  <1>6. kpend' \in SUBSET Calls(Len(kb))
    BY <1>3, <1>5, PendingSound
  <1>7. CASE Store(i, [kb[i] EXCEPT !.st = "retired"])
    <2> DEFINE f == [kb[i] EXCEPT !.st = "retired"]
    <2>1. f \in SoundRecords /\ ~ Live(f)
      BY <1>4, EntryAt, Fields, RetiredIsSound
    <2>2. Store(i, f)
      BY <1>7
    <2> HIDE DEF f
    <2> QED BY <1>4, <1>6, <2>1, <2>2, StoreKeeps
  <1>8. CASE UNCHANGED <<kscene, kb, surfacer, caphits>>
    <2>1. caphits' \in [Scopes -> Nat]
      BY <1>8 DEF KInv, KnowledgeTypeOK
    <2> QED BY <1>6, <1>8, <2>1, QuietKeeps
  <1> QED
    BY <1>3, <1>7, <1>8

LEMMA ResolveBeginStep ==
    ASSUME KInv, NEW keep \in Ids, NEW drop \in Ids, NEW merge \in BOOLEAN, ResolveBegin(keep, drop, merge)
    PROVE  KInv' /\ RetiredStep
  <1> DEFINE p == [op |-> IF merge THEN "resolve_merge" ELSE "resolve_retire",
                   keep |-> keep, drop |-> drop, k |-> kb[keep], d |-> kb[drop]]
  <1>1. kpend' = {p} /\ UNCHANGED <<kscene, kb, surfacer, caphits>>
    BY DEF ResolveBegin, Undertake
  <1>2. kb[keep] \in SoundRecords /\ kb[drop] \in SoundRecords
    BY EntryAt
  <1>3. p \in Calls(Len(kb))
    BY <1>2 DEF Calls, Ids
  <1> HIDE DEF p
  <1>4. kpend' \in SUBSET Calls(Len(kb)) /\ caphits' \in [Scopes -> Nat]
    BY <1>1, <1>3 DEF KInv, KnowledgeTypeOK
  <1> QED
    BY <1>1, <1>4, QuietKeeps

LEMMA ResolveStepStep ==
    ASSUME KInv, NEW p \in kpend, ResolveStep(p) PROVE KInv' /\ RetiredStep
  <1>1. p.op \in {"resolve_merge", "resolve_retire", "resolve_confirm"} /\ p \in Calls(Len(kb))
    BY PendingSound DEF ResolveStep
  <1>2. p \in [op: {"resolve_merge", "resolve_retire", "resolve_confirm"},
               keep: 1..Len(kb), drop: 1..Len(kb), k: SoundRecords, d: SoundRecords]
    BY <1>1 DEF Calls
  <1>3. \A op \in {"resolve_retire", "resolve_confirm"} : [p EXCEPT !.op = op] \in Calls(Len(kb))
    <2>1. \A op \in {"resolve_retire", "resolve_confirm"} :
             [p EXCEPT !.op = op] \in [op: {"resolve_merge", "resolve_retire", "resolve_confirm"},
                 keep: 1..Len(kb), drop: 1..Len(kb), k: SoundRecords, d: SoundRecords]
      BY <1>2
    <2> QED BY <2>1 DEF Calls
  <1>4. kpend \in SUBSET Calls(Len(kb)) /\ p.keep \in Ids /\ p.drop \in Ids
    BY <1>2, PendingSound DEF Ids
  <1>5. kb[p.keep] \in SoundRecords /\ kb[p.drop] \in SoundRecords
    BY <1>4, EntryAt
  <1>6. caphits' = caphits => caphits' \in [Scopes -> Nat]
    BY DEF KInv, KnowledgeTypeOK
  <1>7. CASE p.op = "resolve_merge"
    <2> DEFINE uses == p.k.use + p.d.use
               misses == p.k.miss + p.d.miss
               f == [kb[p.keep] EXCEPT !.use = uses, !.miss = misses, !.merged = TRUE]
    <2>1. Store(p.keep, f) /\ kpend' = (kpend \ {p}) \cup {[p EXCEPT !.op = "resolve_retire"]}
      BY <1>7 DEF ResolveStep, GoOn
    <2>2. uses \in Nat /\ misses \in Nat
      <3>1. p.k \in SoundRecords /\ p.d \in SoundRecords
        BY <1>2
      <3>2. p.k.use \in Nat /\ p.k.miss \in Nat /\ p.d.use \in Nat /\ p.d.miss \in Nat
        BY <3>1, Fields
      <3> QED BY <3>2
    <2> HIDE DEF uses, misses
    <2>3. f \in SoundRecords /\ (Live(f) => Live(kb[p.keep]))
      BY <1>5, <2>2, SummedIsSound
    <2>4. kpend' \in SUBSET Calls(Len(kb))
      BY <1>3, <1>4, <2>1
    <2> HIDE DEF f
    <2> QED BY <1>4, <2>1, <2>3, <2>4, StoreKeeps
  <1>8. CASE p.op = "resolve_retire"
    <2>1. kpend' \in SUBSET Calls(Len(kb))
      BY <1>3, <1>4, <1>8 DEF ResolveStep, GoOn, Leave
    <2>2. \/ Store(p.drop, [kb[p.drop] EXCEPT !.st = "retired"])
          \/ UNCHANGED <<kscene, kb, surfacer, caphits>>
      BY <1>8 DEF ResolveStep
    <2>3. CASE Store(p.drop, [kb[p.drop] EXCEPT !.st = "retired"])
      <3> DEFINE f == [kb[p.drop] EXCEPT !.st = "retired"]
      <3>1. f \in SoundRecords /\ ~ Live(f)
        BY <1>5, Fields, RetiredIsSound
      <3>2. Store(p.drop, f)
        BY <2>3
      <3> HIDE DEF f
      <3> QED BY <1>4, <2>1, <3>1, <3>2, StoreKeeps
    <2>4. CASE UNCHANGED <<kscene, kb, surfacer, caphits>>
      BY <1>6, <2>1, <2>4, QuietKeeps
    <2> QED BY <2>2, <2>3, <2>4
  <1>9. CASE p.op = "resolve_confirm"
    <2>1. kpend' \in SUBSET Calls(Len(kb))
      BY <1>4, <1>9 DEF ResolveStep, Leave
    <2>2. \/ /\ CanTransitionKnowledge(kb[p.keep].st, "confirmed")
             /\ Store(p.keep, [kb[p.keep] EXCEPT !.st = "confirmed"])
          \/ UNCHANGED <<kscene, kb, surfacer, caphits>>
      BY <1>9 DEF ResolveStep
    <2>3. CASE /\ CanTransitionKnowledge(kb[p.keep].st, "confirmed")
               /\ Store(p.keep, [kb[p.keep] EXCEPT !.st = "confirmed"])
      <3> DEFINE f == [kb[p.keep] EXCEPT !.st = "confirmed"]
      <3>1. kb[p.keep].st # "retired"
        BY <1>5, <2>3, Fields, NothingFollowsRetired
      <3>2. f \in SoundRecords /\ (Live(f) => Live(kb[p.keep]))
        BY <1>5, <3>1, ConfirmedIsSound
      <3>3. Store(p.keep, f)
        BY <2>3
      <3> HIDE DEF f
      <3> QED BY <1>4, <2>1, <3>2, <3>3, StoreKeeps
    <2>4. CASE UNCHANGED <<kscene, kb, surfacer, caphits>>
      BY <1>6, <2>1, <2>4, QuietKeeps
    <2> QED BY <2>2, <2>3, <2>4
  <1> QED
    BY <1>1, <1>7, <1>8, <1>9

LEMMA CliResolveBeginStep ==
    ASSUME KInv, NEW keep \in Ids, NEW drop \in Ids, NEW merge \in BOOLEAN, CliResolveBegin(keep, drop, merge)
    PROVE  KInv' /\ RetiredStep
  <1>1. kb[keep] \in SoundRecords /\ kb[drop] \in SoundRecords
    BY EntryAt
  <1> DEFINE content == IF merge THEN kb[keep].content \cup kb[drop].content ELSE kb[keep].content
             uses == IF merge THEN kb[keep].use + kb[drop].use ELSE kb[keep].use
             new == [kb[keep] EXCEPT !.st = "confirmed", !.merged = TRUE, !.content = content, !.use = uses]
             p == [op |-> "cli_keep", keep |-> keep, drop |-> drop, d |-> kb[drop], k |-> kb[keep], new |-> new]
  <1>2. kpend' = {p} /\ UNCHANGED <<kscene, kb, surfacer, caphits>>
    BY DEF CliResolveBegin, Undertake
  <1>3. content \in SUBSET Words
    BY <1>1 DEF SoundRecords, EntryRecords
  <1>4. uses \in Nat
    BY <1>1, Fields
  <1> HIDE DEF content, uses
  <1>5. new \in SoundRecords
    BY <1>1, <1>3, <1>4, ResolvedIsSound
  <1> HIDE DEF new
  <1>6. p \in Calls(Len(kb))
    BY <1>1, <1>5 DEF Calls, Ids
  <1> HIDE DEF p
  <1>7. kpend' \in SUBSET Calls(Len(kb)) /\ caphits' \in [Scopes -> Nat]
    BY <1>2, <1>6 DEF KInv, KnowledgeTypeOK
  <1> QED
    BY <1>2, <1>7, QuietKeeps

LEMMA CliResolveStepStep ==
    ASSUME KInv, NEW p \in kpend, CliResolveStep(p) PROVE KInv' /\ RetiredStep
  <1>1. p.op \in {"cli_keep", "cli_drop"} /\ p \in Calls(Len(kb))
    BY PendingSound DEF CliResolveStep
  <1>2. p \in [op: {"cli_keep", "cli_drop"}, keep: 1..Len(kb), drop: 1..Len(kb),
               k: SoundRecords, d: SoundRecords, new: SoundRecords]
    BY <1>1 DEF Calls
  <1>3. [p EXCEPT !.op = "cli_drop"] \in Calls(Len(kb))
    <2>1. [p EXCEPT !.op = "cli_drop"] \in [op: {"cli_keep", "cli_drop"}, keep: 1..Len(kb), drop: 1..Len(kb),
               k: SoundRecords, d: SoundRecords, new: SoundRecords]
      BY <1>2
    <2> QED BY <2>1 DEF Calls
  <1>4. kpend \in SUBSET Calls(Len(kb)) /\ p.keep \in Ids /\ p.drop \in Ids
    BY <1>2, PendingSound DEF Ids
  <1>5. kpend' \in SUBSET Calls(Len(kb))
    BY <1>3, <1>4 DEF CliResolveStep, GoOn, Leave
  <1>6. \/ p.op = "cli_keep" /\ Store(p.keep, p.new)
        \/ Store(p.drop, [p.d EXCEPT !.st = "retired"])
        \/ UNCHANGED <<kscene, kb, surfacer, caphits>>
    BY DEF CliResolveStep
  <1>7. CASE p.op = "cli_keep" /\ Store(p.keep, p.new)
    <2>1. RevivesFromSnapshot(p, p.keep)
      BY <1>7 DEF RevivesFromSnapshot
    <2> QED BY <1>2, <1>4, <1>5, <1>7, <2>1, StoreKeeps
  <1>8. CASE Store(p.drop, [p.d EXCEPT !.st = "retired"])
    <2> DEFINE f == [p.d EXCEPT !.st = "retired"]
    <2>1. f \in SoundRecords /\ ~ Live(f)
      BY <1>2, Fields, RetiredIsSound
    <2>2. Store(p.drop, f)
      BY <1>8
    <2> HIDE DEF f
    <2> QED BY <1>4, <1>5, <2>1, <2>2, StoreKeeps
  <1>9. CASE UNCHANGED <<kscene, kb, surfacer, caphits>>
    <2>1. caphits' \in [Scopes -> Nat]
      BY <1>9 DEF KInv, KnowledgeTypeOK
    <2> QED BY <1>5, <1>9, <2>1, QuietKeeps
  <1> QED
    BY <1>6, <1>7, <1>8, <1>9

LEMMA AssemblyRecorded ==
    ASSUME KInv, NEW scope \in Scopes, NEW entries, RecordAssembly(scope, entries)
    PROVE  caphits' \in [Scopes -> Nat]
  <1>1. caphits \in [Scopes -> Nat]
    BY DEF KInv, KnowledgeTypeOK
  <1> DEFINE more == IF caphits[scope] < MaxHits THEN caphits[scope] + 1 ELSE caphits[scope]
  <1>2. \/ caphits' = caphits
        \/ caphits' = [caphits EXCEPT ![scope] = more]
        \/ caphits' = [caphits EXCEPT ![scope] = 0]
    BY DEF RecordAssembly
  <1>3. more \in Nat
    BY <1>1
  <1> HIDE DEF more
  <1> QED
    BY <1>1, <1>2, <1>3

LEMMA SurfaceBeginStep ==
    ASSUME KInv, NEW scope \in Scopes, SurfaceBegin(scope) PROVE KInv' /\ RetiredStep
  <1>1. UNCHANGED <<kscene, kb, surfacer>>
    BY DEF SurfaceBegin
  <1>2. CASE surfacer.token = "current"
    <2>1. RecordAssembly(scope, surfacer.entries) /\ kpend' = kpend
      BY <1>2 DEF SurfaceBegin
    <2> QED BY <1>1, <2>1, AssemblyRecorded, PendingSound, QuietKeeps
  <1>3. CASE surfacer.token # "current"
    <2>1. kpend' = {[op |-> "surface", scope |-> scope, token |-> "current"]} /\ caphits' = caphits
      BY <1>3 DEF SurfaceBegin, Undertake
    <2>2. [op |-> "surface", scope |-> scope, token |-> "current"] \in Calls(Len(kb))
      BY DEF Calls
    <2>3. caphits' \in [Scopes -> Nat]
      BY <2>1 DEF KInv, KnowledgeTypeOK
    <2> QED BY <1>1, <2>1, <2>2, <2>3, QuietKeeps
  <1> QED
    BY <1>2, <1>3

LEMMA SurfaceEndStep ==
    ASSUME KInv, NEW p \in kpend, SurfaceEnd(p) PROVE KInv' /\ RetiredStep
  <1>1. /\ p.op = "surface" /\ p \in Calls(Len(kb))
        /\ surfacer' = [token |-> p.token, entries |-> kb]
        /\ RecordAssembly(p.scope, kb) /\ kpend' = kpend \ {p} /\ kscene' = kscene /\ kb' = kb
    BY PendingSound DEF SurfaceEnd, Leave
  <1>2. p \in [op: {"surface"}, scope: Scopes, token: {"current", "old"}]
    BY <1>1 DEF Calls
  <1>3. caphits' \in [Scopes -> Nat]
    BY <1>1, <1>2, AssemblyRecorded
  <1>4. SoundRecords' = SoundRecords /\ Calls(Len(kb))' = Calls(Len(kb))
    BY <1>1, SameScene, SameCalls
  <1>5. kb \in Seq(SoundRecords) /\ kpend' \in SUBSET Calls(Len(kb))
    BY <1>1, PendingSound DEF KInv, KnowledgeTypeOK
  <1>6. KInv'
    BY <1>1, <1>2, <1>3, <1>4, <1>5 DEF KInv, KnowledgeTypeOK, CopyIsCurrent
  <1> QED
    BY <1>1, <1>6 DEF RetiredStep

LEMMA CrashStep == ASSUME KInv, KnowledgeCrash PROVE KInv' /\ RetiredStep
  <1>1. /\ kpend' = {} /\ surfacer' = [token |-> "none", entries |-> <<>>]
        /\ kscene' = kscene /\ kb' = kb /\ caphits' = caphits
    BY DEF KnowledgeCrash, NoCopy
  <1>2. SoundRecords' = SoundRecords
    BY <1>1, SameScene
  <1>3. kb \in Seq(SoundRecords) /\ caphits \in [Scopes -> Nat]
    BY DEF KInv, KnowledgeTypeOK
  <1>4. KInv'
    BY <1>1, <1>2, <1>3 DEF KInv, KnowledgeTypeOK, CopyIsCurrent
  <1> QED
    BY <1>1, <1>4 DEF RetiredStep

LEMMA ThirtyDaysStep == ASSUME KInv, ThirtyDays PROVE KInv' /\ RetiredStep
  <1>1. /\ kb' = Older(kb) /\ surfacer' = [surfacer EXCEPT !.entries = Older(@)]
        /\ kpend = {} /\ kpend' = kpend /\ kscene' = kscene /\ caphits' = caphits
    BY DEF ThirtyDays, Idle
  <1>2. SoundRecords' = SoundRecords
    BY <1>1, SameScene
  <1>3. /\ kb \in Seq(SoundRecords) /\ caphits \in [Scopes -> Nat]
        /\ surfacer \in [token: {"none", "current", "old"}, entries: Seq(SoundRecords)]
        /\ surfacer.token = "current" => surfacer.entries = kb
    BY DEF KInv, KnowledgeTypeOK, CopyIsCurrent
  <1>4. Older(kb) \in Seq(SoundRecords) /\ \A i \in 1..Len(kb) : Older(kb)[i].st = kb[i].st
    BY <1>3, OlderIsSound
  <1>5. surfacer.entries \in Seq(SoundRecords)
    BY <1>3
  <1>6. Older(surfacer.entries) \in Seq(SoundRecords)
    BY <1>5, OlderIsSound
  <1>7. /\ surfacer' \in [token: {"none", "current", "old"}, entries: Seq(SoundRecords)]
        /\ surfacer'.token = surfacer.token /\ surfacer'.entries = Older(surfacer.entries)
    BY <1>1, <1>3, <1>6
  <1>8. KInv'
    BY <1>1, <1>2, <1>3, <1>4, <1>7 DEF KInv, KnowledgeTypeOK, CopyIsCurrent
  <1>9. RetiredStep
    BY <1>1, <1>4 DEF RetiredStep, Ids, Live
  <1> QED
    BY <1>8, <1>9

LEMMA KnowledgeStarts == ASSUME KnowledgeInit PROVE KInv
  <1>1. /\ kb = <<>> /\ kpend = {} /\ surfacer = [token |-> "none", entries |-> <<>>]
        /\ caphits = [s \in Scopes |-> 0]
    BY DEF KnowledgeInit, NoCopy
  <1> QED
    BY <1>1 DEF KInv, KnowledgeTypeOK, CopyIsCurrent

LEMMA PruneBeginStep ==
    ASSUME KInv, NEW tiers, NEW cli \in BOOLEAN, PruneBegin(tiers, cli) PROVE KInv' /\ RetiredStep
  <1> DEFINE todo == PruneExpiredEntries(tiers)
  <1>1. kpend' = {[op |-> "prune", todo |-> todo, cli |-> cli]} /\ UNCHANGED <<kscene, kb, surfacer, caphits>>
    BY DEF PruneBegin, Undertake
  <1>2. todo \in SUBSET (1..Len(kb))
    BY DEF PruneExpiredEntries, Ids
  <1> HIDE DEF todo
  <1>3. [op |-> "prune", todo |-> todo, cli |-> cli] \in Calls(Len(kb))
    BY <1>2 DEF Calls
  <1>4. kpend' \in SUBSET Calls(Len(kb)) /\ caphits' \in [Scopes -> Nat]
    BY <1>1, <1>3 DEF KInv, KnowledgeTypeOK
  <1> QED
    BY <1>1, <1>4, QuietKeeps

LEMMA KnowledgeStep == ASSUME KInv, KnowledgeNext PROVE KInv' /\ RetiredStep
  <1>1. ASSUME NEW note \in kscene.notes, NEW tier \in kscene.tiers, ContributeChecked(note, tier)
        PROVE  KInv' /\ RetiredStep
    BY <1>1, ContributeStep
  <1>2. ASSUME NEW i \in Ids, OnEntry(i) PROVE KInv' /\ RetiredStep
    BY <1>2, OnEntryStep
  <1>3. CASE Housekeeping
    <2>1. ASSUME NEW s \in Scopes \cup {"all"}, NEW cli \in BOOLEAN, CompactBegin(s, cli)
          PROVE  KInv' /\ RetiredStep
      BY <2>1, CompactBeginStep
    <2>2. ASSUME NEW t \in {{2}, {3}, {2, 3}}, NEW cli \in BOOLEAN, PruneBegin(t, cli)
          PROVE  KInv' /\ RetiredStep
      BY <2>2, PruneBeginStep
    <2>3. ASSUME NEW keep \in Ids, NEW drop \in Ids, NEW merge \in BOOLEAN,
                 ResolveBegin(keep, drop, merge) \/ CliResolveBegin(keep, drop, merge)
          PROVE  KInv' /\ RetiredStep
      BY <2>3, ResolveBeginStep, CliResolveBeginStep
    <2>4. ASSUME NEW s \in Scopes \ {"project"}, SurfaceBegin(s) PROVE KInv' /\ RetiredStep
      BY <2>4, SurfaceBeginStep
    <2> QED BY <1>3, <2>1, <2>2, <2>3, <2>4 DEF Housekeeping
  <1>4. ASSUME NEW p \in kpend,
               \/ ContributeWritten(p) \/ CompactStep(p) \/ PruneStep(p) \/ ResolveStep(p)
               \/ CliResolveStep(p) \/ SurfaceEnd(p)
        PROVE  KInv' /\ RetiredStep
    BY <1>4, ContributeWrittenStep, CompactStepStep, PruneStepStep, ResolveStepStep,
       CliResolveStepStep, SurfaceEndStep
  <1>5. CASE KnowledgeCrash
    BY <1>5, CrashStep
  <1>6. CASE ThirtyDays
    BY <1>6, ThirtyDaysStep
  <1> QED
    BY <1>1, <1>2, <1>3, <1>4, <1>5, <1>6 DEF KnowledgeNext

LEMMA KnowledgeStutter == ASSUME KInv, UNCHANGED kvars PROVE KInv' /\ RetiredStep
  <1>1. UNCHANGED <<kscene, kb, surfacer>> /\ kpend' = kpend /\ caphits' = caphits
    BY DEF kvars
  <1>2. kpend' \in SUBSET Calls(Len(kb)) /\ caphits' \in [Scopes -> Nat]
    BY <1>1 DEF KInv, KnowledgeTypeOK
  <1> QED
    BY <1>1, <1>2, QuietKeeps

LEMMA KnowledgeInvariant == KnowledgeSpec => []KInv
  <1>1. KnowledgeInit => KInv
    BY KnowledgeStarts
  <1>2. KInv /\ [KnowledgeNext]_kvars => KInv'
    BY KnowledgeStep, KnowledgeStutter
  <1> QED
    BY <1>1, <1>2, PTL DEF KnowledgeSpec

-----------------------------------------------------------------------------
(* The theorems. *)

(* Every entry, every snapshot a call holds and the server's copy are       *)
(* well-formed in every state: what is about to be written is an entry,    *)
(* and goes to an id that is there.                                        *)
THEOREM KnowledgeTypeCorrect == KnowledgeSpec => []KnowledgeTypeOK
  <1>1. KInv => KnowledgeTypeOK
    BY DEF KInv
  <1> QED
    BY <1>1, KnowledgeInvariant, PTL

(* knowledge.go:415, 528, 550: the status of every entry keeps up with its  *)
(* counters, though compaction writes back snapshots that are out of date. *)
THEOREM StatusFollowsCounters == KnowledgeSpec => []CountersMatchStatus
  <1>1. KInv => CountersMatchStatus
    <2> SUFFICES ASSUME KInv PROVE CountersMatchStatus
      OBVIOUS
    <2>1. \A i \in Ids : CounterRule(kb[i])
      BY EntryAt, Fields
    <2> QED BY <2>1 DEF CounterRule, CountersMatchStatus
  <1> QED
    BY <1>1, KnowledgeInvariant, PTL

(* compact.go:260: whatever the entries are, what a compaction files keeps  *)
(* a live entry with the topic and the content of every live one.          *)
THEOREM CompactionLosesNothing == KnowledgeSpec => []CompactionKeepsKnowledge
  <1>1. ASSUME KInv, NEW s \in Scopes \cup {"all"}, NEW i \in Ids, Live(kb[i])
        PROVE  \E j \in Ids :
                  /\ kb[j].topic = kb[i].topic /\ kb[j].content = kb[i].content
                  /\ \/ Live(kb[j]) /\ \A u \in CompactEntries(s) : u.id # j
                     \/ /\ \E u \in CompactEntries(s) : u.id = j
                        /\ \A u \in CompactEntries(s) : u.id = j => Live(u.e)
    <2>1. kb \in Seq(EntryRecords) /\ \A k \in Ids : CounterRule(kb[k])
      <3>1. kb \in Seq(SoundRecords)
        BY <1>1 DEF KInv, KnowledgeTypeOK
      <3>2. \A k \in Ids : CounterRule(kb[k])
        BY <1>1, EntryAt, Fields
      <3> QED BY <3>1, <3>2 DEF SoundRecords
    <2> DEFINE A == ActiveIds(s)
    <2>2. PICK processed \in SUBSET A :
             SaidAgain(processed, A) /\ \A u \in CompactEntries(s) : Filed(u, A, processed)
      BY <2>1, CompactionFiles
    <2>3. PICK j \in Ids : SameText(kb[i], kb[j]) /\ Live(kb[j]) /\ j \notin processed
      <3>1. CASE i \notin processed
        BY <1>1, <3>1 DEF SameText
      <3>2. CASE i \in processed
        BY <2>2, <3>2 DEF SaidAgain, ActiveIds
      <3> QED BY <3>1, <3>2
    <2> HIDE DEF A
    <2>4. \A u \in CompactEntries(s) : u.id = j => Live(u.e)
      BY <2>2, <2>3 DEF Filed
    <2> QED BY <2>3, <2>4 DEF SameText
  <1>2. KInv => CompactionKeepsKnowledge
    BY <1>1 DEF CompactionKeepsKnowledge
  <1> QED
    BY <1>2, KnowledgeInvariant, PTL

(* surfacer.go:115: the server's copy has what the directory has as long as *)
(* their tokens agree, whatever is written while it is read.               *)
THEOREM CopyFollowsDirectory == KnowledgeSpec => []CopyIsCurrent
  <1>1. KInv => CopyIsCurrent
    BY DEF KInv
  <1> QED
    BY <1>1, KnowledgeInvariant, PTL

(* validate/knowledge.go:28: only a compaction or a resolution that decided *)
(* on a snapshot from before brings a retired entry back.                  *)
THEOREM RetirementLasts == KnowledgeSpec => RetiredIsFinal
  <1>1. KInv /\ [KnowledgeNext]_kvars =>
           [\A i \in Ids : ~ Live(kb[i]) /\ Live(kb'[i]) =>
               \E p \in kpend : RevivesFromSnapshot(p, i)]_kvars
    BY KnowledgeStep DEF RetiredStep
  <1> QED
    BY <1>1, KnowledgeInvariant, PTL DEF KnowledgeSpec, RetiredIsFinal

(* What a step function does to a set of values, over and over.            *)
Iterating(f, n, b, step) == f[0] = b /\ \A k \in 1..n : f[k] = step[f[k - 1]]

LEMMA IteratedTo ==
    ASSUME NEW D, NEW b \in D, NEW step \in [D -> D], NEW n \in Nat
    PROVE  \E f \in [0..n -> D] : Iterating(f, n, b, step)
  <1> DEFINE T == {m \in 0..n : \E f \in [0..m -> D] : Iterating(f, m, b, step)}
  <1>1. 0 \in T
    <2> DEFINE f == [m \in 0..0 |-> b]
    <2>1. f \in [0..0 -> D] /\ Iterating(f, 0, b, step)
      BY DEF Iterating
    <2> HIDE DEF f
    <2> QED BY <2>1
  <1>2. ASSUME NEW m \in 1..n, m - 1 \in T PROVE m \in T
    <2>1. PICK f \in [0..(m - 1) -> D] : f[0] = b /\ \A k \in 1..(m - 1) : f[k] = step[f[k - 1]]
      BY <1>2 DEF Iterating
    <2> DEFINE g == [k \in 0..m |-> IF k = m THEN step[f[m - 1]] ELSE f[k]]
    <2>2. g \in [0..m -> D]
      BY <2>1
    <2>3. g[0] = b
      BY <2>1
    <2>4. ASSUME NEW k \in 1..m PROVE g[k] = step[g[k - 1]]
      BY <2>1
    <2> HIDE DEF g
    <2>5. Iterating(g, m, b, step)
      BY <2>3, <2>4 DEF Iterating
    <2> QED BY <2>2, <2>5
  <1> HIDE DEF T
  <1>3. n \in T
    BY <1>1, <1>2, UpTo
  <1> QED
    BY <1>3 DEF T

(* Sets that grow until they are closed are closed after as many steps as  *)
(* there are elements.                                                     *)
LEMMA ClosedInTime ==
    ASSUME NEW S, IsFiniteSet(S), NEW n \in Nat, Cardinality(S) <= n,
           NEW B, \A k \in 0..n : B[k] \in SUBSET S,
           NEW Open, 0 \in Open => B[0] # {},
           \A k \in 1..n : k \in Open => k - 1 \in Open /\ B[k - 1] \subseteq B[k] /\ B[k - 1] # B[k]
    PROVE  n \notin Open
  <1> SUFFICES ASSUME n \in Open PROVE FALSE
    OBVIOUS
  <1>1. \A k \in 0..n : n - k \in Open
    <2> DEFINE T == {k \in 0..n : n - k \in Open}
    <2>1. 0 \in T
      OBVIOUS
    <2>2. ASSUME NEW k \in 1..n, k - 1 \in T PROVE k \in T
      <3>1. n - (k - 1) \in Open /\ n - (k - 1) \in 1..n /\ (n - (k - 1)) - 1 = n - k
        BY <2>2
      <3>2. (n - (k - 1)) - 1 \in Open
        BY <3>1
      <3> QED BY <3>1, <3>2
    <2> HIDE DEF T
    <2>3. 0..n \subseteq T
      BY <2>1, <2>2, UpTo
    <2> QED BY <2>3 DEF T
  <1>2. \A k \in 0..n : k \in Open
    <2>1. \A k \in 0..n : n - k \in 0..n /\ n - (n - k) = k
      OBVIOUS
    <2> QED BY <1>1, <2>1
  <1>3. \A k \in 0..n : IsFiniteSet(B[k]) /\ Cardinality(B[k]) \in Nat /\ Cardinality(B[k]) <= Cardinality(S)
    <2>1. \A X \in SUBSET S : IsFiniteSet(X) /\ Cardinality(X) \in Nat /\ Cardinality(X) <= Cardinality(S)
      BY FS_Subset, FS_CardinalityType
    <2> QED BY <2>1
  <1>4. \A k \in 0..n : Cardinality(B[k]) >= k + 1
    <2> DEFINE T == {k \in 0..n : Cardinality(B[k]) >= k + 1}
    <2>1. 0 \in T
      <3>1. B[0] # {} /\ 0 \in 0..n
        BY <1>2
      <3>2. Cardinality(B[0]) # 0
        BY <1>3, <3>1, FS_EmptySet
      <3> QED BY <1>3, <3>1, <3>2
    <2>2. ASSUME NEW k \in 1..n, k - 1 \in T PROVE k \in T
      <3>1. k \in 0..n /\ k - 1 \in 0..n
        OBVIOUS
      <3>2. B[k - 1] \subseteq B[k] /\ B[k - 1] # B[k]
        BY <1>2, <3>1
      <3>3. Cardinality(B[k - 1]) <= Cardinality(B[k])
        BY <1>3, <3>1, <3>2, FS_Subset
      <3>4. Cardinality(B[k - 1]) # Cardinality(B[k])
        BY <1>3, <3>1, <3>2, FS_Subset
      <3>5. Cardinality(B[k - 1]) >= (k - 1) + 1
        BY <2>2
      <3>6. Cardinality(B[k - 1]) \in Nat /\ Cardinality(B[k]) \in Nat
        BY <1>3, <3>1
      <3>7. \A p, q \in Nat : p <= q /\ p # q /\ p >= (k - 1) + 1 => q >= k + 1
        OBVIOUS
      <3> QED BY <3>1, <3>3, <3>4, <3>5, <3>6, <3>7
    <2> HIDE DEF T
    <2>3. 0..n \subseteq T
      BY <2>1, <2>2, UpTo
    <2> QED BY <2>3 DEF T
  <1>5. n \in 0..n /\ Cardinality(S) \in Nat
    BY FS_CardinalityType
  <1> QED
    BY <1>3, <1>4, <1>5

-----------------------------------------------------------------------------
(* Conflicts.  As many rounds as there are tasks reach all there is.       *)
DepsIn(x, infos) == UNION {i.deps : i \in {j \in infos : j.id = x}}
Further(A, infos) == A \cup UNION {DepsIn(x, infos) : x \in A}
Rounds(w, id, infos) ==
    w = [n \in 0..Cardinality(infos) |-> IF n = 0 THEN DepsIn(id, infos) ELSE Further(w[n - 1], infos)]

LEMMA ReachableIs ==
    ASSUME NEW infos, IsFiniteSet(infos), NEW id
    PROVE  \E w : Rounds(w, id, infos) /\ Reachable(id, infos) = w[Cardinality(infos)]
  <1> DEFINE N == Cardinality(infos)
             U == UNION {i.deps : i \in infos}
             step == [A \in SUBSET U |-> Further(A, infos)]
             w == CHOOSE w : Rounds(w, id, infos)
  <1>1. Reachable(id, infos) = w[N]
    BY DEF Reachable, Rounds, DepsIn, Further
  <1>2. N \in Nat
    BY FS_CardinalityType
  <1>3. DepsIn(id, infos) \in SUBSET U
    BY DEF DepsIn
  <1>4. step \in [SUBSET U -> SUBSET U]
    BY DEF DepsIn, Further
  <1>5. PICK f \in [0..N -> SUBSET U] : Iterating(f, N, DepsIn(id, infos), step)
    <2> HIDE DEF N, U, step
    <2>1. \E f \in [0..N -> SUBSET U] : Iterating(f, N, DepsIn(id, infos), step)
      BY <1>2, <1>3, <1>4, IteratedTo
    <2> QED BY <2>1
  <1>6. \A n \in 0..N : f[n] = IF n = 0 THEN DepsIn(id, infos) ELSE Further(f[n - 1], infos)
    <2>1. ASSUME NEW n \in 0..N, n # 0 PROVE f[n] = Further(f[n - 1], infos)
      <3>1. n \in 1..N /\ n - 1 \in 0..N
        BY <1>2, <2>1
      <3>2. f[n - 1] \in SUBSET U /\ f[n] = step[f[n - 1]]
        BY <1>5, <3>1 DEF Iterating
      <3> QED BY <3>2
    <2>2. f[0] = DepsIn(id, infos)
      BY <1>5 DEF Iterating
    <2> QED BY <2>1, <2>2
  <1>7. Rounds(f, id, infos)
    <2>1. f = [n \in 0..N |-> f[n]]
      BY <1>5
    <2> HIDE DEF U
    <2> QED BY <1>6, <2>1 DEF Rounds
  <1>8. Rounds(w, id, infos)
    BY <1>7
  <1> HIDE DEF w
  <1> QED
    BY <1>1, <1>8

NextIn(x, A, infos) == \A i \in infos : i.id = x => i.deps \subseteq A

LEMMA ReachableIsClosed ==
    ASSUME NEW infos, IsFiniteSet(infos), NEW id
    PROVE  /\ NextIn(id, Reachable(id, infos), infos)
           /\ \A x \in Reachable(id, infos) : NextIn(x, Reachable(id, infos), infos)
  <1> DEFINE N == Cardinality(infos)
             Names == {i.id : i \in infos}
  <1>1. N \in Nat
    BY FS_CardinalityType
  <1>2. IsFiniteSet(Names) /\ Cardinality(Names) <= N
    <2> DEFINE f == [i \in infos |-> i.id]
    <2>1. f \in Surjection(infos, Names)
      BY DEF Surjection
    <2> QED BY <2>1, FS_Surjection
  <1>3. PICK w : Rounds(w, id, infos) /\ Reachable(id, infos) = w[N]
    BY ReachableIs
  <1>4. /\ w[0] = DepsIn(id, infos)
        /\ \A n \in 1..N : w[n] = Further(w[n - 1], infos)
    <2>1. \A n \in 0..N : w[n] = IF n = 0 THEN DepsIn(id, infos) ELSE Further(w[n - 1], infos)
      BY <1>3 DEF Rounds
    <2>2. 0 \in 0..N /\ \A n \in 1..N : n \in 0..N /\ n # 0
      BY <1>1
    <2> QED BY <2>1, <2>2
  <1> HIDE DEF N
  <1> DEFINE B == [n \in 0..N |-> w[n] \cap Names]
             Open == {n \in 0..N : \E x \in w[n] : ~ NextIn(x, w[n], infos)}
  <1>5. \A A : \A x \in A : NextIn(x, Further(A, infos), infos)
    BY DEF NextIn, Further, DepsIn
  <1>6. \A A, x : ~ NextIn(x, A, infos) => x \in Names
    BY DEF NextIn
  <1>7. 0 \in Open => B[0] # {}
    BY <1>1, <1>6
  <1>8. ASSUME NEW k \in 1..N, k \in Open
        PROVE  k - 1 \in Open /\ B[k - 1] \subseteq B[k] /\ B[k - 1] # B[k]
    <2>1. k - 1 \in 0..N /\ k \in 0..N /\ w[k] = Further(w[k - 1], infos)
      BY <1>1, <1>4
    <2>2. w[k - 1] \subseteq w[k]
      BY <2>1 DEF Further
    <2>3. PICK x \in w[k] : ~ NextIn(x, w[k], infos)
      BY <1>8
    <2>4. x \in Names
      BY <1>6, <2>3
    <2>5. x \notin w[k - 1]
      BY <1>5, <2>1, <2>3
    <2>6. B[k - 1] \subseteq B[k] /\ B[k - 1] # B[k]
      BY <2>1, <2>2, <2>4, <2>5
    <2>7. \E y \in w[k - 1] : ~ NextIn(y, w[k - 1], infos)
      <3>1. (\A y \in w[k - 1] : NextIn(y, w[k - 1], infos)) => w[k] = w[k - 1]
        BY <2>1 DEF NextIn, Further, DepsIn
      <3> QED BY <2>3, <2>5, <3>1
    <2> QED BY <2>1, <2>6, <2>7
  <1>9. N \notin Open
    <2>1. \A k \in 0..N : B[k] \in SUBSET Names
      OBVIOUS
    <2> HIDE DEF B, Open, Names
    <2> QED BY <1>1, <1>2, <1>7, <1>8, <2>1, ClosedInTime
  <1>10. \A x \in w[N] : NextIn(x, w[N], infos)
    BY <1>1, <1>9
  <1>11. NextIn(id, w[0], infos)
    BY <1>4 DEF NextIn, DepsIn
  <1>12. w[0] \subseteq w[N]
    <2> DEFINE T == {k \in 0..N : w[0] \subseteq w[k]}
    <2>1. 0 \in T
      BY <1>1
    <2>2. ASSUME NEW k \in 1..N, k - 1 \in T PROVE k \in T
      BY <1>4, <2>2 DEF Further
    <2> HIDE DEF T
    <2>3. 0..N \subseteq T
      BY <1>1, <2>1, <2>2, UpTo
    <2> QED BY <1>1, <2>3 DEF T
  <1> QED
    BY <1>3, <1>10, <1>11, <1>12 DEF NextIn

LEMMA SafePair ==
    ASSUME NEW a, NEW b, NEW infos, NEW branch,
           PairOf(a, b, infos, branch).advice = "safe_to_parallelise"
    PROVE  /\ b.id \notin Reachable(a.id, infos) /\ a.id \notin Reachable(b.id, infos)
           /\ a.files \cap b.files = {}
  <1> DEFINE order == DependencyOrder(a, b, infos)
             overlap == FileOverlap(a, b, branch)
             words == BoundaryCrossing(a, b)
             risk == Worse(overlap, Worse(order, words))
  <1>1. order = 0 /\ ~ (risk >= 2)
    BY DEF PairOf
  <1>2. overlap \in {0, 2, 3} /\ words \in {0, 1, 2} /\ order \in {0, 2, 3}
    BY DEF FileOverlap, BoundaryCrossing, DependencyOrder
  <1>3. overlap = 0
    <2> HIDE DEF overlap, words, order
    <2> QED BY <1>1, <1>2 DEF Worse
  <1>4. a.files \cap b.files = {}
    BY <1>3 DEF FileOverlap
  <1>5. b.id \notin Reachable(a.id, infos) /\ a.id \notin Reachable(b.id, infos)
    BY <1>1 DEF DependencyOrder
  <1> QED
    BY <1>4, <1>5

(* What a task waits for among the tasks checked, in however many steps,   *)
(* is among what the check reaches.                                        *)
LEMMA WaitsAreReached ==
    ASSUME NEW ids \in SUBSET TaskIDs, IsFiniteSet(ids), NEW a \in ids
    PROVE  WaitsFor(a, ids) \subseteq Reachable(a, {Info(t) : t \in ids})
  <1> DEFINE infos == {Info(t) : t \in ids}
             C == Reachable(a, infos) \cap ids
             edges == {e \in ids \X ids : e[2] \in work[e[1]].deps}
  <1>1. IsFiniteSet(infos)
    <2> DEFINE f == [t \in ids |-> Info(t)]
    <2>1. f \in Surjection(ids, infos)
      BY DEF Surjection
    <2> HIDE DEF f, infos
    <2> QED BY <2>1, FS_Surjection
  <1>2. \A t \in ids : Info(t) \in infos /\ Info(t).id = t /\ Info(t).deps = work[t].deps
    BY DEF Info
  <1> HIDE DEF infos
  <1>3. /\ NextIn(a, Reachable(a, infos), infos)
        /\ \A x \in Reachable(a, infos) : NextIn(x, Reachable(a, infos), infos)
    BY <1>1, ReachableIsClosed
  <1>4. \A e \in edges : e[1] \in C \cup {a} => e[2] \in C
    BY <1>2, <1>3 DEF NextIn
  <1>5. C \in SUBSET ids
    OBVIOUS
  <1>6. WaitsFor(a, ids) = Reached(ids, edges, a)
    BY DEF WaitsFor
  <1> HIDE DEF C, edges
  <1>7. Reached(ids, edges, a) \subseteq C
    BY <1>4, <1>5 DEF Reached
  <1> QED
    BY <1>6, <1>7 DEF C, infos

-----------------------------------------------------------------------------
(* Sums over finite sets.                                                  *)
Pick(s) == CHOOSE x \in s : TRUE
SumOver(fun, S) == FoldFunctionOnSet(+, 0, fun, S)
Summing(g, fun, S) == g = [s \in SUBSET S |-> IF s = {} THEN 0 ELSE fun[Pick(s)] + g[s \ {Pick(s)}]]

Counts(fun, S) == \A x \in S : fun[x] \in Nat
Takes(g, fun, S) == \A s \in SUBSET S : \A x \in s : g[s] = fun[x] + g[s \ {x}]
Table(g, fun, S) == g \in [SUBSET S -> Nat] /\ Summing(g, fun, S)

LEMMA SumUnfolds ==
    ASSUME NEW fun, NEW S, \E h : Summing(h, fun, S)
    PROVE  \E g : Summing(g, fun, S) /\ SumOver(fun, S) = g[S]
  <1> DEFINE g == CHOOSE g : Summing(g, fun, S)
  <1>1. SumOver(fun, S) = g[S]
    BY DEF SumOver, FoldFunctionOnSet, MapThenFoldSet, Summing, Pick
  <1>2. Summing(g, fun, S)
    OBVIOUS
  <1> HIDE DEF g
  <1> QED
    BY <1>1, <1>2

LEMMA PickIn == ASSUME NEW s, s # {} PROVE Pick(s) \in s
  BY DEF Pick

LEMMA Fewer ==
    ASSUME NEW S, IsFiniteSet(S), NEW s \in SUBSET S, NEW x \in s
    PROVE  /\ IsFiniteSet(s) /\ Cardinality(s) \in Nat \ {0} /\ Cardinality(s) <= Cardinality(S)
           /\ s \ {x} \in SUBSET S /\ IsFiniteSet(s \ {x}) /\ Cardinality(s \ {x}) = Cardinality(s) - 1
  <1>1. IsFiniteSet(s) /\ Cardinality(s) \in Nat /\ Cardinality(s) <= Cardinality(S)
    BY FS_Subset, FS_CardinalityType
  <1>2. IsFiniteSet(s \ {x}) /\ Cardinality(s \ {x}) = Cardinality(s) - 1
    BY <1>1, FS_RemoveElement
  <1>3. Cardinality(s) # 0
    BY <1>1, FS_EmptySet
  <1> QED
    BY <1>1, <1>2, <1>3

LEMMA SumIsThere ==
    ASSUME NEW S, IsFiniteSet(S), NEW fun, Counts(fun, S)
    PROVE  \E g : Table(g, fun, S)
  <1> DEFINE N == Cardinality(S)
             Steps(g, s) == g[s] = IF s = {} THEN 0 ELSE fun[Pick(s)] + g[s \ {Pick(s)}]
             T == {m \in 0..N : \E g \in [SUBSET S -> Nat] :
                                   \A s \in SUBSET S : Cardinality(s) <= m => Steps(g, s)}
  <1>1. N \in Nat /\ \A s \in SUBSET S : IsFiniteSet(s) /\ Cardinality(s) \in Nat /\ Cardinality(s) <= N
    BY FS_Subset, FS_CardinalityType
  <1> HIDE DEF N
  <1>2. 0 \in T
    <2> DEFINE g == [s \in SUBSET S |-> 0]
    <2>1. \A s \in SUBSET S : Cardinality(s) <= 0 => s = {}
      BY <1>1, FS_EmptySet
    <2>2. g \in [SUBSET S -> Nat] /\ \A s \in SUBSET S : Cardinality(s) <= 0 => Steps(g, s)
      BY <2>1
    <2> HIDE DEF g
    <2> QED BY <1>1, <2>2
  <1>3. ASSUME NEW m \in 1..N, m - 1 \in T PROVE m \in T
    <2>1. PICK g \in [SUBSET S -> Nat] : \A s \in SUBSET S : Cardinality(s) <= m - 1 => Steps(g, s)
      BY <1>3
    <2> DEFINE h == [s \in SUBSET S |-> IF Cardinality(s) = m THEN fun[Pick(s)] + g[s \ {Pick(s)}] ELSE g[s]]
    <2>2. ASSUME NEW s \in SUBSET S, s # {}
          PROVE  Pick(s) \in s /\ s \ {Pick(s)} \in SUBSET S /\ Cardinality(s \ {Pick(s)}) = Cardinality(s) - 1
      BY <2>2, PickIn, Fewer
    <2>3. \A s \in SUBSET S : Cardinality(s) = m => s # {}
      BY <1>1, FS_EmptySet
    <2>4. h \in [SUBSET S -> Nat]
      <3>1. ASSUME NEW s \in SUBSET S, Cardinality(s) = m PROVE fun[Pick(s)] + g[s \ {Pick(s)}] \in Nat
        <4>1. Pick(s) \in S /\ s \ {Pick(s)} \in SUBSET S
          BY <2>2, <2>3, <3>1
        <4>2. fun[Pick(s)] \in Nat /\ g[s \ {Pick(s)}] \in Nat
          BY <4>1 DEF Counts
        <4> QED BY <4>2
      <3> QED BY <3>1
    <2>5. ASSUME NEW s \in SUBSET S, Cardinality(s) <= m PROVE Steps(h, s)
      <3>1. CASE s = {}
        <4>1. Cardinality(s) <= m - 1 /\ Cardinality(s) # m
          BY <1>1, <3>1, FS_EmptySet
        <4>2. Steps(g, s) /\ h[s] = g[s]
          BY <2>1, <4>1
        <4> QED BY <3>1, <4>2
      <3>2. CASE s # {}
        <4>1. Pick(s) \in s /\ s \ {Pick(s)} \in SUBSET S /\ Cardinality(s \ {Pick(s)}) = Cardinality(s) - 1
          BY <2>2, <3>2
        <4>2. Cardinality(s) \in Nat /\ Cardinality(s) - 1 # m
          BY <1>1, <2>5
        <4>3. h[s \ {Pick(s)}] = g[s \ {Pick(s)}]
          BY <4>1, <4>2
        <4>4. h[s] = fun[Pick(s)] + g[s \ {Pick(s)}]
          <5>1. CASE Cardinality(s) = m
            BY <5>1
          <5>2. CASE Cardinality(s) # m
            <6>1. Cardinality(s) <= m - 1
              BY <2>5, <4>2, <5>2
            <6>2. Steps(g, s)
              BY <2>1, <6>1
            <6> QED BY <3>2, <5>2, <6>2
          <5> QED BY <5>1, <5>2
        <4> HIDE DEF h
        <4> QED BY <3>2, <4>3, <4>4
      <3> QED BY <3>1, <3>2
    <2> HIDE DEF h, Steps
    <2> QED BY <1>1, <2>4, <2>5
  <1> HIDE DEF T
  <1>4. N \in T
    <2>1. 0..N \subseteq T
      BY <1>1, <1>2, <1>3, UpTo
    <2> QED BY <1>1, <2>1
  <1>5. PICK g \in [SUBSET S -> Nat] : \A s \in SUBSET S : Cardinality(s) <= N => Steps(g, s)
    BY <1>4 DEF T
  <1>6. \A s \in SUBSET S : Steps(g, s)
    BY <1>1, <1>5
  <1>7. g = [s \in SUBSET S |-> g[s]]
    OBVIOUS
  <1>8. Summing(g, fun, S)
    BY <1>6, <1>7 DEF Summing
  <1> QED
    BY <1>8 DEF Table

(* Whatever element is taken first. *)
LEMMA SumTakes ==
    ASSUME NEW S, IsFiniteSet(S), NEW fun, Counts(fun, S), NEW g, Table(g, fun, S)
    PROVE  Takes(g, fun, S)
  <1> DEFINE N == Cardinality(S)
             T == {m \in 0..N : \A s \in SUBSET S : Cardinality(s) <= m => \A x \in s : g[s] = fun[x] + g[s \ {x}]}
  <1>1. N \in Nat /\ \A s \in SUBSET S : IsFiniteSet(s) /\ Cardinality(s) \in Nat /\ Cardinality(s) <= N
    BY FS_Subset, FS_CardinalityType
  <1> HIDE DEF N
  <1>2. 0 \in T
    <2>1. \A s \in SUBSET S : Cardinality(s) <= 0 => s = {}
      BY <1>1, FS_EmptySet
    <2> QED BY <1>1, <2>1
  <1>3. ASSUME NEW m \in 1..N, m - 1 \in T PROVE m \in T
    <2>1. ASSUME NEW s \in SUBSET S, Cardinality(s) <= m, NEW x \in s PROVE g[s] = fun[x] + g[s \ {x}]
      <3> DEFINE p == Pick(s)
      <3>1. p \in s
        BY PickIn
      <3> HIDE DEF p
      <3>2. g[s] = fun[p] + g[s \ {p}]
        BY DEF Table, Summing, p
      <3>3. CASE x = p
        BY <3>2, <3>3
      <3>4. CASE x # p
        <4>1. /\ s \ {p} \in SUBSET S /\ Cardinality(s \ {p}) = Cardinality(s) - 1 /\ Cardinality(s) \in Nat
              /\ s \ {x} \in SUBSET S /\ Cardinality(s \ {x}) = Cardinality(s) - 1
          BY <3>1, Fewer
        <4>2. Cardinality(s \ {p}) <= m - 1 /\ Cardinality(s \ {x}) <= m - 1
          BY <2>1, <4>1
        <4>3. g[s \ {p}] = fun[x] + g[(s \ {p}) \ {x}]
          BY <1>3, <3>4, <4>1, <4>2
        <4>4. g[s \ {x}] = fun[p] + g[(s \ {x}) \ {p}]
          BY <1>3, <3>1, <3>4, <4>1, <4>2
        <4>5. (s \ {p}) \ {x} = (s \ {x}) \ {p} /\ (s \ {x}) \ {p} \in SUBSET S
          OBVIOUS
        <4>6. fun[x] \in Nat /\ fun[p] \in Nat /\ g[(s \ {x}) \ {p}] \in Nat
          BY <3>1, <4>5 DEF Counts, Table
        <4>7. \A i, j, k \in Nat : i + (j + k) = j + (i + k)
          OBVIOUS
        <4>8. g[s] = fun[p] + (fun[x] + g[(s \ {x}) \ {p}])
          BY <3>2, <4>3, <4>5
        <4>9. fun[p] + (fun[x] + g[(s \ {x}) \ {p}]) = fun[x] + (fun[p] + g[(s \ {x}) \ {p}])
          BY <4>6, <4>7
        <4> QED BY <4>4, <4>8, <4>9
      <3> QED BY <3>3, <3>4
    <2> QED BY <2>1
  <1> HIDE DEF T
  <1>4. N \in T
    <2>1. 0..N \subseteq T
      BY <1>1, <1>2, <1>3, UpTo
    <2> QED BY <1>1, <2>1
  <1> QED
    BY <1>1, <1>4 DEF T, Takes

LEMMA SumAgrees ==
    ASSUME NEW S, IsFiniteSet(S), NEW fun, Counts(fun, S), NEW g, Table(g, fun, S),
           NEW R \in SUBSET S, NEW other, \A x \in R : other[x] = fun[x], NEW h, Summing(h, other, R)
    PROVE  h[R] = g[R]
  <1> DEFINE N == Cardinality(R)
             T == {m \in 0..N : \A s \in SUBSET R : Cardinality(s) <= m => h[s] = g[s]}
  <1>1. IsFiniteSet(R)
    BY FS_Subset
  <1>2. N \in Nat /\ \A s \in SUBSET R : IsFiniteSet(s) /\ Cardinality(s) \in Nat /\ Cardinality(s) <= N
    BY <1>1, FS_Subset, FS_CardinalityType
  <1> HIDE DEF N
  <1>3. g[{}] = 0 /\ h[{}] = 0
    <2>1. {} \in SUBSET S /\ {} \in SUBSET R
      OBVIOUS
    <2> QED BY <2>1 DEF Table, Summing
  <1>4. 0 \in T
    <2>1. \A s \in SUBSET R : Cardinality(s) <= 0 => s = {}
      BY <1>2, FS_EmptySet
    <2>2. \A s \in SUBSET R : Cardinality(s) <= 0 => h[s] = g[s]
      BY <1>3, <2>1
    <2> QED BY <1>2, <2>2
  <1>5. ASSUME NEW m \in 1..N, m - 1 \in T PROVE m \in T
    <2>1. ASSUME NEW s \in SUBSET R, Cardinality(s) <= m, s # {} PROVE h[s] = g[s]
      <3> DEFINE p == Pick(s)
      <3>1. p \in s
        BY <2>1, PickIn
      <3> HIDE DEF p
      <3>2. h[s] = other[p] + h[s \ {p}]
        BY <2>1 DEF Summing, p
      <3>3. g[s] = fun[p] + g[s \ {p}]
        BY <2>1 DEF Table, Summing, p
      <3>4. s \ {p} \in SUBSET R /\ Cardinality(s \ {p}) = Cardinality(s) - 1 /\ Cardinality(s) \in Nat
        BY <1>1, <3>1, Fewer
      <3>5. Cardinality(s \ {p}) <= m - 1
        BY <2>1, <3>4
      <3>6. h[s \ {p}] = g[s \ {p}]
        BY <1>5, <3>4, <3>5
      <3> QED BY <3>1, <3>2, <3>3, <3>6
    <2>2. ASSUME NEW s \in SUBSET R, Cardinality(s) <= m PROVE h[s] = g[s]
      BY <1>3, <2>1, <2>2
    <2> QED BY <2>2
  <1> HIDE DEF T
  <1>6. N \in T
    <2>1. 0..N \subseteq T
      BY <1>2, <1>4, <1>5, UpTo
    <2> QED BY <1>2, <2>1
  <1> QED
    BY <1>2, <1>6 DEF T

LEMMA SumsOf ==
    ASSUME NEW S, IsFiniteSet(S), NEW fun, Counts(fun, S)
    PROVE  /\ SumOver(fun, {}) = 0
           /\ \A s \in SUBSET S : SumOver(fun, s) \in Nat
           /\ \A s \in SUBSET S : \A x \in s : SumOver(fun, s) = fun[x] + SumOver(fun, s \ {x})
  <1>1. PICK g : Table(g, fun, S)
    BY SumIsThere
  <1>2. Takes(g, fun, S)
    BY <1>1, SumTakes
  <1>3. ASSUME NEW s \in SUBSET S PROVE SumOver(fun, s) = g[s]
    <2>1. IsFiniteSet(s) /\ Counts(fun, s)
      BY FS_Subset DEF Counts
    <2>2. \E h : Summing(h, fun, s)
      BY <2>1, SumIsThere DEF Table
    <2>3. PICK h : Summing(h, fun, s) /\ SumOver(fun, s) = h[s]
      BY <2>2, SumUnfolds
    <2> QED BY <1>1, <2>3, SumAgrees
  <1>4. g[{}] = 0
    <2>1. {} \in SUBSET S
      OBVIOUS
    <2> QED BY <1>1, <2>1 DEF Table, Summing
  <1>5. \A s \in SUBSET S : \A x \in s : s \ {x} \in SUBSET S
    OBVIOUS
  <1> QED
    BY <1>1, <1>2, <1>3, <1>4, <1>5 DEF Table, Takes

LEMMA SumsAlike ==
    ASSUME NEW S, IsFiniteSet(S), NEW fun, Counts(fun, S), NEW other, \A x \in S : other[x] = fun[x]
    PROVE  SumOver(other, S) = SumOver(fun, S)
  <1>1. PICK g : Table(g, fun, S)
    BY SumIsThere
  <1>2. PICK h : Summing(h, other, S) /\ SumOver(other, S) = h[S]
    <2>1. Counts(other, S)
      BY DEF Counts
    <2>2. \E k : Summing(k, other, S)
      BY <2>1, SumIsThere DEF Table
    <2> QED BY <2>2, SumUnfolds
  <1>3. PICK f : Summing(f, fun, S) /\ SumOver(fun, S) = f[S]
    <2>1. \E k : Summing(k, fun, S)
      BY <1>1 DEF Table
    <2> QED BY <2>1, SumUnfolds
  <1>4. S \in SUBSET S
    OBVIOUS
  <1>5. h[S] = g[S]
    BY <1>1, <1>2, <1>4, SumAgrees
  <1>6. f[S] = g[S]
    BY <1>1, <1>3, <1>4, SumAgrees
  <1> QED
    BY <1>2, <1>3, <1>5, <1>6

LEMMA SumOfPart ==
    ASSUME NEW S, IsFiniteSet(S), NEW fun, Counts(fun, S), NEW R \in SUBSET S
    PROVE  SumOver(fun, R) <= SumOver(fun, S)
  <1> DEFINE N == Cardinality(S)
             T == {m \in 0..N : \A s \in SUBSET S : Cardinality(s) <= m =>
                                   \A r \in SUBSET s : SumOver(fun, r) <= SumOver(fun, s)}
  <1>1. N \in Nat /\ \A s \in SUBSET S : IsFiniteSet(s) /\ Cardinality(s) \in Nat /\ Cardinality(s) <= N
    BY FS_Subset, FS_CardinalityType
  <1> HIDE DEF N
  <1>2. /\ \A s \in SUBSET S : SumOver(fun, s) \in Nat
        /\ \A s \in SUBSET S : \A x \in s : SumOver(fun, s) = fun[x] + SumOver(fun, s \ {x})
    BY SumsOf
  <1>3. 0 \in T
    <2>1. \A s \in SUBSET S : Cardinality(s) <= 0 => s = {}
      BY <1>1, FS_EmptySet
    <2>2. \A s \in SUBSET S : s = {} => \A r \in SUBSET s : SumOver(fun, r) <= SumOver(fun, s)
      <3>1. {} \in SUBSET S /\ \A r \in SUBSET {} : r = {}
        OBVIOUS
      <3> QED BY <1>2, <3>1
    <2> QED BY <1>1, <2>1, <2>2
  <1>4. ASSUME NEW m \in 1..N, m - 1 \in T PROVE m \in T
    <2>1. ASSUME NEW s \in SUBSET S, Cardinality(s) <= m, NEW r \in SUBSET s
          PROVE  SumOver(fun, r) <= SumOver(fun, s)
      <3>1. CASE r = s
        BY <1>2, <3>1
      <3>2. CASE r # s
        <4>1. PICK x \in s : x \notin r
          BY <3>2
        <4>2. s \ {x} \in SUBSET S /\ Cardinality(s \ {x}) = Cardinality(s) - 1 /\ Cardinality(s) \in Nat
          BY Fewer
        <4>3. Cardinality(s \ {x}) <= m - 1 /\ r \in SUBSET (s \ {x})
          BY <2>1, <4>1, <4>2
        <4>4. SumOver(fun, r) <= SumOver(fun, s \ {x})
          BY <1>4, <4>2, <4>3
        <4>5. SumOver(fun, s) = fun[x] + SumOver(fun, s \ {x})
          BY <1>2
        <4>6. SumOver(fun, r) \in Nat /\ SumOver(fun, s \ {x}) \in Nat /\ fun[x] \in Nat
          BY <1>2, <4>2 DEF Counts
        <4>7. \A i, j, k \in Nat : i <= j => i <= k + j
          OBVIOUS
        <4> QED BY <4>4, <4>5, <4>6, <4>7
      <3> QED BY <3>1, <3>2
    <2> QED BY <2>1
  <1> HIDE DEF T
  <1>5. N \in T
    <2>1. 0..N \subseteq T
      BY <1>1, <1>3, <1>4, UpTo
    <2> QED BY <1>1, <2>1
  <1>6. S \in SUBSET S /\ Cardinality(S) <= N
    BY <1>1
  <1> QED
    BY <1>5, <1>6 DEF T

-----------------------------------------------------------------------------
(* Types of the records, and the answers of a conflict check.              *)
RowsTypeOK ==
    /\ parents \in [PlanOrBatch -> StrategicPlans \cup {"none"}]
    /\ members \in [FeatureIDs -> MemberRows] /\ featureRows \in [FeatureIDs -> MemberRows]
    /\ work \in [TaskIDs -> WorkRows] /\ taskRows \in [TaskIDs -> WorkRows]
    /\ batchRows \in SUBSET Batches

PairsApart(v) ==
    v.of \subseteq TaskIDs =>
        \A p \in {q \in v.pairs : q.advice = "safe_to_parallelise"} :
            /\ p.b \notin WaitsFor(p.a, v.of) /\ p.a \notin WaitsFor(p.b, v.of)
            /\ work[p.a].files \cap work[p.b].files = {}

(* While estimates change nothing was weighed, and while pairs are weighed *)
(* no record changes.                                                      *)
ConflictInv ==
    /\ RowsTypeOK
    /\ wpart # "conflict" => verdicts.pairs = {}
    /\ SafePairsAreApart

LEMMA RowsBegin == WorkloadInit => RowsTypeOK
  BY LoadsAreRecords DEF WorkloadInit, Carries, RowsTypeOK

LEMMA RowsStep == RowsTypeOK /\ [WorkloadNext]_wvars => RowsTypeOK'
  <1> SUFFICES ASSUME RowsTypeOK, [WorkloadNext]_wvars PROVE RowsTypeOK'
    OBVIOUS
  <1>1. \A points : ValidateEstimate(points) => points \in Nat
    BY ScaleIsNatural DEF ValidateEstimate
  <1>2. ASSUME NEW t \in TaskIDs, NEW points, SetTaskEstimate(t, points) PROVE RowsTypeOK'
    BY <1>1, <1>2 DEF SetTaskEstimate, RowsTypeOK, WorkRows, cacheRows
  <1>3. ASSUME NEW t \in TaskIDs, NEW s \in {"done", "not-planned"}, NEW server, MoveTask(t, s, server)
        PROVE  RowsTypeOK'
    <2>1. work' \in [TaskIDs -> WorkRows]
      <3>1. work' = [work EXCEPT ![t].status = s]
        BY <1>3 DEF MoveTask
      <3>2. s \in TaskStates /\ work \in [TaskIDs -> WorkRows]
        BY DEF TaskStates, RowsTypeOK
      <3> QED BY <3>1, <3>2 DEF WorkRows
    <2>2. taskRows' \in [TaskIDs -> WorkRows]
      BY <1>3, <2>1 DEF MoveTask, RowsTypeOK
    <2> QED BY <1>3, <2>1, <2>2 DEF MoveTask, RowsTypeOK
  <1>4. ASSUME NEW f \in FeatureIDs, NEW points, SetFeatureEstimate(f, points) PROVE RowsTypeOK'
    BY <1>1, <1>4 DEF SetFeatureEstimate, RowsTypeOK, MemberRows, cacheRows
  <1>5. ASSUME NEW f \in FeatureIDs, NEW b \in Batches, MoveFeature(f, b) PROVE RowsTypeOK'
    BY <1>5 DEF MoveFeature, RowsTypeOK, MemberRows, PlanOrBatch, cacheRows
  <1>6. ASSUME NEW p \in StrategicPlans, NEW q \in StrategicPlans \cup {"none"}, MovePlan(p, q)
        PROVE  RowsTypeOK'
    BY <1>6 DEF MovePlan, RowsTypeOK, PlanOrBatch, cacheRows
  <1>9. ASSUME NEW f \in FeatureIDs, UpdateFeature(f) PROVE RowsTypeOK'
    BY <1>9 DEF UpdateFeature, RowsTypeOK
  <1>10. ASSUME NEW b \in Batches, MoveBatch(b) PROVE RowsTypeOK'
    BY <1>10 DEF MoveBatch, RowsTypeOK
  <1>11. ASSUME NEW started, RebuildCache(started) PROVE RowsTypeOK'
    BY <1>11 DEF RebuildCache, RowsTypeOK
  <1>7. RollupStep \/ (\E p : Ask(p)) \/ (\E v : Answered(v)) \/ UNCHANGED wvars => RowsTypeOK'
    BY DEF RollupStep, Ask, Answered, wvars, cacheRows, RowsTypeOK
  <1>8. Weighing => \E v : Answered(v)
    BY DEF Weighing, Check, CheckFeatures, AnnotateQueue, DependencyStatus
  <1> QED
    BY <1>2, <1>3, <1>4, <1>5, <1>6, <1>7, <1>8, <1>9, <1>10, <1>11 DEF WorkloadNext, Estimating

LEMMA CheckedApart ==
    ASSUME NEW ids \in Ordered(TaskIDs), NEW branch
    PROVE  PairsApart([of |-> ToSet(ids),
                       pairs |-> Weighed([i \in DOMAIN ids |-> Info(ids[i])], branch)])
  <1> DEFINE infos == [i \in DOMAIN ids |-> Info(ids[i])]
             all == ToSet(ids)
  <1>1. /\ all = {ids[i] : i \in DOMAIN ids} /\ all \in SUBSET TaskIDs
        /\ \A i \in DOMAIN ids : ids[i] \in all
    BY DEF Ordered, ToSet
  <1>2. IsFiniteSet(all)
    BY <1>1, LoadsAreRecords, FS_Subset
  <1>3. ToSet(infos) = {Info(t) : t \in all}
    BY <1>1 DEF ToSet
  <1>4. ASSUME NEW p \in Weighed(infos, branch), p.advice = "safe_to_parallelise"
        PROVE  /\ p.b \notin WaitsFor(p.a, all) /\ p.a \notin WaitsFor(p.b, all)
               /\ work[p.a].files \cap work[p.b].files = {}
    <2>1. p \in PairsOf(infos, branch)
      BY DEF Weighed
    <2>2. PICK i, j \in DOMAIN ids : p = PairOf(infos[i], infos[j], ToSet(infos), branch)
      BY <2>1 DEF PairsOf
    <2>3. /\ infos[i].id = ids[i] /\ infos[j].id = ids[j]
          /\ infos[i].files = work[ids[i]].files /\ infos[j].files = work[ids[j]].files
      BY DEF Info
    <2>4. p.a = ids[i] /\ p.b = ids[j]
      BY <2>2, <2>3 DEF PairOf
    <2> HIDE DEF infos, all
    <2>5. /\ ids[j] \notin Reachable(ids[i], ToSet(infos)) /\ ids[i] \notin Reachable(ids[j], ToSet(infos))
          /\ work[ids[i]].files \cap work[ids[j]].files = {}
      BY <1>4, <2>2, <2>3, SafePair
    <2>6. /\ WaitsFor(ids[i], all) \subseteq Reachable(ids[i], ToSet(infos))
          /\ WaitsFor(ids[j], all) \subseteq Reachable(ids[j], ToSet(infos))
      BY <1>1, <1>2, <1>3, WaitsAreReached
    <2> QED BY <2>4, <2>5, <2>6
  <1> HIDE DEF infos, all
  <1>5. PairsApart([of |-> all, pairs |-> Weighed(infos, branch)])
    BY <1>4 DEF PairsApart
  <1> QED
    BY <1>5 DEF infos, all

LEMMA WeighingStep ==
    ASSUME RowsTypeOK, Weighing PROVE SafePairsAreApart'
  <1>1. ASSUME NEW v, Answered(v), PairsApart(v) PROVE SafePairsAreApart'
    BY <1>1 DEF Answered, PairsApart, SafePairsAreApart, WaitsFor, Reached
  <1>2. ASSUME NEW v, \A p \in v.pairs : p.advice # "safe_to_parallelise" PROVE PairsApart(v)
    BY <1>2 DEF PairsApart
  <1>3. ASSUME NEW ids \in Ordered(TaskIDs), Check(ids, branches) \/ Check(ids, NoBranches)
        PROVE  SafePairsAreApart'
    BY <1>1, <1>3, CheckedApart DEF Check
  <1>4. ASSUME NEW fs \in Ordered(FeatureIDs), CheckFeatures(fs) PROVE SafePairsAreApart'
    <2>1. ~ (ToSet(fs) \subseteq TaskIDs)
      <3>1. 1 \in DOMAIN fs /\ fs[1] \in FeatureIDs
        BY DEF Ordered
      <3> QED BY <3>1, LoadsAreRecords DEF ToSet
    <2> DEFINE v == [of |-> ToSet(fs),
                     pairs |-> Weighed([i \in DOMAIN fs |-> FeatureInfo(fs[i])], branches)]
    <2>2. Answered(v)
      BY <1>4 DEF CheckFeatures
    <2>3. v.of = ToSet(fs)
      OBVIOUS
    <2> HIDE DEF v
    <2>4. PairsApart(v)
      BY <2>1, <2>3 DEF PairsApart
    <2> QED BY <1>1, <2>2, <2>4
  <1>5. ASSUME AnnotateQueue PROVE SafePairsAreApart'
    <2> DEFINE advice(t) == IF QueueRisk(t).with = {} THEN "clear" ELSE "marked"
               v == [of |-> ActiveTasks,
                     pairs |-> {[a |-> t, b |-> "active", risk |-> QueueRisk(t).risk, advice |-> advice(t)] :
                                   t \in {u \in TaskIDs : work[u].status = "ready"}}]
    <2>1. Answered(v)
      BY <1>5 DEF AnnotateQueue
    <2>2. \A t : advice(t) # "safe_to_parallelise"
      OBVIOUS
    <2> HIDE DEF advice
    <2>3. \A p \in v.pairs : p.advice # "safe_to_parallelise"
      BY <2>2
    <2> HIDE DEF v
    <2> QED BY <1>1, <1>2, <2>1, <2>3
  <1>6. ASSUME NEW t \in TaskIDs, DependencyStatus(t) PROVE SafePairsAreApart'
    <2> DEFINE advice(d) == IF d \in Blocking(t) THEN "blocking" ELSE work[d].status
               v == [of |-> {t}, pairs |-> {[a |-> t, b |-> d, risk |-> Cardinality(Blocking(t)),
                                             advice |-> advice(d)] : d \in work[t].deps}]
    <2>1. Answered(v)
      BY <1>6 DEF DependencyStatus
    <2>2. \A d \in work[t].deps : d \in TaskIDs
      BY DEF RowsTypeOK, WorkRows
    <2>3. \A d \in TaskIDs : work[d].status # "safe_to_parallelise"
      BY DEF RowsTypeOK, WorkRows, TaskStates
    <2>4. \A d \in work[t].deps : advice(d) # "safe_to_parallelise"
      BY <2>2, <2>3
    <2> HIDE DEF advice
    <2>5. \A p \in v.pairs : p.advice # "safe_to_parallelise"
      BY <2>4
    <2> HIDE DEF v
    <2> QED BY <1>1, <1>2, <2>1, <2>5
  <1> QED
    BY <1>3, <1>4, <1>5, <1>6 DEF Weighing

(* docs/orchestration-and-knowledge.md, "No dependency path exists": of two *)
(* tasks that are called safe to run side by side neither waits for the    *)
(* other through tasks that were checked too, and they plan no file        *)
(* together, for any number of tasks.                                      *)
THEOREM SafePairsStayApart == WorkloadSpec => []SafePairsAreApart
  <1>1. WorkloadInit => ConflictInv
    <2>1. WorkloadInit => verdicts.pairs = {}
      BY DEF WorkloadInit, Carries
    <2> QED BY <2>1, RowsBegin DEF ConflictInv, SafePairsAreApart
  <1>2. ConflictInv /\ [WorkloadNext]_wvars => ConflictInv'
    <2> SUFFICES ASSUME ConflictInv, [WorkloadNext]_wvars PROVE ConflictInv'
      OBVIOUS
    <2>1. RowsTypeOK'
      BY RowsStep DEF ConflictInv
    <2>2. wpart' = wpart
      BY DEF WorkloadNext, Estimating, Weighing, wvars, RollupStep, Ask, MovePlan, SetTaskEstimate,
             MoveTask, SetFeatureEstimate, MoveFeature, UpdateFeature, MoveBatch, RebuildCache, Check,
             CheckFeatures, AnnotateQueue, DependencyStatus, Answered
    <2>3. ASSUME wpart # "conflict" PROVE verdicts' = verdicts
      BY <2>3 DEF WorkloadNext, Estimating, wvars, RollupStep, Ask, MovePlan, SetTaskEstimate,
                  MoveTask, SetFeatureEstimate, MoveFeature, UpdateFeature, MoveBatch, RebuildCache
    <2>4. CASE wpart # "conflict"
      BY <2>1, <2>2, <2>3, <2>4 DEF ConflictInv, SafePairsAreApart
    <2>5. CASE wpart = "conflict" /\ WorkloadNext
      <3>1. Weighing
        BY <2>5 DEF WorkloadNext
      <3>2. SafePairsAreApart'
        BY <3>1, WeighingStep DEF ConflictInv
      <3> QED BY <2>1, <2>2, <2>5, <3>2 DEF ConflictInv
    <2>6. CASE UNCHANGED wvars
      BY <2>1, <2>6 DEF ConflictInv, SafePairsAreApart, WaitsFor, Reached, wvars
    <2> QED BY <2>4, <2>5, <2>6
  <1>3. ConflictInv => SafePairsAreApart
    BY DEF ConflictInv
  <1> QED
    BY <1>1, <1>2, <1>3, PTL DEF WorkloadSpec

-----------------------------------------------------------------------------
(* What lies under a plan.                                                 *)
LiesUnder(p) == Reached(PlanOrBatch, {<<parents[q], q>> : q \in PlanOrBatch}, p)
PlansBelow(p) == {q \in StrategicPlans : parents[q] = p}
BatchesOf(p) == {b \in ListBatches : parents[b] = p}
FeaturesOf(b) == {f \in FeatureIDs : featureRows[f].parent = b}
Downward(C, p) == \A q \in PlanOrBatch : parents[q] \in C \cup {p} => q \in C

LEMMA UnderIsLeast ==
    ASSUME NEW p, NEW C \in SUBSET PlanOrBatch, Downward(C, p)
    PROVE  LiesUnder(p) \subseteq C
  <1> DEFINE E == {<<parents[q], q>> : q \in PlanOrBatch}
  <1>1. \A e \in E : e[1] \in C \cup {p} => e[2] \in C
    BY DEF Downward
  <1> HIDE DEF E
  <1>2. Reached(PlanOrBatch, E, p) \subseteq C
    BY <1>1 DEF Reached
  <1> QED
    BY <1>2 DEF LiesUnder, E

LEMMA UnderIsDownward ==
    ASSUME NEW p PROVE LiesUnder(p) \in SUBSET PlanOrBatch /\ Downward(LiesUnder(p), p)
  <1> DEFINE E == {<<parents[q], q>> : q \in PlanOrBatch}
  <1>1. \A q \in PlanOrBatch : <<parents[q], q>> \in E
    OBVIOUS
  <1>2. \A q \in PlanOrBatch : <<parents[q], q>>[1] = parents[q] /\ <<parents[q], q>>[2] = q
    OBVIOUS
  <1> HIDE DEF E
  <1>3. LiesUnder(p) = Reached(PlanOrBatch, E, p)
    BY DEF LiesUnder, E
  <1>4. ASSUME NEW q \in PlanOrBatch, parents[q] \in LiesUnder(p) \cup {p} PROVE q \in LiesUnder(p)
    <2>1. ASSUME NEW C \in SUBSET PlanOrBatch, \A e \in E : e[1] \in C \cup {p} => e[2] \in C
          PROVE  q \in C
      <3>1. parents[q] \in C \cup {p}
        BY <1>3, <1>4, <2>1 DEF Reached
      <3> QED BY <1>1, <1>2, <2>1, <3>1
    <2> QED BY <1>3, <2>1 DEF Reached
  <1> QED
    BY <1>3, <1>4 DEF Reached, Downward

(* A plan or batch lies under the plan above it and under what that lies   *)
(* under, and under nothing else.                                          *)
LEMMA UnderByLast ==
    ASSUME NEW p, NEW y \in PlanOrBatch
    PROVE  y \in LiesUnder(p) <=> parents[y] = p \/ parents[y] \in LiesUnder(p)
  <1>1. LiesUnder(p) \in SUBSET PlanOrBatch /\ Downward(LiesUnder(p), p)
    BY UnderIsDownward
  <1> DEFINE C == {z \in LiesUnder(p) : parents[z] = p \/ parents[z] \in LiesUnder(p)}
  <1>2. C \in SUBSET PlanOrBatch /\ Downward(C, p)
    BY <1>1 DEF Downward
  <1>3. LiesUnder(p) \subseteq C
    <2> HIDE DEF C
    <2> QED BY <1>2, UnderIsLeast
  <1> QED
    BY <1>1, <1>3 DEF Downward

LEMMA UnderIsTransitive ==
    ASSUME NEW p, NEW q \in LiesUnder(p) PROVE LiesUnder(q) \subseteq LiesUnder(p)
  <1>1. LiesUnder(p) \in SUBSET PlanOrBatch /\ Downward(LiesUnder(p), p)
    BY UnderIsDownward
  <1>2. Downward(LiesUnder(p), q)
    BY <1>1 DEF Downward
  <1> QED
    BY <1>1, <1>2, UnderIsLeast

LEMMA UnderByFirst ==
    ASSUME RowsTypeOK, NEW p, NEW y \in PlanOrBatch
    PROVE  y \in LiesUnder(p) <=> parents[y] = p \/ \E q \in PlansBelow(p) : y \in LiesUnder(q)
  <1> DEFINE C == {z \in PlanOrBatch : parents[z] = p \/ \E q \in PlansBelow(p) : z \in LiesUnder(q)}
  <1>1. Downward(C, p)
    <2>1. ASSUME NEW z \in PlanOrBatch, parents[z] \in C PROVE z \in C
      <3>1. parents[z] \in StrategicPlans
        BY <2>1, LoadsAreRecords DEF RowsTypeOK
      <3>2. CASE parents[parents[z]] = p
        <4>1. parents[z] \in PlansBelow(p)
          BY <3>1, <3>2 DEF PlansBelow
        <4>2. z \in LiesUnder(parents[z])
          BY UnderByLast
        <4> QED BY <4>1, <4>2
      <3>3. CASE \E q \in PlansBelow(p) : parents[z] \in LiesUnder(q)
        BY <3>3, UnderByLast
      <3> QED BY <2>1, <3>2, <3>3
    <2>2. ASSUME NEW z \in PlanOrBatch, parents[z] = p PROVE z \in C
      BY <2>2
    <2> HIDE DEF C
    <2> QED BY <2>1, <2>2 DEF Downward
  <1>2. LiesUnder(p) \subseteq C
    <2>1. C \in SUBSET PlanOrBatch
      OBVIOUS
    <2> HIDE DEF C
    <2> QED BY <1>1, <2>1, UnderIsLeast
  <1>3. ASSUME NEW q \in PlansBelow(p) PROVE LiesUnder(q) \subseteq LiesUnder(p)
    <2>1. q \in LiesUnder(p)
      BY UnderByLast DEF PlansBelow, PlanOrBatch
    <2> QED BY <2>1, UnderIsTransitive
  <1> QED
    BY <1>2, <1>3, UnderByLast

(* Under a plan that is not on a circle nothing is, and what lies under    *)
(* one of the plans below it does not lie under another.                   *)
LEMMA NoCircleUnder ==
    ASSUME RowsTypeOK, NEW p, p \notin LiesUnder(p), NEW q \in LiesUnder(p)
    PROVE  q \notin LiesUnder(q)
  <1> DEFINE C == {z \in LiesUnder(p) : z \notin LiesUnder(z)}
  <1>1. LiesUnder(p) \in SUBSET PlanOrBatch
    BY UnderIsDownward
  <1>2. Downward(C, p)
    <2>1. ASSUME NEW z \in PlanOrBatch, parents[z] \in C \cup {p}, z \in LiesUnder(z) PROVE FALSE
      <3>1. z \in LiesUnder(p)
        BY <2>1, UnderByLast
      <3>2. parents[z] = z \/ parents[z] \in LiesUnder(z)
        BY <2>1, UnderByLast
      <3>3. parents[z] \in LiesUnder(z)
        BY <2>1, <3>2
      <3>4. CASE parents[z] = p
        BY <3>1, <3>3, <3>4, UnderIsTransitive
      <3>5. CASE parents[z] \in C
        <4>1. z \in LiesUnder(parents[z])
          BY UnderByLast
        <4>2. parents[z] \in LiesUnder(parents[z])
          BY <3>3, <4>1, UnderIsTransitive
        <4> QED BY <3>5, <4>2
      <3> QED BY <2>1, <3>4, <3>5
    <2>2. \A z \in PlanOrBatch : parents[z] \in C \cup {p} => z \in LiesUnder(p)
      BY UnderByLast
    <2> QED BY <2>1, <2>2 DEF Downward
  <1>3. C \in SUBSET PlanOrBatch
    BY <1>1
  <1>4. LiesUnder(p) \subseteq C
    <2> HIDE DEF C
    <2> QED BY <1>2, <1>3, UnderIsLeast
  <1> QED
    BY <1>4

LEMMA BranchesApart ==
    ASSUME RowsTypeOK, NEW p, p \notin LiesUnder(p),
           NEW q1 \in PlansBelow(p), NEW q2 \in PlansBelow(p), q1 # q2
    PROVE  LiesUnder(q1) \cap LiesUnder(q2) = {}
  <1>1. ASSUME NEW q \in PlansBelow(p), NEW r \in PlansBelow(p), q # r PROVE q \notin LiesUnder(r)
    <2>1. q \in PlanOrBatch /\ r \in PlanOrBatch /\ parents[q] = p /\ parents[r] = p
      BY DEF PlansBelow, PlanOrBatch
    <2>2. r \in LiesUnder(p)
      BY <2>1, UnderByLast
    <2>3. p \notin LiesUnder(r)
      BY <2>2, UnderIsTransitive
    <2>4. p # r
      BY <2>2
    <2> QED BY <2>1, <2>3, <2>4, UnderByLast
  <1> DEFINE C == LiesUnder(q1) \ LiesUnder(q2)
  <1>2. C \in SUBSET PlanOrBatch
    BY UnderIsDownward
  <1>3. Downward(C, q1)
    <2>1. ASSUME NEW z \in PlanOrBatch, parents[z] \in C \cup {q1} PROVE z \in C
      <3>1. z \in LiesUnder(q1)
        BY <2>1, UnderByLast
      <3>2. parents[z] # q2
        BY <1>1, <2>1
      <3>3. parents[z] \notin LiesUnder(q2)
        BY <1>1, <2>1
      <3> QED BY <3>1, <3>2, <3>3, UnderByLast
    <2> HIDE DEF C
    <2> QED BY <2>1 DEF Downward
  <1>4. LiesUnder(q1) \subseteq C
    <2> HIDE DEF C
    <2> QED BY <1>2, <1>3, UnderIsLeast
  <1> QED
    BY <1>4

LEMMA CircleGoesOn ==
    ASSUME RowsTypeOK, NEW p \in StrategicPlans, p \in LiesUnder(p)
    PROVE  \E q \in PlansBelow(p) : q \in LiesUnder(q)
  <1>1. p \in PlanOrBatch
    BY DEF PlanOrBatch
  <1>2. CASE parents[p] = p
    BY <1>2 DEF PlansBelow
  <1>3. CASE \E q \in PlansBelow(p) : p \in LiesUnder(q)
    <2>1. PICK q \in PlansBelow(p) : p \in LiesUnder(q)
      BY <1>3
    <2>2. q \in PlanOrBatch /\ parents[q] = p
      BY DEF PlansBelow, PlanOrBatch
    <2> QED BY <2>1, <2>2, UnderByLast
  <1> QED
    BY <1>1, <1>2, <1>3, UnderByFirst

-----------------------------------------------------------------------------
(* Rows of items that cover sets apart from one another.                   *)
Spread(s, cov) == \A i, j \in 1..Len(s) : i # j => cov[s[i]] \cap cov[s[j]] = {}
AllCovered(s, cov) == UNION {cov[s[i]] : i \in 1..Len(s)}
Within(s, S) == \A i \in 1..Len(s) : s[i] \in S
Holds(s, S) == \E i \in 1..Len(s) : s[i] \in S

LEMMA Joined ==
    ASSUME NEW I, NEW r \in Seq(I), NEW s \in Seq(I)
    PROVE  /\ r \o s \in Seq(I) /\ Len(r \o s) = Len(r) + Len(s)
           /\ Len(r) \in Nat /\ Len(s) \in Nat
           /\ \A i \in 1..Len(r) : (r \o s)[i] = r[i]
           /\ \A i \in 1..Len(s) : (r \o s)[Len(r) + i] = s[i]
           /\ \A i \in 1..(Len(r) + Len(s)) :
                 i \in 1..Len(r) \/ (i - Len(r) \in 1..Len(s) /\ (r \o s)[i] = s[i - Len(r)])
  OBVIOUS

LEMMA JoinedParts ==
    ASSUME NEW I, NEW r \in Seq(I), NEW s \in Seq(I), NEW cov
    PROVE  /\ AllCovered(r \o s, cov) = AllCovered(r, cov) \cup AllCovered(s, cov)
           /\ \A S : Within(r \o s, S) <=> Within(r, S) /\ Within(s, S)
           /\ \A S : Holds(r \o s, S) <=> Holds(r, S) \/ Holds(s, S)
           /\ Spread(r, cov) /\ Spread(s, cov) /\ AllCovered(r, cov) \cap AllCovered(s, cov) = {} => Spread(r \o s, cov)
  <1> DEFINE c == r \o s
             n == Len(r)
             m == Len(s)
  <1>1. /\ Len(c) = n + m /\ n \in Nat /\ m \in Nat
        /\ \A i \in 1..n : c[i] = r[i]
        /\ \A i \in 1..m : c[n + i] = s[i]
        /\ \A i \in 1..(n + m) : i \in 1..n \/ (i - n \in 1..m /\ c[i] = s[i - n])
    BY Joined
  <1>2. n = Len(r) /\ m = Len(s)
    OBVIOUS
  <1> HIDE DEF c, n, m
  <1>3. /\ \A i \in 1..n : i \in 1..(n + m)
        /\ \A i \in 1..m : n + i \in 1..(n + m)
        /\ \A i, j \in 1..(n + m) : i # j => i - n # j - n
    BY <1>1
  <1>4. /\ \A i \in 1..(n + m) : (i \in 1..n /\ c[i] = r[i]) \/ (i - n \in 1..m /\ c[i] = s[i - n])
    BY <1>1
  <1>5. AllCovered(c, cov) = AllCovered(r, cov) \cup AllCovered(s, cov)
    <2>1. AllCovered(c, cov) \subseteq AllCovered(r, cov) \cup AllCovered(s, cov)
      <3>1. ASSUME NEW i \in 1..Len(c) PROVE cov[c[i]] \subseteq AllCovered(r, cov) \cup AllCovered(s, cov)
        <4>1. CASE i \in 1..n /\ c[i] = r[i]
          BY <1>2, <4>1 DEF AllCovered
        <4>2. CASE i - n \in 1..m /\ c[i] = s[i - n]
          BY <1>2, <4>2 DEF AllCovered
        <4> QED BY <1>1, <1>4, <4>1, <4>2
      <3> QED BY <3>1 DEF AllCovered
    <2>2. AllCovered(r, cov) \subseteq AllCovered(c, cov)
      BY <1>1, <1>2, <1>3 DEF AllCovered
    <2>3. AllCovered(s, cov) \subseteq AllCovered(c, cov)
      <3>1. ASSUME NEW i \in 1..m PROVE cov[s[i]] \subseteq AllCovered(c, cov)
        <4>1. n + i \in 1..Len(c) /\ c[n + i] = s[i]
          BY <1>1, <1>3
        <4> QED BY <4>1 DEF AllCovered
      <3> QED BY <1>2, <3>1 DEF AllCovered
    <2> QED BY <2>1, <2>2, <2>3
  <1>6. \A S : Within(c, S) <=> Within(r, S) /\ Within(s, S)
    <2>1. ASSUME NEW S, Within(c, S) PROVE Within(r, S)
      BY <1>1, <1>2, <1>3, <2>1 DEF Within
    <2>2. ASSUME NEW S, Within(c, S) PROVE Within(s, S)
      <3>1. ASSUME NEW i \in 1..m PROVE s[i] \in S
        <4>1. n + i \in 1..Len(c) /\ c[n + i] = s[i]
          BY <1>1, <1>3
        <4> QED BY <2>2, <4>1 DEF Within
      <3> QED BY <1>2, <3>1 DEF Within
    <2>3. ASSUME NEW S, Within(r, S), Within(s, S) PROVE Within(c, S)
      BY <1>1, <1>2, <1>4, <2>3 DEF Within
    <2> QED BY <2>1, <2>2, <2>3
  <1>7. \A S : Holds(c, S) <=> Holds(r, S) \/ Holds(s, S)
    <2>1. ASSUME NEW S, Holds(r, S) PROVE Holds(c, S)
      BY <1>1, <1>2, <1>3, <2>1 DEF Holds
    <2>2. ASSUME NEW S, Holds(s, S) PROVE Holds(c, S)
      <3>1. PICK i \in 1..m : s[i] \in S
        BY <1>2, <2>2 DEF Holds
      <3>2. n + i \in 1..Len(c) /\ c[n + i] = s[i]
        BY <1>1, <1>3
      <3> QED BY <3>1, <3>2 DEF Holds
    <2>3. ASSUME NEW S, Holds(c, S) PROVE Holds(r, S) \/ Holds(s, S)
      BY <1>1, <1>2, <1>4, <2>3 DEF Holds
    <2> QED BY <2>1, <2>2, <2>3
  <1>8. ASSUME Spread(r, cov), Spread(s, cov), AllCovered(r, cov) \cap AllCovered(s, cov) = {} PROVE Spread(c, cov)
    <2>1. ASSUME NEW i \in 1..(n + m), NEW j \in 1..(n + m), i # j PROVE cov[c[i]] \cap cov[c[j]] = {}
      <3>1. \A k \in 1..n : cov[r[k]] \subseteq AllCovered(r, cov)
        BY <1>2 DEF AllCovered
      <3>2. \A k \in 1..m : cov[s[k]] \subseteq AllCovered(s, cov)
        BY <1>2 DEF AllCovered
      <3>3. CASE i \in 1..n /\ c[i] = r[i] /\ j \in 1..n /\ c[j] = r[j]
        BY <1>2, <1>8, <2>1, <3>3 DEF Spread
      <3>4. CASE i \in 1..n /\ c[i] = r[i] /\ j - n \in 1..m /\ c[j] = s[j - n]
        BY <1>8, <3>1, <3>2, <3>4
      <3>5. CASE i - n \in 1..m /\ c[i] = s[i - n] /\ j \in 1..n /\ c[j] = r[j]
        BY <1>8, <3>1, <3>2, <3>5
      <3>6. CASE i - n \in 1..m /\ c[i] = s[i - n] /\ j - n \in 1..m /\ c[j] = s[j - n]
        BY <1>2, <1>3, <1>8, <2>1, <3>6 DEF Spread
      <3> QED BY <1>4, <3>3, <3>4, <3>5, <3>6
    <2> QED BY <1>1, <2>1 DEF Spread
  <1> QED
    BY <1>5, <1>6, <1>7, <1>8 DEF c

LEMMA Split ==
    ASSUME NEW I, NEW s \in Seq(I), s # <<>>
    PROVE  /\ Head(s) \in I /\ Tail(s) \in Seq(I) /\ Len(Tail(s)) = Len(s) - 1 /\ Len(s) \in Nat \ {0}
           /\ s[1] = Head(s) /\ \A i \in 1..(Len(s) - 1) : Tail(s)[i] = s[i + 1]
  OBVIOUS

LEMMA SplitParts ==
    ASSUME NEW I, NEW s \in Seq(I), s # <<>>, NEW cov
    PROVE  /\ AllCovered(s, cov) = cov[Head(s)] \cup AllCovered(Tail(s), cov)
           /\ \A S : Within(s, S) => Head(s) \in S /\ Within(Tail(s), S)
           /\ \A S : Holds(s, S) => Head(s) \in S \/ Holds(Tail(s), S)
           /\ Spread(s, cov) => Spread(Tail(s), cov) /\ cov[Head(s)] \cap AllCovered(Tail(s), cov) = {}
  <1> DEFINE n == Len(s)
             t == Tail(s)
  <1>1. n \in Nat \ {0} /\ Len(t) = n - 1 /\ s[1] = Head(s) /\ \A i \in 1..(n - 1) : t[i] = s[i + 1]
    BY Split
  <1>2. n = Len(s)
    OBVIOUS
  <1> HIDE DEF n, t
  <1>3. /\ 1 \in 1..n /\ \A i \in 1..(n - 1) : i + 1 \in 1..n /\ i + 1 # 1
        /\ \A i \in 1..n : i = 1 \/ (i - 1 \in 1..(n - 1) /\ (i - 1) + 1 = i)
        /\ \A i, j \in 1..(n - 1) : i # j => i + 1 # j + 1
    BY <1>1
  <1>4. \A i \in 1..n : s[i] = Head(s) \/ (i - 1 \in 1..(n - 1) /\ s[i] = t[i - 1])
    BY <1>1, <1>3
  <1>5. AllCovered(s, cov) = cov[Head(s)] \cup AllCovered(t, cov)
    <2>1. AllCovered(s, cov) \subseteq cov[Head(s)] \cup AllCovered(t, cov)
      <3>1. ASSUME NEW i \in 1..n PROVE cov[s[i]] \subseteq cov[Head(s)] \cup AllCovered(t, cov)
        <4>1. CASE s[i] = Head(s)
          BY <4>1
        <4>2. CASE i - 1 \in 1..(n - 1) /\ s[i] = t[i - 1]
          BY <1>1, <4>2 DEF AllCovered
        <4> QED BY <1>4, <4>1, <4>2
      <3> QED BY <1>2, <3>1 DEF AllCovered
    <2>2. cov[Head(s)] \subseteq AllCovered(s, cov)
      BY <1>1, <1>2, <1>3 DEF AllCovered
    <2>3. AllCovered(t, cov) \subseteq AllCovered(s, cov)
      <3>1. ASSUME NEW i \in 1..(n - 1) PROVE cov[t[i]] \subseteq AllCovered(s, cov)
        <4>1. i + 1 \in 1..Len(s) /\ s[i + 1] = t[i]
          BY <1>1, <1>2, <1>3
        <4> QED BY <4>1 DEF AllCovered
      <3> QED BY <1>1, <3>1 DEF AllCovered
    <2> QED BY <2>1, <2>2, <2>3
  <1>6. ASSUME NEW S, Within(s, S) PROVE Head(s) \in S /\ Within(t, S)
    <2>1. ASSUME NEW i \in 1..(n - 1) PROVE t[i] \in S
      <3>1. i + 1 \in 1..Len(s) /\ s[i + 1] = t[i]
        BY <1>1, <1>2, <1>3
      <3> QED BY <1>6, <3>1 DEF Within
    <2>2. Head(s) \in S
      BY <1>1, <1>2, <1>3, <1>6 DEF Within
    <2> QED BY <1>1, <2>1, <2>2 DEF Within
  <1>7. ASSUME NEW S, Holds(s, S) PROVE Head(s) \in S \/ Holds(t, S)
    BY <1>1, <1>2, <1>4, <1>7 DEF Holds
  <1>8. ASSUME Spread(s, cov) PROVE Spread(t, cov) /\ cov[Head(s)] \cap AllCovered(t, cov) = {}
    <2>1. ASSUME NEW i \in 1..(n - 1) PROVE i + 1 \in 1..Len(s) /\ t[i] = s[i + 1] /\ i + 1 # 1
      BY <1>1, <1>2, <1>3
    <2>2. ASSUME NEW i \in 1..(n - 1), NEW j \in 1..(n - 1), i # j PROVE cov[t[i]] \cap cov[t[j]] = {}
      <3>1. i + 1 # j + 1
        BY <1>3, <2>2
      <3> QED BY <1>8, <2>1, <3>1 DEF Spread
    <2>3. ASSUME NEW i \in 1..(n - 1) PROVE cov[Head(s)] \cap cov[t[i]] = {}
      <3>1. 1 \in 1..Len(s) /\ i + 1 \in 1..Len(s) /\ 1 # i + 1 /\ t[i] = s[i + 1] /\ s[1] = Head(s)
        BY <1>1, <1>2, <1>3
      <3> QED BY <1>8, <3>1 DEF Spread
    <2> QED BY <1>1, <2>2, <2>3 DEF Spread, AllCovered
  <1> QED
    BY <1>5, <1>6, <1>7, <1>8 DEF t

(* A finite set, listed: each element once.                                *)
LEMMA ListOf ==
    ASSUME NEW S, IsFiniteSet(S)
    PROVE  \E n \in Nat : /\ SetToSeq(S) \in [1..n -> S]
                          /\ \A i, j \in 1..n : SetToSeq(S)[i] = SetToSeq(S)[j] => i = j
                          /\ \A u \in S : \E i \in 1..n : SetToSeq(S)[i] = u
  <1> DEFINE n == Cardinality(S)
  <1>1. n \in Nat /\ ExistsBijection(1..n, S)
    BY FS_CardinalityType
  <1>2. PICK g \in Bijection(1..n, S) : TRUE
    BY <1>1 DEF ExistsBijection
  <1>3. g \in [1..n -> S] /\ IsInjective(g)
    BY <1>2 DEF Bijection, Injection, IsInjective
  <1>4. SetToSeq(S) \in [1..n -> S] /\ IsInjective(SetToSeq(S))
    BY <1>3 DEF SetToSeq
  <1>5. SetToSeq(S) \in Injection(1..n, S)
    BY <1>4 DEF Injection, IsInjective
  <1>6. IsFiniteSet(1..n) /\ Cardinality(1..n) = n
    BY <1>1, FS_Interval
  <1>7. SetToSeq(S) \in Surjection(1..n, S)
    BY <1>5, <1>6, FS_Injection
  <1> QED
    BY <1>1, <1>4, <1>7 DEF Surjection, IsInjective

Lists(r, g, S) == r = [i \in DOMAIN SetToSeq(S) |-> g[SetToSeq(S)[i]]]
Typed(g, S, I) == \A x \in S : g[x] \in I
Laid(r, g, S, I, cov) ==
    /\ r \in Seq(I)
    /\ AllCovered(r, cov) = UNION {cov[g[x]] : x \in S}
    /\ (\A x, y \in S : x # y => cov[g[x]] \cap cov[g[y]] = {}) => Spread(r, cov)
    /\ \A T : Within(r, T) <=> \A x \in S : g[x] \in T
    /\ \A T : Holds(r, T) <=> \E x \in S : g[x] \in T

LEMMA ListedItems ==
    ASSUME NEW S, IsFiniteSet(S), NEW I, NEW g, Typed(g, S, I), NEW cov, NEW r, Lists(r, g, S)
    PROVE  Laid(r, g, S, I, cov)
  <1>1. PICK n \in Nat : /\ SetToSeq(S) \in [1..n -> S]
                         /\ \A i, j \in 1..n : SetToSeq(S)[i] = SetToSeq(S)[j] => i = j
                         /\ \A u \in S : \E i \in 1..n : SetToSeq(S)[i] = u
    BY ListOf
  <1> DEFINE f == SetToSeq(S)
  <1>2. r = [i \in 1..n |-> g[f[i]]]
    BY <1>1 DEF Lists
  <1>3. /\ \A i \in 1..n : f[i] \in S
        /\ \A i, j \in 1..n : f[i] = f[j] => i = j
        /\ \A u \in S : \E i \in 1..n : f[i] = u
    BY <1>1
  <1> HIDE DEF f
  <1>4. r \in Seq(I) /\ Len(r) = n /\ \A i \in 1..n : r[i] = g[f[i]]
    BY <1>2, <1>3 DEF Typed
  <1>5. AllCovered(r, cov) = UNION {cov[g[x]] : x \in S}
    BY <1>3, <1>4 DEF AllCovered
  <1>6. ASSUME \A x, y \in S : x # y => cov[g[x]] \cap cov[g[y]] = {} PROVE Spread(r, cov)
    <2>1. ASSUME NEW i \in 1..n, NEW j \in 1..n, i # j PROVE cov[r[i]] \cap cov[r[j]] = {}
      <3>1. f[i] \in S /\ f[j] \in S /\ f[i] # f[j]
        BY <1>3, <2>1
      <3>2. r[i] = g[f[i]] /\ r[j] = g[f[j]]
        BY <1>4
      <3> QED BY <1>6, <3>1, <3>2
    <2> QED BY <1>4, <2>1 DEF Spread
  <1>7. \A T : Within(r, T) <=> \A x \in S : g[x] \in T
    BY <1>3, <1>4 DEF Within
  <1>8. \A T : Holds(r, T) <=> \E x \in S : g[x] \in T
    BY <1>3, <1>4 DEF Holds
  <1> QED
    BY <1>4, <1>5, <1>6, <1>7, <1>8 DEF Laid

-----------------------------------------------------------------------------
(* What the listings of an estimate query are still to bring, and what has *)
(* been added up so far.                                                   *)
TodoItems ==
    ({"plan", "below"} \X StrategicPlans \X Nat) \cup ({"batch"} \X Batches \X Nat)
        \cup ({"feature"} \X FeatureIDs \X (Nat \cup {Unset}))

Covers(item) ==
    CASE item[1] = "plan" -> FeaturesUnder(item[2])
      [] item[1] = "below" -> UNION {FeaturesUnder(q) : q \in PlansBelow(item[2])}
      [] item[1] = "batch" -> FeaturesOf(item[2])
      [] item[1] = "feature" -> {item[2]}
Cov == [item \in TodoItems |-> Covers(item)]
Worth == [f \in FeatureIDs |-> Worse(Effective(featureRows[f].estimate, TaskTotal(f)), 0)]

InPlace(p) ==
    {item \in TodoItems : /\ item[1] \in {"plan", "below"} => item[2] \in LiesUnder(p) \cup {p}
                          /\ item[1] = "feature" => item[3] = featureRows[item[2]].estimate}
Circling == {item \in TodoItems : item[1] \in {"plan", "below"} /\ item[2] \in LiesUnder(item[2])}

Queries == [plan : StrategicPlans \cup {"none"}, todo : Seq(TodoItems), total : Nat, has : BOOLEAN,
            progress : Nat, state : {"none", "asked", "answered", "too deep"}, quiet : BOOLEAN]
QueryOK(q) == q \in Queries /\ q.progress <= q.total /\ (q.state = "answered" => q.todo = <<>>)

Gathered(q) ==
    /\ Spread(q.todo, Cov) /\ AllCovered(q.todo, Cov) \subseteq FeaturesUnder(q.plan)
    /\ Within(q.todo, InPlace(q.plan))
    /\ q.total = SumOver(Worth, FeaturesUnder(q.plan) \ AllCovered(q.todo, Cov))

(* A plan that is on a circle is never answered for: a plan on the circle  *)
(* is always left to be listed.                                            *)
Sound(q) ==
    q.quiet /\ q.state \in {"asked", "answered"} =>
        IF q.plan \in LiesUnder(q.plan) THEN Holds(q.todo, Circling) ELSE Gathered(q)

RollupInv == RowsTypeOK /\ QueryOK(query) /\ Sound(query)

LEMMA KindsOfItems ==
    /\ \A p \in StrategicPlans, d \in Nat :
          /\ <<"plan", p, d>> \in TodoItems /\ <<"below", p, d>> \in TodoItems
          /\ Cov[<<"plan", p, d>>] = FeaturesUnder(p)
          /\ Cov[<<"below", p, d>>] = UNION {FeaturesUnder(q) : q \in PlansBelow(p)}
    /\ \A b \in Batches, d \in Nat : <<"batch", b, d>> \in TodoItems /\ Cov[<<"batch", b, d>>] = FeaturesOf(b)
    /\ \A f \in FeatureIDs, own \in Nat \cup {Unset} :
          <<"feature", f, own>> \in TodoItems /\ Cov[<<"feature", f, own>>] = {f}
  <1>1. ASSUME NEW p \in StrategicPlans, NEW d \in Nat
        PROVE  <<"plan", p, d>> \in TodoItems /\ <<"below", p, d>> \in TodoItems
    BY DEF TodoItems
  <1>2. ASSUME NEW b \in Batches, NEW d \in Nat PROVE <<"batch", b, d>> \in TodoItems
    BY DEF TodoItems
  <1>3. ASSUME NEW f \in FeatureIDs, NEW own \in Nat \cup {Unset} PROVE <<"feature", f, own>> \in TodoItems
    BY DEF TodoItems
  <1>4. ASSUME NEW x, NEW d
        PROVE  /\ Covers(<<"plan", x, d>>) = FeaturesUnder(x)
               /\ Covers(<<"below", x, d>>) = UNION {FeaturesUnder(q) : q \in PlansBelow(x)}
               /\ Covers(<<"batch", x, d>>) = FeaturesOf(x)
               /\ Covers(<<"feature", x, d>>) = {x}
    BY DEF Covers
  <1>5. \A item \in TodoItems : Cov[item] = Covers(item)
    BY DEF Cov
  <1> QED
    BY <1>1, <1>2, <1>3, <1>4, <1>5

LEMMA ItemIsOneOf ==
    ASSUME NEW item \in TodoItems
    PROVE  \/ \E p \in StrategicPlans, d \in Nat : item = <<"plan", p, d>>
           \/ \E p \in StrategicPlans, d \in Nat : item = <<"below", p, d>>
           \/ \E b \in Batches, d \in Nat : item = <<"batch", b, d>>
           \/ \E f \in FeatureIDs, own \in Nat \cup {Unset} : item = <<"feature", f, own>>
  <1>1. CASE item \in {"plan", "below"} \X StrategicPlans \X Nat
    BY <1>1
  <1>2. CASE item \in {"batch"} \X Batches \X Nat
    BY <1>2
  <1>3. CASE item \in {"feature"} \X FeatureIDs \X (Nat \cup {Unset})
    <2>1. /\ item[1] = "feature" /\ item[2] \in FeatureIDs /\ item[3] \in Nat \cup {Unset}
          /\ item = <<item[1], item[2], item[3]>>
      BY <1>3
    <2>2. \E f \in FeatureIDs, own \in Nat \cup {Unset} : item = <<"feature", f, own>>
      <3>1. item[2] \in FeatureIDs /\ item[3] \in Nat \cup {Unset} /\ item = <<"feature", item[2], item[3]>>
        BY <2>1
      <3> QED BY <3>1, Zenon
    <2> QED BY <2>2
  <1> QED
    BY <1>1, <1>2, <1>3 DEF TodoItems

(* What lies under a plan is in its batches and under the plans below it,  *)
(* each of it once.                                                        *)
LEMMA PartsOfPlan ==
    ASSUME RowsTypeOK, NEW p, p \notin LiesUnder(p)
    PROVE  /\ FeaturesUnder(p) = (UNION {FeaturesOf(b) : b \in BatchesOf(p)})
                                 \cup (UNION {FeaturesUnder(q) : q \in PlansBelow(p)})
           /\ \A b \in BatchesOf(p), q \in PlansBelow(p) : FeaturesOf(b) \cap FeaturesUnder(q) = {}
           /\ \A q, r \in PlansBelow(p) : q # r => FeaturesUnder(q) \cap FeaturesUnder(r) = {}
           /\ \A b, c \in BatchesOf(p) : b # c => FeaturesOf(b) \cap FeaturesOf(c) = {}
  <1>1. \A x, f : f \in FeaturesUnder(x) <=> /\ f \in FeatureIDs /\ featureRows[f].parent \in ListBatches
                                             /\ featureRows[f].parent \in LiesUnder(x)
    BY DEF FeaturesUnder, LiesUnder
  <1>2. \A b, f : f \in FeaturesOf(b) <=> f \in FeatureIDs /\ featureRows[f].parent = b
    BY DEF FeaturesOf
  <1>3. \A b : b \in BatchesOf(p) <=> b \in ListBatches /\ parents[b] = p
    BY DEF BatchesOf
  <1>4. ListBatches \subseteq PlanOrBatch
    BY DEF ListBatches, RowsTypeOK, PlanOrBatch
  <1>5. \A b \in ListBatches : b \in LiesUnder(p) <=> b \in BatchesOf(p) \/ \E q \in PlansBelow(p) : b \in LiesUnder(q)
    BY <1>3, <1>4, UnderByFirst
  <1>6. \A q, r \in PlansBelow(p) : q # r => LiesUnder(q) \cap LiesUnder(r) = {}
    BY BranchesApart
  <1>7. ASSUME NEW b \in BatchesOf(p), NEW q \in PlansBelow(p) PROVE b \notin LiesUnder(q)
    <2>1. q \in PlanOrBatch /\ parents[q] = p /\ b \in PlanOrBatch /\ parents[b] = p
      BY <1>3, <1>4 DEF PlansBelow, PlanOrBatch
    <2>2. q \in LiesUnder(p)
      BY <2>1, UnderByLast
    <2>3. p \notin LiesUnder(q) /\ p # q
      BY <2>2, UnderIsTransitive
    <2> QED BY <2>1, <2>3, UnderByLast
  <1>8. FeaturesUnder(p) = (UNION {FeaturesOf(b) : b \in BatchesOf(p)})
                           \cup (UNION {FeaturesUnder(q) : q \in PlansBelow(p)})
    <2>1. ASSUME NEW f \in FeaturesUnder(p)
          PROVE  (\E b \in BatchesOf(p) : f \in FeaturesOf(b)) \/ \E q \in PlansBelow(p) : f \in FeaturesUnder(q)
      BY <1>1, <1>2, <1>5
    <2>2. ASSUME NEW b \in BatchesOf(p), NEW f \in FeaturesOf(b) PROVE f \in FeaturesUnder(p)
      BY <1>1, <1>2, <1>3, <1>5
    <2>3. ASSUME NEW q \in PlansBelow(p), NEW f \in FeaturesUnder(q) PROVE f \in FeaturesUnder(p)
      BY <1>1, <1>5
    <2> QED BY <2>1, <2>2, <2>3
  <1> QED
    BY <1>1, <1>2, <1>6, <1>7, <1>8

-----------------------------------------------------------------------------
(* One listing after another.                                              *)
LEMMA ListingKeeps ==
    ASSUME RowsTypeOK, NEW q, QueryOK(q), Sound(q), q.state = "asked", q.todo # <<>>,
           NEW r \in Seq(TodoItems),
           q.plan \notin LiesUnder(q.plan) /\ Head(q.todo) \in InPlace(q.plan) =>
              Spread(r, Cov) /\ AllCovered(r, Cov) = Cov[Head(q.todo)] /\ Within(r, InPlace(q.plan)),
           Head(q.todo) \in Circling => Holds(r, Circling)
    PROVE  QueryOK([q EXCEPT !.todo = r \o Tail(@)]) /\ Sound([q EXCEPT !.todo = r \o Tail(@)])
  <1> DEFINE t == q.todo
             u == r \o Tail(t)
             n == [q EXCEPT !.todo = u]
  <1>1. q \in Queries /\ t \in Seq(TodoItems) /\ q.plan \in StrategicPlans \cup {"none"}
    BY DEF QueryOK, Queries
  <1>2. Tail(t) \in Seq(TodoItems) /\ u \in Seq(TodoItems)
    BY <1>1, Split, Joined
  <1>3. /\ n.todo = u /\ n.plan = q.plan /\ n.state = q.state /\ n.quiet = q.quiet /\ n.total = q.total
        /\ n.progress = q.progress
    BY <1>1 DEF Queries
  <1>4. n \in Queries
    <2> HIDE DEF u
    <2> QED BY <1>1, <1>2 DEF Queries
  <1>5. QueryOK(n)
    BY <1>3, <1>4 DEF QueryOK
  <1>6. ASSUME q.plan \in LiesUnder(q.plan), Holds(t, Circling) PROVE Holds(u, Circling)
    BY <1>1, <1>2, <1>6, SplitParts, JoinedParts
  <1>7. ASSUME q.plan \notin LiesUnder(q.plan), Gathered(q) PROVE Gathered(n)
    <2>1. /\ Head(t) \in InPlace(q.plan) /\ Within(Tail(t), InPlace(q.plan))
          /\ Spread(Tail(t), Cov) /\ Cov[Head(t)] \cap AllCovered(Tail(t), Cov) = {}
          /\ AllCovered(t, Cov) = Cov[Head(t)] \cup AllCovered(Tail(t), Cov)
      BY <1>1, <1>7, SplitParts DEF Gathered
    <2>2. Spread(r, Cov) /\ AllCovered(r, Cov) = Cov[Head(t)] /\ Within(r, InPlace(q.plan))
      BY <1>7, <2>1
    <2>3. /\ AllCovered(u, Cov) = AllCovered(r, Cov) \cup AllCovered(Tail(t), Cov)
          /\ Within(u, InPlace(q.plan)) <=> Within(r, InPlace(q.plan)) /\ Within(Tail(t), InPlace(q.plan))
          /\ Spread(r, Cov) /\ Spread(Tail(t), Cov) /\ AllCovered(r, Cov) \cap AllCovered(Tail(t), Cov) = {}
                => Spread(u, Cov)
      BY <1>2, JoinedParts
    <2>4. Spread(u, Cov) /\ AllCovered(u, Cov) = AllCovered(t, Cov) /\ Within(u, InPlace(q.plan))
      BY <2>1, <2>2, <2>3
    <2> HIDE DEF u, t, n
    <2> QED BY <1>3, <1>7, <2>4 DEF Gathered, t
  <1>8. Sound(n)
    <2> HIDE DEF n, u
    <2> QED BY <1>3, <1>6, <1>7 DEF Sound
  <1> QED
    BY <1>5, <1>8

LEMMA ItemsListed ==
    ASSUME NEW S, IsFiniteSet(S), NEW kind, NEW d, NEW g, g = [x \in S |-> <<kind, x, d>>],
           Typed(g, S, TodoItems)
    PROVE  Laid(Items(kind, S, d), g, S, TodoItems, Cov)
  <1>1. \A i \in DOMAIN SetToSeq(S) : SetToSeq(S)[i] \in S
    BY ListOf
  <1>2. Lists(Items(kind, S, d), g, S)
    BY <1>1 DEF Items, Lists
  <1> QED
    BY <1>2, ListedItems

LEMMA PlanListed ==
    ASSUME RowsTypeOK, QueryOK(query), Sound(query), query.state = "asked", query.todo # <<>>,
           NEW p \in StrategicPlans, NEW d \in Nat, Head(query.todo) = <<"plan", p, d>>
    PROVE  QueryOK(PlanStep(p, d)) /\ Sound(PlanStep(p, d))
  <1>1. CASE d > Depth
    <2> DEFINE n == [query EXCEPT !.state = "too deep", !.todo = <<>>]
    <2>1. PlanStep(p, d) = n
      BY <1>1 DEF PlanStep
    <2>2. n \in Queries /\ n.state = "too deep" /\ n.progress = query.progress /\ n.total = query.total
      <3> DEFINE m == [query EXCEPT !.state = "too deep"]
      <3>1. m \in Queries /\ m.state = "too deep" /\ m.progress = query.progress /\ m.total = query.total
        BY DEF QueryOK, Queries
      <3>2. n = [m EXCEPT !.todo = <<>>] /\ <<>> \in Seq(TodoItems)
        OBVIOUS
      <3> HIDE DEF m, n
      <3> QED BY <3>1, <3>2 DEF Queries
    <2> HIDE DEF n
    <2> QED BY <2>1, <2>2 DEF QueryOK, Sound
  <1>2. CASE ~ (d > Depth)
    <2> DEFINE bs == Items("batch", BatchesOf(p), d)
               last == << <<"below", p, d>> >>
               r == bs \o last
    <2>1. PlanStep(p, d) = [query EXCEPT !.todo = r \o Tail(@)]
      BY <1>2 DEF PlanStep, BatchesOf
    <2>2. IsFiniteSet(BatchesOf(p)) /\ BatchesOf(p) \subseteq Batches
      BY LoadsAreRecords, FS_Subset DEF BatchesOf, PlanOrBatch, ListBatches, RowsTypeOK
    <2>3. \A b \in BatchesOf(p) : <<"batch", b, d>> \in TodoItems /\ Cov[<<"batch", b, d>>] = FeaturesOf(b)
      BY <2>2, KindsOfItems
    <2>4. /\ <<"below", p, d>> \in TodoItems /\ Cov[<<"plan", p, d>>] = FeaturesUnder(p)
          /\ Cov[<<"below", p, d>>] = UNION {FeaturesUnder(q) : q \in PlansBelow(p)}
      BY KindsOfItems
    <2> DEFINE g == [b \in BatchesOf(p) |-> <<"batch", b, d>>]
    <2>0. \A b \in BatchesOf(p) : g[b] = <<"batch", b, d>> /\ g[b] \in TodoItems /\ Cov[g[b]] = FeaturesOf(b)
      BY <2>3
    <2>5. Laid(bs, g, BatchesOf(p), TodoItems, Cov)
      BY <2>0, <2>2, ItemsListed DEF Typed
    <2>6. /\ last \in Seq(TodoItems) /\ AllCovered(last, Cov) = Cov[<<"below", p, d>>] /\ Spread(last, Cov)
          /\ \A T : Within(last, T) <=> <<"below", p, d>> \in T
          /\ \A T : Holds(last, T) <=> <<"below", p, d>> \in T
      <3>1. last \in Seq(TodoItems) /\ Len(last) = 1 /\ last[1] = <<"below", p, d>>
        BY <2>4
      <3>2. 1..1 = {1}
        OBVIOUS
      <3> HIDE DEF last
      <3> QED BY <3>1, <3>2 DEF AllCovered, Spread, Within, Holds
    <2> HIDE DEF bs, last, g
    <2>7. bs \in Seq(TodoItems) /\ r \in Seq(TodoItems)
      BY <2>5, <2>6, Joined DEF Laid
    <2>77. /\ AllCovered(r, Cov) = AllCovered(bs, Cov) \cup AllCovered(last, Cov)
           /\ \A S : Within(r, S) <=> Within(bs, S) /\ Within(last, S)
           /\ \A S : Holds(r, S) <=> Holds(bs, S) \/ Holds(last, S)
           /\ Spread(bs, Cov) /\ Spread(last, Cov) /\ AllCovered(bs, Cov) \cap AllCovered(last, Cov) = {} => Spread(r, Cov)
      BY <2>6, <2>7, JoinedParts
    <2>8. ASSUME query.plan \notin LiesUnder(query.plan), Head(query.todo) \in InPlace(query.plan)
          PROVE  Spread(r, Cov) /\ AllCovered(r, Cov) = Cov[Head(query.todo)] /\ Within(r, InPlace(query.plan))
      <3>1. p \in LiesUnder(query.plan) \cup {query.plan}
        BY <2>8 DEF InPlace
      <3>2. p \notin LiesUnder(p)
        BY <2>8, <3>1, NoCircleUnder
      <3>3. /\ FeaturesUnder(p) = (UNION {FeaturesOf(b) : b \in BatchesOf(p)})
                                  \cup (UNION {FeaturesUnder(q) : q \in PlansBelow(p)})
            /\ \A b \in BatchesOf(p), q \in PlansBelow(p) : FeaturesOf(b) \cap FeaturesUnder(q) = {}
            /\ \A b, c \in BatchesOf(p) : b # c => FeaturesOf(b) \cap FeaturesOf(c) = {}
        BY <3>2, PartsOfPlan
      <3>4. AllCovered(bs, Cov) = UNION {FeaturesOf(b) : b \in BatchesOf(p)}
        BY <2>0, <2>5 DEF Laid
      <3>5. AllCovered(last, Cov) = UNION {FeaturesUnder(q) : q \in PlansBelow(p)}
        BY <2>4, <2>6
      <3>6. Spread(bs, Cov)
        BY <2>0, <2>5, <3>3 DEF Laid
      <3>7. AllCovered(bs, Cov) \cap AllCovered(last, Cov) = {}
        BY <3>3, <3>4, <3>5
      <3>8. Spread(r, Cov) /\ AllCovered(r, Cov) = Cov[Head(query.todo)]
        BY <2>4, <2>6, <2>77, <3>3, <3>4, <3>5, <3>6, <3>7
      <3>9. /\ <<"below", p, d>> \in InPlace(query.plan)
            /\ \A b \in BatchesOf(p) : g[b] \in InPlace(query.plan)
        BY <2>0, <2>4, <3>1 DEF InPlace
      <3> QED BY <2>5, <2>6, <2>77, <3>8, <3>9 DEF Laid
    <2>9. ASSUME Head(query.todo) \in Circling PROVE Holds(r, Circling)
      <3>1. <<"below", p, d>> \in Circling
        BY <2>4, <2>9 DEF Circling
      <3> QED BY <2>6, <2>77, <3>1
    <2> HIDE DEF r
    <2>10. /\ QueryOK([query EXCEPT !.todo = r \o Tail(@)])
           /\ Sound([query EXCEPT !.todo = r \o Tail(@)])
      BY <2>7, <2>8, <2>9, ListingKeeps
    <2> QED BY <2>1, <2>10
  <1> QED
    BY <1>1, <1>2

LEMMA BelowListed ==
    ASSUME RowsTypeOK, QueryOK(query), Sound(query), query.state = "asked", query.todo # <<>>,
           NEW p \in StrategicPlans, NEW d \in Nat, Head(query.todo) = <<"below", p, d>>
    PROVE  QueryOK(BelowStep(p, d)) /\ Sound(BelowStep(p, d))
  <1> DEFINE r == Items("plan", PlansBelow(p), d + 1)
  <1>1. BelowStep(p, d) = [query EXCEPT !.todo = r \o Tail(@)]
    BY DEF BelowStep, PlansBelow
  <1>2. IsFiniteSet(PlansBelow(p)) /\ PlansBelow(p) \subseteq StrategicPlans
    BY LoadsAreRecords, FS_Subset DEF PlansBelow, PlanOrBatch
  <1>3. d + 1 \in Nat
    OBVIOUS
  <1>4. \A q \in PlansBelow(p) : /\ <<"plan", q, d + 1>> \in TodoItems
                                 /\ Cov[<<"plan", q, d + 1>>] = FeaturesUnder(q)
    BY <1>2, <1>3, KindsOfItems
  <1>5. Cov[<<"below", p, d>>] = UNION {FeaturesUnder(q) : q \in PlansBelow(p)}
    BY KindsOfItems
  <1> DEFINE g == [q \in PlansBelow(p) |-> <<"plan", q, d + 1>>]
  <1>0. \A q \in PlansBelow(p) : g[q] = <<"plan", q, d + 1>> /\ g[q] \in TodoItems /\ Cov[g[q]] = FeaturesUnder(q)
    BY <1>4
  <1>6. Laid(r, g, PlansBelow(p), TodoItems, Cov)
    BY <1>0, <1>2, ItemsListed DEF Typed
  <1> HIDE DEF r, g
  <1>7. ASSUME query.plan \notin LiesUnder(query.plan), Head(query.todo) \in InPlace(query.plan)
        PROVE  Spread(r, Cov) /\ AllCovered(r, Cov) = Cov[Head(query.todo)] /\ Within(r, InPlace(query.plan))
    <2>1. p \in LiesUnder(query.plan) \cup {query.plan}
      BY <1>7 DEF InPlace
    <2>2. p \notin LiesUnder(p)
      BY <1>7, <2>1, NoCircleUnder
    <2>3. \A x, y \in PlansBelow(p) : x # y => FeaturesUnder(x) \cap FeaturesUnder(y) = {}
      BY <2>2, PartsOfPlan
    <2>4. ASSUME NEW q \in PlansBelow(p) PROVE g[q] \in InPlace(query.plan)
      <3>1. q \in PlanOrBatch /\ parents[q] = p
        BY DEF PlansBelow, PlanOrBatch
      <3>2. q \in LiesUnder(query.plan)
        BY <2>1, <3>1, UnderByLast
      <3> QED BY <1>0, <3>2 DEF InPlace
    <2>5. AllCovered(r, Cov) = Cov[Head(query.todo)]
      <3>1. AllCovered(r, Cov) = UNION {Cov[g[q]] : q \in PlansBelow(p)}
        BY <1>6 DEF Laid
      <3>2. {Cov[g[q]] : q \in PlansBelow(p)} = {FeaturesUnder(q) : q \in PlansBelow(p)}
        BY <1>0
      <3> QED BY <1>5, <3>1, <3>2
    <2>6. Spread(r, Cov)
      BY <1>0, <1>6, <2>3 DEF Laid
    <2> QED BY <1>6, <2>4, <2>5, <2>6 DEF Laid
  <1>8. ASSUME Head(query.todo) \in Circling PROVE Holds(r, Circling)
    <2>1. p \in LiesUnder(p)
      BY <1>8 DEF Circling
    <2>2. PICK q \in PlansBelow(p) : q \in LiesUnder(q)
      BY <2>1, CircleGoesOn
    <2>3. g[q] \in Circling
      BY <1>0, <2>2 DEF Circling
    <2> QED BY <1>6, <2>3 DEF Laid
  <1>9. /\ QueryOK([query EXCEPT !.todo = r \o Tail(@)])
        /\ Sound([query EXCEPT !.todo = r \o Tail(@)])
    BY <1>6, <1>7, <1>8, ListingKeeps DEF Laid
  <1> QED
    BY <1>1, <1>9

LEMMA BatchListed ==
    ASSUME RowsTypeOK, QueryOK(query), Sound(query), query.state = "asked", query.todo # <<>>,
           NEW b \in Batches, NEW d \in Nat, Head(query.todo) = <<"batch", b, d>>
    PROVE  QueryOK(BatchStep(b)) /\ Sound(BatchStep(b))
  <1> DEFINE S == FeaturesOf(b)
             g == [f \in FeatureIDs |-> <<"feature", f, featureRows[f].estimate>>]
             r == [i \in DOMAIN SetToSeq(S) |-> g[SetToSeq(S)[i]]]
  <1>1. IsFiniteSet(S) /\ S \subseteq FeatureIDs
    BY LoadsAreRecords, FS_Subset DEF FeaturesOf
  <1>2. \A i \in DOMAIN SetToSeq(S) : SetToSeq(S)[i] \in FeatureIDs
    BY <1>1, ListOf
  <1>3. BatchStep(b) = [query EXCEPT !.todo = r \o Tail(@)]
    BY <1>2 DEF BatchStep, FeaturesOf
  <1>4. \A f \in FeatureIDs : featureRows[f].estimate \in Nat \cup {Unset}
    BY DEF RowsTypeOK, MemberRows
  <1>5. \A f \in FeatureIDs : g[f] = <<"feature", f, featureRows[f].estimate>> /\ g[f] \in TodoItems /\ Cov[g[f]] = {f}
    BY <1>4, KindsOfItems
  <1>6. Lists(r, g, S) /\ Typed(g, S, TodoItems)
    <2>1. r = [i \in DOMAIN SetToSeq(S) |-> g[SetToSeq(S)[i]]]
      OBVIOUS
    <2> HIDE DEF r, g, S
    <2> QED BY <1>1, <1>5, <2>1 DEF Lists, Typed
  <1>7. Cov[<<"batch", b, d>>] = S
    BY KindsOfItems
  <1> HIDE DEF r, g, S
  <1>8. Laid(r, g, S, TodoItems, Cov)
    BY <1>1, <1>6, ListedItems
  <1>9. Spread(r, Cov) /\ AllCovered(r, Cov) = Cov[Head(query.todo)] /\ Within(r, InPlace(query.plan))
    <2>1. AllCovered(r, Cov) = S
      BY <1>1, <1>5, <1>8 DEF Laid
    <2>2. Spread(r, Cov)
      <3>1. \A x, y \in S : x # y => Cov[g[x]] \cap Cov[g[y]] = {}
        <4>1. ASSUME NEW x \in S, NEW y \in S, x # y PROVE Cov[g[x]] \cap Cov[g[y]] = {}
          <5>1. Cov[g[x]] = {x} /\ Cov[g[y]] = {y}
            BY <1>1, <1>5
          <5> QED BY <4>1, <5>1
        <4> QED BY <4>1
      <3> QED BY <1>8, <3>1 DEF Laid
    <2>3. \A f \in S : g[f] \in InPlace(query.plan)
      BY <1>1, <1>5 DEF InPlace
    <2> QED BY <1>7, <1>8, <2>1, <2>2, <2>3 DEF Laid
  <1>10. Head(query.todo) \notin Circling
    BY DEF Circling
  <1>11. /\ QueryOK([query EXCEPT !.todo = r \o Tail(@)])
         /\ Sound([query EXCEPT !.todo = r \o Tail(@)])
    BY <1>8, <1>9, <1>10, ListingKeeps DEF Laid
  <1> QED
    BY <1>3, <1>11

(* A feature counts for its tasks, or for itself.                          *)
LEMMA PointsAre ==
    ASSUME RowsTypeOK, NEW f \in FeatureIDs
    PROVE  /\ TaskTotal(f) \in Nat \cup {Unset} /\ Progress(f) \in Nat
           /\ Progress(f) <= Worse(TaskTotal(f), 0)
  <1> DEFINE fun == [t \in TaskIDs |-> taskRows[t].estimate]
             S == Estimated(f)
             R == {t \in S : taskRows[t].status = "done"}
  <1>1. S \subseteq TaskIDs /\ IsFiniteSet(S)
    BY LoadsAreRecords, FS_Subset DEF Estimated, TasksOf
  <1>2. Counts(fun, S)
    BY DEF Counts, Estimated, TasksOf, RowsTypeOK, WorkRows
  <1>3. R \in SUBSET S
    OBVIOUS
  <1>4. Points(S) = SumOver(fun, S) /\ Progress(f) = SumOver(fun, R)
    BY DEF Points, SumOver, Progress
  <1>5. TaskTotal(f) = IF S = {} THEN Unset ELSE Points(S)
    BY DEF TaskTotal
  <1> HIDE DEF fun, S, R
  <1>6. /\ SumOver(fun, S) \in Nat /\ SumOver(fun, R) \in Nat /\ SumOver(fun, {}) = 0
        /\ SumOver(fun, R) <= SumOver(fun, S)
    <2>1. S \in SUBSET S
      OBVIOUS
    <2> QED BY <1>1, <1>2, <1>3, <2>1, SumsOf, SumOfPart
  <1>7. CASE S = {}
    <2>1. R = {}
      BY <1>3, <1>7
    <2> QED BY <1>4, <1>5, <1>6, <1>7, <2>1 DEF Worse, Unset
  <1>8. CASE S # {}
    BY <1>4, <1>5, <1>6, <1>8 DEF Worse
  <1> QED
    BY <1>7, <1>8

LEMMA FeatureWorth ==
    ASSUME RowsTypeOK, NEW f \in FeatureIDs, NEW own \in Nat \cup {Unset},
           NEW points, points = Effective(own, TaskTotal(f))
    PROVE  /\ (IF points = Unset THEN 0 ELSE points) \in Nat /\ (points # Unset) \in BOOLEAN
           /\ (IF points = Unset THEN 0 ELSE points) = Worse(points, 0)
           /\ Progress(f) \in Nat /\ Progress(f) <= (IF points = Unset THEN 0 ELSE points)
  BY PointsAre DEF Effective, Worse, Unset

LEMMA WorthIs ==
    ASSUME RowsTypeOK PROVE Counts(Worth, FeatureIDs)
  <1>1. ASSUME NEW f \in FeatureIDs PROVE Worth[f] \in Nat
    <2>1. featureRows[f].estimate \in Nat \cup {Unset}
      BY DEF RowsTypeOK, MemberRows
    <2>2. Worth[f] = Worse(Effective(featureRows[f].estimate, TaskTotal(f)), 0)
      BY DEF Worth
    <2> QED BY <2>1, <2>2, FeatureWorth
  <1> QED
    BY <1>1 DEF Counts

LEMMA SumTakesOut ==
    ASSUME NEW S, IsFiniteSet(S), NEW fun, Counts(fun, S), NEW s \in SUBSET S, NEW x \in s
    PROVE  SumOver(fun, s) = fun[x] + SumOver(fun, s \ {x})
  BY SumsOf

LEMMA FeatureListed ==
    ASSUME RowsTypeOK, QueryOK(query), Sound(query), query.state = "asked", query.todo # <<>>,
           NEW f \in FeatureIDs, NEW own \in Nat \cup {Unset}, Head(query.todo) = <<"feature", f, own>>
    PROVE  QueryOK(FeatureStep(f, own)) /\ Sound(FeatureStep(f, own))
  <1> DEFINE points == Effective(own, TaskTotal(f))
             gain == IF points = Unset THEN 0 ELSE points
             n == FeatureStep(f, own)
             t == query.todo
  <1>1. gain \in Nat /\ gain = Worse(points, 0) /\ Progress(f) \in Nat /\ Progress(f) <= gain
    BY FeatureWorth
  <1>2. query \in Queries /\ query.progress <= query.total /\ t \in Seq(TodoItems) /\ Tail(t) \in Seq(TodoItems)
    BY Split DEF QueryOK, Queries
  <1>3. n = [query EXCEPT !.todo = Tail(@), !.has = @ \/ points # Unset,
                          !.total = @ + gain, !.progress = @ + Progress(f)]
    BY DEF FeatureStep
  <1>4. /\ n.todo = Tail(t) /\ n.total = query.total + gain /\ n.progress = query.progress + Progress(f)
        /\ n.plan = query.plan /\ n.state = query.state /\ n.quiet = query.quiet
    <2> HIDE DEF gain, points, n
    <2> QED BY <1>2, <1>3 DEF Queries
  <1>5. n \in Queries
    <2> DEFINE has == query.has \/ points # Unset
    <2>1. has \in BOOLEAN
      BY <1>2 DEF Queries
    <2>2. query.total + gain \in Nat /\ query.progress + Progress(f) \in Nat
      <3>1. query.total \in Nat /\ query.progress \in Nat
        BY <1>2 DEF Queries
      <3>2. \A i, j \in Nat : i + j \in Nat
        OBVIOUS
      <3> HIDE DEF gain
      <3> QED BY <1>1, <3>1, <3>2
    <2>3. n = [query EXCEPT !.todo = Tail(t), !.has = has, !.total = query.total + gain,
                            !.progress = query.progress + Progress(f)]
      <3> HIDE DEF gain, points, n
      <3> QED BY <1>2, <1>3 DEF Queries, has
    <2> HIDE DEF gain, has, n
    <2> QED BY <1>2, <2>1, <2>2, <2>3 DEF Queries
  <1>6. QueryOK(n)
    <2>1. query.total \in Nat /\ query.progress \in Nat
      BY <1>2 DEF Queries
    <2>2. \A i, j, k, l \in Nat : i <= j /\ k <= l => i + k <= j + l
      OBVIOUS
    <2> HIDE DEF n, gain
    <2> QED BY <1>1, <1>2, <1>4, <1>5, <2>1, <2>2 DEF QueryOK
  <1>7. Head(t) \notin Circling
    BY DEF Circling
  <1>8. ASSUME Holds(t, Circling) PROVE Holds(Tail(t), Circling)
    BY <1>2, <1>7, <1>8, SplitParts
  <1>9. ASSUME query.plan \notin LiesUnder(query.plan), Gathered(query) PROVE Gathered(n)
    <2> DEFINE U == FeaturesUnder(query.plan)
               W == AllCovered(t, Cov)
               V == AllCovered(Tail(t), Cov)
    <2>1. /\ Head(t) \in InPlace(query.plan) /\ Within(Tail(t), InPlace(query.plan))
          /\ Spread(Tail(t), Cov) /\ Cov[Head(t)] \cap V = {} /\ W = Cov[Head(t)] \cup V
      BY <1>2, <1>9, SplitParts DEF Gathered
    <2>2. Cov[Head(t)] = {f} /\ own = featureRows[f].estimate
      <3>1. Cov[<<"feature", f, own>>] = {f}
        BY KindsOfItems
      <3>2. <<"feature", f, own>> \in InPlace(query.plan)
        BY <2>1
      <3>3. own = featureRows[f].estimate
        BY <3>2 DEF InPlace
      <3> QED BY <3>1, <3>3
    <2>3. gain = Worth[f]
      BY <1>1, <2>2 DEF Worth
    <2>4. f \in U /\ V \subseteq U /\ f \notin V /\ W = V \cup {f} /\ U \subseteq FeatureIDs
      BY <1>9, <2>1, <2>2 DEF Gathered, FeaturesUnder
    <2>5. query.total = SumOver(Worth, U \ W)
      BY <1>9 DEF Gathered
    <2> HIDE DEF U, W, V, gain, n
    <2>6. U \ V \in SUBSET FeatureIDs /\ f \in U \ V /\ (U \ V) \ {f} = U \ W
      BY <2>4
    <2>7. SumOver(Worth, U \ V) = Worth[f] + SumOver(Worth, U \ W)
      <3>1. IsFiniteSet(FeatureIDs) /\ Counts(Worth, FeatureIDs)
        BY LoadsAreRecords, WorthIs
      <3>2. SumOver(Worth, U \ V) = Worth[f] + SumOver(Worth, (U \ V) \ {f})
        BY <2>6, <3>1, SumTakesOut
      <3> QED BY <2>6, <3>2
    <2>8. n.total = SumOver(Worth, U \ V)
      <3>1. query.total \in Nat
        BY <1>2 DEF Queries
      <3>2. \A i, j \in Nat : i + j = j + i
        OBVIOUS
      <3> QED BY <1>1, <1>4, <2>3, <2>5, <2>7, <3>1, <3>2
    <2> QED BY <1>4, <2>1, <2>4, <2>8 DEF Gathered, U, V
  <1>10. Sound(n)
    <2> HIDE DEF n
    <2> QED BY <1>4, <1>8, <1>9 DEF Sound
  <1> QED
    BY <1>6, <1>10

LEMMA ListingDone ==
    ASSUME QueryOK(query), Sound(query), query.state = "asked", query.todo = <<>>
    PROVE  QueryOK([query EXCEPT !.state = "answered"]) /\ Sound([query EXCEPT !.state = "answered"])
  <1> DEFINE n == [query EXCEPT !.state = "answered"]
  <1>1. /\ n \in Queries /\ n.todo = query.todo /\ n.total = query.total /\ n.progress = query.progress
        /\ n.plan = query.plan /\ n.quiet = query.quiet
    BY DEF QueryOK, Queries
  <1> HIDE DEF n
  <1>2. QueryOK(n) /\ Sound(n)
    BY <1>1 DEF QueryOK, Sound, Gathered
  <1> QED
    BY <1>2 DEF n

LEMMA RollupStepKeeps ==
    ASSUME RollupInv, RollupStep PROVE QueryOK(query') /\ Sound(query')
  <1>1. query.state = "asked" /\ query.todo \in Seq(TodoItems)
    BY DEF RollupStep, RollupInv, QueryOK, Queries
  <1>2. CASE query.todo = <<>>
    BY <1>1, <1>2, ListingDone DEF RollupInv, RollupStep
  <1>3. CASE query.todo # <<>>
    <2>1. Head(query.todo) \in TodoItems
      BY <1>1, <1>3, Split
    <2>2. query' = LET item == Head(query.todo) IN
                   CASE item[1] = "plan" -> PlanStep(item[2], item[3])
                     [] item[1] = "below" -> BelowStep(item[2], item[3])
                     [] item[1] = "batch" -> BatchStep(item[2])
                     [] item[1] = "feature" -> FeatureStep(item[2], item[3])
      BY <1>3 DEF RollupStep
    <2>3. ASSUME NEW p \in StrategicPlans, NEW d \in Nat, Head(query.todo) = <<"plan", p, d>>
          PROVE  QueryOK(query') /\ Sound(query')
      <3>1. query' = PlanStep(p, d)
        BY <2>2, <2>3
      <3> QED BY <1>1, <1>3, <2>3, <3>1, PlanListed DEF RollupInv
    <2>4. ASSUME NEW p \in StrategicPlans, NEW d \in Nat, Head(query.todo) = <<"below", p, d>>
          PROVE  QueryOK(query') /\ Sound(query')
      <3>1. query' = BelowStep(p, d)
        BY <2>2, <2>4
      <3> QED BY <1>1, <1>3, <2>4, <3>1, BelowListed DEF RollupInv
    <2>5. ASSUME NEW b \in Batches, NEW d \in Nat, Head(query.todo) = <<"batch", b, d>>
          PROVE  QueryOK(query') /\ Sound(query')
      <3>1. query' = BatchStep(b)
        BY <2>2, <2>5
      <3> QED BY <1>1, <1>3, <2>5, <3>1, BatchListed DEF RollupInv
    <2>6. ASSUME NEW f \in FeatureIDs, NEW own \in Nat \cup {Unset}, Head(query.todo) = <<"feature", f, own>>
          PROVE  QueryOK(query') /\ Sound(query')
      <3>1. query' = FeatureStep(f, own)
        BY <2>2, <2>6
      <3> QED BY <1>1, <1>3, <2>6, <3>1, FeatureListed DEF RollupInv
    <2> QED BY <2>1, <2>3, <2>4, <2>5, <2>6, ItemIsOneOf
  <1> QED
    BY <1>2, <1>3

(* When no record changes, what holds of a query still does.               *)
LEMMA SoundStays ==
    ASSUME UNCHANGED <<parents, cacheRows>>, QueryOK(query'), Sound(query')
    PROVE  QueryOK(query)' /\ Sound(query)'
  <1>1. QueryOK(query)'
    BY DEF QueryOK, Queries, TodoItems
  <1>2. \A p : LiesUnder(p)' = LiesUnder(p) /\ PlansBelow(p)' = PlansBelow(p) /\ FeaturesOf(p)' = FeaturesOf(p)
    BY DEF LiesUnder, Reached, PlansBelow, FeaturesOf, cacheRows
  <1>3. \A p : FeaturesUnder(p)' = FeaturesUnder(p)
    BY DEF FeaturesUnder, Reached, ListBatches, cacheRows
  <1>4. Cov' = Cov
    <2>1. \A item \in TodoItems : Covers(item)' = Covers(item)
      BY <1>2, <1>3 DEF Covers
    <2> QED BY <2>1 DEF Cov
  <1>5. Worth' = Worth
    <2>1. \A f \in FeatureIDs : TaskTotal(f)' = TaskTotal(f)
      <3>1. \A f \in FeatureIDs : Estimated(f)' = Estimated(f)
        BY DEF Estimated, TasksOf, cacheRows
      <3>2. \A S : Points(S)' = Points(S)
        BY DEF Points, FoldFunctionOnSet, MapThenFoldSet, cacheRows
      <3> QED BY <3>1, <3>2 DEF TaskTotal
    <2> QED BY <2>1 DEF Worth, cacheRows
  <1>6. Circling' = Circling /\ \A p : InPlace(p)' = InPlace(p)
    BY <1>2 DEF Circling, InPlace, cacheRows
  <1>7. Gathered(query)' <=> Gathered(query')
    BY <1>3, <1>4, <1>5, <1>6 DEF Gathered
  <1> QED
    BY <1>1, <1>2, <1>6, <1>7 DEF Sound, Holds

LEMMA AskKeeps ==
    ASSUME RollupInv, NEW p \in StrategicPlans, Ask(p) PROVE QueryOK(query)' /\ Sound(query)'
  <1> DEFINE item == <<"plan", p, 0>>
             todo == << item >>
             n == [NoQuery EXCEPT !.plan = p, !.state = "asked", !.todo = todo]
  <1>1. query' = n /\ UNCHANGED <<parents, cacheRows>>
    BY DEF Ask
  <1>2. item \in TodoItems /\ Cov[item] = FeaturesUnder(p) /\ item[1] = "plan" /\ item[2] = p
    BY KindsOfItems
  <1>3. todo \in Seq(TodoItems) /\ Len(todo) = 1 /\ todo[1] = item /\ 1..1 = {1}
    BY <1>2
  <1> HIDE DEF todo
  <1>4. /\ n.todo = todo /\ n.plan = p /\ n.total = 0 /\ n.progress = 0 /\ n.state = "asked" /\ n.quiet
        /\ n \in Queries
    BY <1>3 DEF NoQuery, Queries
  <1> HIDE DEF n
  <1>5. QueryOK(n)
    BY <1>4 DEF QueryOK
  <1>6. AllCovered(todo, Cov) = FeaturesUnder(p) /\ Spread(todo, Cov)
    BY <1>2, <1>3 DEF AllCovered, Spread
  <1>7. (\A S : Within(todo, S) <=> item \in S) /\ (\A S : Holds(todo, S) <=> item \in S)
    BY <1>3 DEF Within, Holds
  <1>8. ASSUME p \in LiesUnder(p) PROVE Holds(todo, Circling)
    BY <1>2, <1>7, <1>8 DEF Circling
  <1>9. ASSUME p \notin LiesUnder(p) PROVE Gathered(n)
    <2>1. item \in InPlace(p)
      BY <1>2 DEF InPlace
    <2>2. SumOver(Worth, {}) = 0
      <3>1. IsFiniteSet(FeatureIDs) /\ Counts(Worth, FeatureIDs)
        BY WorthIs, LoadsAreRecords DEF RollupInv
      <3> QED BY <3>1, SumsOf
    <2>3. FeaturesUnder(p) \ FeaturesUnder(p) = {}
      OBVIOUS
    <2> HIDE DEF item
    <2> QED BY <1>4, <1>6, <1>7, <2>1, <2>2, <2>3 DEF Gathered
  <1>10. Sound(n)
    BY <1>4, <1>8, <1>9 DEF Sound
  <1> QED
    BY <1>1, <1>5, <1>10, SoundStays

LEMMA WriteKeeps ==
    ASSUME RollupInv, query' = [query EXCEPT !.quiet = FALSE] PROVE QueryOK(query)' /\ Sound(query)'
  <1> DEFINE n == [query EXCEPT !.quiet = FALSE]
  <1>1. /\ n \in Queries /\ ~ n.quiet /\ n.todo = query.todo /\ n.total = query.total
        /\ n.progress = query.progress /\ n.state = query.state
    BY DEF RollupInv, QueryOK, Queries
  <1>2. query' = n
    OBVIOUS
  <1> HIDE DEF n
  <1>3. query' \in Queries /\ ~ query'.quiet /\ query'.progress <= query'.total
        /\ (query'.state = "answered" => query'.todo = <<>>)
    BY <1>1, <1>2 DEF RollupInv, QueryOK
  <1> QED
    BY <1>3 DEF QueryOK, Queries, TodoItems, Sound

LEMMA QueryLost ==
    ASSUME query' = NoQuery PROVE QueryOK(query)' /\ Sound(query)'
  <1>1. <<>> \in Seq(TodoItems')
    OBVIOUS
  <1> QED
    BY <1>1 DEF QueryOK, Queries, Sound, NoQuery

LEMMA RollupBegins == WorkloadInit => RollupInv
  <1> SUFFICES ASSUME WorkloadInit PROVE RollupInv
    OBVIOUS
  <1>1. query = NoQuery
    BY DEF WorkloadInit, Carries
  <1>2. <<>> \in Seq(TodoItems)
    OBVIOUS
  <1>3. QueryOK(query) /\ Sound(query)
    BY <1>1, <1>2 DEF QueryOK, Queries, Sound, NoQuery
  <1> QED
    BY <1>3, RowsBegin DEF RollupInv

LEMMA RollupNext == RollupInv /\ [WorkloadNext]_wvars => RollupInv'
  <1> SUFFICES ASSUME RollupInv, [WorkloadNext]_wvars PROVE RollupInv'
    OBVIOUS
  <1>1. RowsTypeOK'
    BY RowsStep DEF RollupInv
  <1>2. ASSUME UNCHANGED <<parents, cacheRows, query>> PROVE QueryOK(query)' /\ Sound(query)'
    BY <1>2, SoundStays DEF RollupInv
  <1>3. ASSUME RollupStep PROVE QueryOK(query)' /\ Sound(query)'
    <2>1. UNCHANGED <<parents, cacheRows>>
      BY <1>3 DEF RollupStep
    <2> QED BY <1>3, <2>1, RollupStepKeeps, SoundStays
  <1>4. Estimating => \/ RollupStep
                      \/ \E p \in StrategicPlans : Ask(p)
                      \/ query' = [query EXCEPT !.quiet = FALSE] \/ query' = NoQuery
    BY DEF Estimating, MovePlan, SetTaskEstimate, MoveTask, SetFeatureEstimate, MoveFeature, UpdateFeature,
           MoveBatch, RebuildCache, Written, Disturbed
  <1>5. Weighing \/ UNCHANGED wvars => UNCHANGED <<parents, cacheRows, query>>
    BY DEF Weighing, Check, CheckFeatures, AnnotateQueue, DependencyStatus, Answered, wvars
  <1>6. QueryOK(query)' /\ Sound(query)'
    BY <1>2, <1>3, <1>4, <1>5, AskKeeps, WriteKeeps, QueryLost DEF WorkloadNext
  <1> QED
    BY <1>1, <1>6 DEF RollupInv

(* estimation.go:86: what an estimate query answers with.  At all times    *)
(* what is done is no more than there is to do; and a query during which   *)
(* nothing changed has added up, once, each feature that the rows of the   *)
(* cache put below its plan, stale as they may be, however many plans,     *)
(* batches, features and tasks there are.                                  *)
THEOREM RollupSums == WorkloadSpec => []RollupAddsUp
  <1>1. RollupInv => RollupAddsUp
    <2> SUFFICES ASSUME RollupInv, query.state = "answered"
                 PROVE  /\ query.progress <= query.total
                        /\ query.quiet => query.total = SumOver(Worth, FeaturesUnder(query.plan))
      BY DEF RollupAddsUp, SumOver, Worth
    <2>1. query.progress <= query.total /\ query.todo = <<>>
      BY DEF RollupInv, QueryOK
    <2>2. ASSUME query.quiet PROVE query.total = SumOver(Worth, FeaturesUnder(query.plan))
      <3>1. ~ Holds(query.todo, Circling) /\ AllCovered(query.todo, Cov) = {}
        BY <2>1 DEF Holds, AllCovered
      <3>2. Gathered(query)
        BY <2>2, <3>1 DEF RollupInv, Sound
      <3>3. FeaturesUnder(query.plan) \ {} = FeaturesUnder(query.plan)
        OBVIOUS
      <3> QED BY <3>1, <3>2, <3>3 DEF Gathered
    <2> QED BY <2>1, <2>2
  <1> QED
    BY <1>1, RollupBegins, RollupNext, PTL DEF WorkloadSpec

-----------------------------------------------------------------------------
(* Prompts.                                                                *)
PromptInv == pscene \in PacketScenes /\ DOMAIN answers = Agents /\ PromptPairsRoleAndSkill

PairedWell(p) ==
    LET b == pscene.bindings[p.stage]
        worker == {i \in DOMAIN b.subroles : Prefixed(b.subroles[i], p.role)} IN
    IF worker = {} THEN p.skill = b.skills[1] ELSE p.skill \in {b.subskills[i] : i \in worker}

LEMMA LeastIs ==
    ASSUME NEW S \in SUBSET Nat, S # {} PROVE Min(S) \in S
  <1>1. \E x \in S : \A y \in S : x <= y
    BY LeastNumber
  <1> QED
    BY <1>1 DEF Min

LEMMA RoleAndSkill ==
    ASSUME pscene \in PacketScenes, stage \in DOMAIN pscene.bindings, NEW asked,
           NEW b, b = pscene.bindings[stage], SkillName(b, asked) \in DOMAIN pscene.skills,
           NEW p, p.role = RoleID(b, asked), p.skill = SkillName(b, asked), p.stage = stage
    PROVE  PairedWell(p)
  <1>1. /\ No \notin DOMAIN pscene.skills
        /\ b.subroles \in Seq(STRING) /\ b.subskills \in Seq(STRING) /\ b.skills \in Seq(STRING)
        /\ b.subroles = <<>> <=> b.subskills = <<>>
    BY BindingsAreValid
  <1> DEFINE fits == {i \in DOMAIN b.subroles : Prefixed(b.subroles[i], p.role)}
             named == {i \in DOMAIN b.subroles : Prefixed(b.subroles[i], asked)}
  <1>2. \A s : s \in Seq(STRING) /\ s # <<>> => 1 \in DOMAIN s /\ Head(s) = s[1]
    OBVIOUS
  <1>3. DOMAIN b.subroles \in SUBSET (Nat \ {0})
    BY <1>1
  <1>4. \A s, i : At(s, i) # No => i \in DOMAIN s /\ At(s, i) = s[i]
    BY DEF At
  <1>5. p.skill # No
    BY <1>1
  <1>6. SUFFICES IF fits = {} THEN p.skill = b.skills[1] ELSE p.skill \in {b.subskills[i] : i \in fits}
    BY DEF PairedWell
  <1>7. CASE asked # No
    <2>1. fits = named
      BY <1>7 DEF RoleID
    <2>2. CASE named = {}
      <3>1. WorkerAt(b, asked) = 0
        BY <2>2 DEF WorkerAt
      <3>2. p.skill = At(b.skills, 1)
        BY <1>7, <3>1 DEF SkillName
      <3> QED BY <1>4, <1>5, <2>1, <2>2, <3>2
    <2>3. CASE named # {}
      <3>1. WorkerAt(b, asked) = Min(named)
        BY <1>7, <2>3 DEF WorkerAt
      <3>2. Min(named) \in named /\ Min(named) \in Nat \ {0}
        BY <1>3, <2>3, LeastIs
      <3> DEFINE at == WorkerAt(b, asked)
      <3>6. at > 0 /\ at = Min(named)
        BY <3>1, <3>2
      <3> HIDE DEF at
      <3>3. p.skill = At(b.subskills, at)
        BY <3>6 DEF SkillName, at
      <3> DEFINE least == Min(named)
      <3> HIDE DEF least, named, fits
      <3>4. least \in DOMAIN b.subskills /\ p.skill = b.subskills[least]
        BY <1>4, <1>5, <3>3, <3>6 DEF least
      <3>5. least \in fits
        BY <2>1, <3>2 DEF least
      <3> QED BY <3>4, <3>5
    <2> QED BY <2>2, <2>3
  <1>8. CASE asked = No
    <2>1. WorkerAt(b, asked) = 0
      BY <1>8 DEF WorkerAt
    <2>2. CASE b.subroles = <<>>
      <3>1. fits = {}
        BY <2>2
      <3>2. p.skill = At(b.skills, 1)
        BY <1>1, <2>1, <2>2 DEF SkillName
      <3> QED BY <1>4, <1>5, <3>1, <3>2
    <2>3. CASE b.subroles # <<>>
      <3>1. p.role = b.subroles[1] /\ 1 \in DOMAIN b.subroles
        BY <1>1, <1>2, <1>8, <2>3 DEF RoleID
      <3>2. 1 \in fits
        BY <3>1 DEF Prefixed
      <3>3. p.skill = b.subskills[1]
        BY <1>1, <1>2, <1>8, <2>1, <2>3 DEF SkillName
      <3> QED BY <3>2, <3>3
    <2> QED BY <2>2, <2>3
  <1> QED
    BY <1>7, <1>8

LEMMA PromptIsPaired ==
    ASSUME pscene \in PacketScenes, NEW asked, NEW said, Prompt(asked, said).kind = "prompt"
    PROVE  PairedWell(Prompt(asked, said))
  <1> DEFINE b == pscene.bindings[stage]
             p == Prompt(asked, said)
  <1>1. /\ stage \in DOMAIN pscene.bindings /\ SkillName(b, asked) \in DOMAIN pscene.skills
        /\ p.role = RoleID(b, asked) /\ p.skill = SkillName(b, asked) /\ p.stage = stage
    BY DEF Prompt, Told
  <1> HIDE DEF p
  <1> QED
    BY <1>1, RoleAndSkill DEF p

LEMMA PromptsStayPaired == PromptInv /\ [PacketsNext]_pvars => PromptInv'
  <1> SUFFICES ASSUME PromptInv, [PacketsNext]_pvars PROVE PromptInv'
    OBVIOUS
  <1>1. pscene' = pscene
    BY DEF PacketsNext, pvars, ResolveTask, ClaimTask, Assemble, Handoff, AdvanceStage, EndWorktree, FinishTask
  <1>2. ASSUME NEW a \in Agents, NEW v, AnsweredTo(a, v), v.kind = "prompt" => PairedWell(v)
        PROVE  PromptInv'
    <2>1. DOMAIN answers' = Agents /\ \A c \in Agents : answers'[c] = IF c = a THEN v ELSE answers[c]
      BY <1>2 DEF AnsweredTo, PromptInv
    <2>2. \A c \in Agents : answers[c].kind = "prompt" => PairedWell(answers[c])
      BY DEF PromptInv, PromptPairsRoleAndSkill, PairedWell
    <2>3. \A c \in Agents : answers'[c].kind = "prompt" => PairedWell(answers'[c])
      BY <1>2, <2>1, <2>2
    <2>4. PromptPairsRoleAndSkill'
      BY <1>1, <2>3 DEF PromptPairsRoleAndSkill, PairedWell
    <2> QED BY <1>1, <2>1, <2>4 DEF PromptInv
  <1>3. ASSUME UNCHANGED answers PROVE PromptInv'
    BY <1>1, <1>3 DEF PromptInv, PromptPairsRoleAndSkill
  <1>4. \A kind : Told(kind).kind = kind
    BY DEF Told
  <1>5. ASSUME NEW a \in Agents, ResolveTask(a) PROVE PromptInv'
    <2>1. AnsweredTo(a, Told("nothing ready")) \/ UNCHANGED answers
      BY <1>5 DEF ResolveTask
    <2>2. CASE AnsweredTo(a, Told("nothing ready"))
      <3>1. Told("nothing ready").kind = "nothing ready" /\ "nothing ready" # "prompt"
        BY <1>4
      <3> QED BY <1>2, <2>2, <3>1
    <2> QED BY <1>3, <2>1, <2>2
  <1>6. ASSUME NEW a \in Agents, ClaimTask(a) PROVE PromptInv'
    <2>1. AnsweredTo(a, Told("refused")) \/ UNCHANGED answers
      BY <1>6 DEF ClaimTask
    <2>2. CASE AnsweredTo(a, Told("refused"))
      <3>1. Told("refused").kind # "prompt"
        BY <1>4
      <3> QED BY <1>2, <2>2, <3>1
    <2> QED BY <1>3, <2>1, <2>2
  <1>7. ASSUME NEW a \in Agents, Assemble(a) PROVE PromptInv'
    <2>1. \E v : AnsweredTo(a, v) /\ v.kind # "prompt"
      BY <1>4, <1>7 DEF Assemble
    <2> QED BY <1>2, <2>1
  <1>8. ASSUME NEW a \in Agents, Handoff(a) PROVE PromptInv'
    <2>1. AnsweredTo(a, Told("refused")) \/ \E asked, said : AnsweredTo(a, Prompt(asked, said))
      BY <1>8 DEF Handoff
    <2>2. CASE AnsweredTo(a, Told("refused"))
      <3>1. Told("refused").kind # "prompt"
        BY <1>4
      <3> QED BY <1>2, <2>2, <3>1
    <2>3. ASSUME NEW asked, NEW said, AnsweredTo(a, Prompt(asked, said)) PROVE PromptInv'
      BY <1>2, <2>3, PromptIsPaired DEF PromptInv
    <2> QED BY <2>1, <2>2, <2>3
  <1>9. (\E to : AdvanceStage(to)) \/ EndWorktree \/ (\E t : FinishTask(t)) \/ UNCHANGED pvars => UNCHANGED answers
    BY DEF AdvanceStage, EndWorktree, FinishTask, pvars
  <1> QED
    BY <1>3, <1>5, <1>6, <1>7, <1>8, <1>9 DEF PacketsNext

(* pipeline.go:401 and 442, two steps of the pipeline that each look for a *)
(* place in the binding on their own: with any valid bindings they find    *)
(* the same one.                                                           *)
THEOREM RoleMeetsSkill == PacketsSpec => []PromptPairsRoleAndSkill
  <1>1. PacketsInit => PromptInv
    <2> SUFFICES ASSUME NEW scene \in PacketScenes, Opens(scene) PROVE PromptInv
      BY DEF PacketsInit
    <2>1. pscene = scene /\ DOMAIN answers = Agents /\ \A a \in Agents : answers[a].kind = "nothing yet"
      BY DEF Opens, Told
    <2> QED BY <2>1 DEF PromptInv, PromptPairsRoleAndSkill
  <1>2. PromptInv => PromptPairsRoleAndSkill
    BY DEF PromptInv
  <1> QED
    BY <1>1, <1>2, PromptsStayPaired, PTL DEF PacketsSpec

-----------------------------------------------------------------------------
(* Reading lists.  Every list of Decompose is read from its first element  *)
(* to its last by a fold; StepOf puts the six of them under one name, so   *)
(* that a fold is unfolded once for all.                                   *)
StepOf(what, arg, r, x) ==
    CASE what = "line" -> SpecLine(r, x)
      [] what = "section" -> IF x.l2 \in Elements(r) THEN r ELSE Append(r, x.l2)
      [] what = "under" -> IF x.l2 = arg THEN Append(r, x) ELSE r
      [] what = "own" -> r \o TasksFor(x.text.slug, x.text, {x.text}, arg)
      [] what = "all" -> r \o SectionTasks(arg[1], x, arg[2])
      [] what = "slug" -> IF x \in DOMAIN arg THEN Append(r, arg[x].text.slug) ELSE r

LEMMA LineStep == \A r, x : StepOf("line", 0, r, x) = SpecLine(r, x)
  BY DEF StepOf
LEMMA SectionStep ==
    \A r, x : StepOf("section", 0, r, x) = IF x.l2 \in Elements(r) THEN r ELSE Append(r, x.l2)
  BY DEF StepOf
LEMMA UnderStep == \A arg, r, x : StepOf("under", arg, r, x) = IF x.l2 = arg THEN Append(r, x) ELSE r
  BY DEF StepOf
LEMMA OwnStep ==
    \A arg, r, x : StepOf("own", arg, r, x) = r \o TasksFor(x.text.slug, x.text, {x.text}, arg)
  BY DEF StepOf
LEMMA AllStep == \A arg, r, x : StepOf("all", arg, r, x) = r \o SectionTasks(arg[1], x, arg[2])
  BY DEF StepOf
LEMMA SlugStep ==
    \A arg, r, x : StepOf("slug", arg, r, x) = IF x \in DOMAIN arg THEN Append(r, arg[x].text.slug) ELSE r
  BY DEF StepOf

ListFold(f, dom, base, seq, what, arg) ==
    f = [S \in SUBSET dom |->
            IF S = {} THEN base ELSE StepOf(what, arg, f[S \ {Top(S)}], seq[Top(S)])]

LEMMA ListFoldIsThere ==
    ASSUME NEW n \in Nat, NEW base, NEW seq, NEW what, NEW arg
    PROVE  \E f : ListFold(f, 1..n, base, seq, what, arg)
  <1> DEFINE T == {m \in 0..n : \E f : ListFold(f, 1..m, base, seq, what, arg)}
  <1>1. 0 \in T
    <2> DEFINE f == [S \in SUBSET (1..0) |-> base]
    <2>1. \A S \in SUBSET (1..0) : S = {}
      OBVIOUS
    <2>2. f = [S \in SUBSET (1..0) |->
                  IF S = {} THEN base ELSE StepOf(what, arg, f[S \ {Top(S)}], seq[Top(S)])]
      BY <2>1
    <2> HIDE DEF f
    <2>3. ListFold(f, 1..0, base, seq, what, arg)
      BY <2>2 DEF ListFold
    <2> QED BY <2>3
  <1>2. ASSUME NEW k \in 1..n, k - 1 \in T PROVE k \in T
    <2>1. PICK f : ListFold(f, 1..k - 1, base, seq, what, arg)
      BY <1>2
    <2>2. \A S \in SUBSET (1..(k - 1)) :
             f[S] = IF S = {} THEN base ELSE StepOf(what, arg, f[S \ {Top(S)}], seq[Top(S)])
      BY <2>1 DEF ListFold
    <2> DEFINE g == [S \in SUBSET (1..k) |->
                        IF k \in S THEN StepOf(what, arg, f[S \ {k}], seq[k]) ELSE f[S]]
    <2>3. ASSUME NEW S \in SUBSET (1..k)
          PROVE  g[S] = IF S = {} THEN base ELSE StepOf(what, arg, g[S \ {Top(S)}], seq[Top(S)])
      <3>1. CASE k \in S
        <4>1. Top(S) = k
          BY <3>1, TopIs
        <4>2. S \ {k} \in SUBSET (1..k) /\ k \notin S \ {k} /\ S # {}
          BY <3>1
        <4>3. g[S \ {k}] = f[S \ {k}]
          BY <4>2
        <4>4. g[S] = StepOf(what, arg, f[S \ {k}], seq[k])
          BY <3>1
        <4> HIDE DEF g
        <4> QED BY <4>1, <4>2, <4>3, <4>4
      <3>2. CASE k \notin S
        <4>1. S \in SUBSET (1..(k - 1)) /\ S \ {Top(S)} \in SUBSET (1..(k - 1))
          BY <3>2, Below
        <4>2. S \ {Top(S)} \in SUBSET (1..k) /\ k \notin S \ {Top(S)}
          BY <3>2
        <4>3. g[S \ {Top(S)}] = f[S \ {Top(S)}]
          BY <4>2
        <4>4. g[S] = f[S]
          BY <3>2
        <4> HIDE DEF g
        <4> QED BY <2>2, <4>1, <4>3, <4>4
      <3> QED BY <3>1, <3>2
    <2>4. g = [S \in SUBSET (1..k) |->
                  IF S = {} THEN base ELSE StepOf(what, arg, g[S \ {Top(S)}], seq[Top(S)])]
      <3>1. g = [S \in SUBSET (1..k) |-> g[S]]
        OBVIOUS
      <3> HIDE DEF g
      <3> QED BY <2>3, <3>1
    <2> HIDE DEF g
    <2>5. ListFold(g, 1..k, base, seq, what, arg)
      BY <2>4 DEF ListFold
    <2> QED BY <2>5
  <1> HIDE DEF T
  <1>3. n \in T
    BY <1>1, <1>2, UpTo
  <1> QED
    BY <1>3 DEF T

(* What a list read up to its m-th element has come to. *)
ListRun(g, n, base, seq, what, arg) ==
    g[0] = base /\ \A m \in 1..n : g[m] = StepOf(what, arg, g[m - 1], seq[m])

LEMMA ListRuns ==
    ASSUME NEW n \in Nat, NEW base, NEW seq, NEW what, NEW arg, NEW f,
           ListFold(f, 1..n, base, seq, what, arg)
    PROVE  \E g : ListRun(g, n, base, seq, what, arg) /\ f[1..n] = g[n]
  <1>1. \A S \in SUBSET (1..n) :
           f[S] = IF S = {} THEN base ELSE StepOf(what, arg, f[S \ {Top(S)}], seq[Top(S)])
    BY DEF ListFold
  <1> DEFINE g == [m \in 0..n |-> f[1..m]]
  <1>2. g[0] = base
    <2>1. (1..0) \in SUBSET (1..n) /\ (1..0) = {} /\ 0 \in 0..n
      OBVIOUS
    <2> QED BY <1>1, <2>1
  <1>3. ASSUME NEW m \in 1..n PROVE g[m] = StepOf(what, arg, g[m - 1], seq[m])
    <2>1. /\ (1..m) \in SUBSET (1..n) /\ (1..m) # {}
          /\ Top(1..m) = m /\ (1..m) \ {m} = 1..(m - 1)
      BY UpToItsTop
    <2>2. g[m] = f[1..m] /\ g[m - 1] = f[1..(m - 1)]
      OBVIOUS
    <2> HIDE DEF g
    <2> QED BY <1>1, <2>1, <2>2
  <1>4. f[1..n] = g[n]
    OBVIOUS
  <1> HIDE DEF g
  <1> QED
    BY <1>2, <1>3, <1>4 DEF ListRun

-----------------------------------------------------------------------------
(* The six folds. *)
NothingFound == [section |-> "", l2 |-> "", inAC |-> FALSE, inTable |-> FALSE, found |-> <<>>]

LEMMA CriteriaRuns ==
    ASSUME NEW lines, NEW n \in Nat, DOMAIN lines = 1..n
    PROVE  \E g : /\ ListRun(g, n, NothingFound, lines, "line", 0)
                  /\ Criteria(lines) = g[n].found
  <1> DEFINE fold(h) == h = [S \in SUBSET DOMAIN lines |->
                                IF S = {} THEN NothingFound
                                ELSE SpecLine(h[S \ {Top(S)}], lines[Top(S)])]
             f == CHOOSE h : fold(h)
  <1>0. \A r, x : StepOf("line", 0, r, x) = SpecLine(r, x)
    BY LineStep
  <1>1. Criteria(lines) = f[DOMAIN lines].found
    BY DEF Criteria, NothingFound, FoldLeft, MapThenFoldSet, Top, Max
  <1>2. \E h : fold(h)
    <2>1. PICK h : ListFold(h, 1..n, NothingFound, lines, "line", 0)
      BY ListFoldIsThere
    <2>2. h = [S \in SUBSET (1..n) |->
                 IF S = {} THEN NothingFound ELSE StepOf("line", 0, h[S \ {Top(S)}], lines[Top(S)])]
      BY <2>1 DEF ListFold
    <2>3. ASSUME NEW S \in SUBSET (1..n)
          PROVE  h[S] = IF S = {} THEN NothingFound ELSE SpecLine(h[S \ {Top(S)}], lines[Top(S)])
      <3>1. h[S] = IF S = {} THEN NothingFound ELSE StepOf("line", 0, h[S \ {Top(S)}], lines[Top(S)])
        BY <2>2
      <3> QED BY <1>0, <3>1
    <2>4. h = [S \in SUBSET (1..n) |-> h[S]]
      BY <2>2
    <2>5. h = [S \in SUBSET (1..n) |->
                 IF S = {} THEN NothingFound ELSE SpecLine(h[S \ {Top(S)}], lines[Top(S)])]
      BY <2>3, <2>4
    <2> QED BY <2>5
  <1>3. fold(f)
    BY <1>2
  <1> HIDE DEF f
  <1>4. ListFold(f, 1..n, NothingFound, lines, "line", 0)
    <2>2. f = [S \in SUBSET (1..n) |->
                 IF S = {} THEN NothingFound ELSE SpecLine(f[S \ {Top(S)}], lines[Top(S)])]
      BY <1>3
    <2>3. ASSUME NEW S \in SUBSET (1..n)
          PROVE  f[S] = IF S = {} THEN NothingFound ELSE StepOf("line", 0, f[S \ {Top(S)}], lines[Top(S)])
      <3>1. f[S] = IF S = {} THEN NothingFound ELSE SpecLine(f[S \ {Top(S)}], lines[Top(S)])
        BY <2>2
      <3> QED BY <1>0, <3>1
    <2>4. f = [S \in SUBSET (1..n) |-> f[S]]
      BY <2>2
    <2>5. f = [S \in SUBSET (1..n) |->
                 IF S = {} THEN NothingFound ELSE StepOf("line", 0, f[S \ {Top(S)}], lines[Top(S)])]
      BY <2>3, <2>4
    <2> QED BY <2>5 DEF ListFold
  <1>5. \E g : ListRun(g, n, NothingFound, lines, "line", 0) /\ f[1..n] = g[n]
    BY <1>4, ListRuns
  <1> QED
    BY <1>1, <1>5

LEMMA SectionsRuns ==
    ASSUME NEW cs, NEW n \in Nat, DOMAIN cs = 1..n
    PROVE  \E g : /\ ListRun(g, n, <<>>, cs, "section", 0)
                  /\ CriteriaSections(cs) = g[n]
  <1> DEFINE fold(h) == h = [S \in SUBSET DOMAIN cs |->
                                IF S = {} THEN <<>>
                                ELSE (IF cs[Top(S)].l2 \in Elements(h[S \ {Top(S)}]) THEN h[S \ {Top(S)}] ELSE Append(h[S \ {Top(S)}], cs[Top(S)].l2))]
             f == CHOOSE h : fold(h)
  <1>0. \A r, x : StepOf("section", 0, r, x) = (IF x.l2 \in Elements(r) THEN r ELSE Append(r, x.l2))
    BY SectionStep
  <1>1. CriteriaSections(cs) = f[DOMAIN cs]
    BY DEF CriteriaSections, FoldLeft, MapThenFoldSet, Top, Max
  <1>2. \E h : fold(h)
    <2>1. PICK h : ListFold(h, 1..n, <<>>, cs, "section", 0)
      BY ListFoldIsThere
    <2>2. h = [S \in SUBSET (1..n) |->
                 IF S = {} THEN <<>> ELSE StepOf("section", 0, h[S \ {Top(S)}], cs[Top(S)])]
      BY <2>1 DEF ListFold
    <2>3. ASSUME NEW S \in SUBSET (1..n)
          PROVE  h[S] = IF S = {} THEN <<>> ELSE (IF cs[Top(S)].l2 \in Elements(h[S \ {Top(S)}]) THEN h[S \ {Top(S)}] ELSE Append(h[S \ {Top(S)}], cs[Top(S)].l2))
      <3>1. h[S] = IF S = {} THEN <<>> ELSE StepOf("section", 0, h[S \ {Top(S)}], cs[Top(S)])
        BY <2>2
      <3> QED BY <1>0, <3>1
    <2>4. h = [S \in SUBSET (1..n) |-> h[S]]
      BY <2>2
    <2>5. h = [S \in SUBSET (1..n) |->
                 IF S = {} THEN <<>> ELSE (IF cs[Top(S)].l2 \in Elements(h[S \ {Top(S)}]) THEN h[S \ {Top(S)}] ELSE Append(h[S \ {Top(S)}], cs[Top(S)].l2))]
      BY <2>3, <2>4
    <2> QED BY <2>5
  <1>3. fold(f)
    BY <1>2, Zenon
  <1> HIDE DEF f
  <1>4. ListFold(f, 1..n, <<>>, cs, "section", 0)
    <2>2. f = [S \in SUBSET (1..n) |->
                 IF S = {} THEN <<>> ELSE (IF cs[Top(S)].l2 \in Elements(f[S \ {Top(S)}]) THEN f[S \ {Top(S)}] ELSE Append(f[S \ {Top(S)}], cs[Top(S)].l2))]
      BY <1>3
    <2>3. ASSUME NEW S \in SUBSET (1..n)
          PROVE  f[S] = IF S = {} THEN <<>> ELSE StepOf("section", 0, f[S \ {Top(S)}], cs[Top(S)])
      <3>1. f[S] = IF S = {} THEN <<>> ELSE (IF cs[Top(S)].l2 \in Elements(f[S \ {Top(S)}]) THEN f[S \ {Top(S)}] ELSE Append(f[S \ {Top(S)}], cs[Top(S)].l2))
        BY <2>2
      <3> QED BY <1>0, <3>1
    <2>4. f = [S \in SUBSET (1..n) |-> f[S]]
      BY <2>2
    <2>5. f = [S \in SUBSET (1..n) |->
                 IF S = {} THEN <<>> ELSE StepOf("section", 0, f[S \ {Top(S)}], cs[Top(S)])]
      BY <2>3, <2>4
    <2> QED BY <2>5 DEF ListFold
  <1>5. \E g : ListRun(g, n, <<>>, cs, "section", 0) /\ f[1..n] = g[n]
    BY <1>4, ListRuns
  <1> QED
    BY <1>1, <1>5

LEMMA UnderRuns ==
    ASSUME NEW section, NEW cs, NEW n \in Nat, DOMAIN cs = 1..n
    PROVE  \E g : /\ ListRun(g, n, <<>>, cs, "under", section)
                  /\ Under(cs, section) = g[n]
  <1> DEFINE fold(h) == h = [S \in SUBSET DOMAIN cs |->
                                IF S = {} THEN <<>>
                                ELSE (IF cs[Top(S)].l2 = section THEN Append(h[S \ {Top(S)}], cs[Top(S)]) ELSE h[S \ {Top(S)}])]
             f == CHOOSE h : fold(h)
  <1>0. \A r, x : StepOf("under", section, r, x) = (IF x.l2 = section THEN Append(r, x) ELSE r)
    BY UnderStep
  <1>1. Under(cs, section) = f[DOMAIN cs]
    BY DEF Under, FoldLeft, MapThenFoldSet, Top, Max
  <1>2. \E h : fold(h)
    <2>1. PICK h : ListFold(h, 1..n, <<>>, cs, "under", section)
      BY ListFoldIsThere
    <2>2. h = [S \in SUBSET (1..n) |->
                 IF S = {} THEN <<>> ELSE StepOf("under", section, h[S \ {Top(S)}], cs[Top(S)])]
      BY <2>1 DEF ListFold
    <2>3. ASSUME NEW S \in SUBSET (1..n)
          PROVE  h[S] = IF S = {} THEN <<>> ELSE (IF cs[Top(S)].l2 = section THEN Append(h[S \ {Top(S)}], cs[Top(S)]) ELSE h[S \ {Top(S)}])
      <3>1. h[S] = IF S = {} THEN <<>> ELSE StepOf("under", section, h[S \ {Top(S)}], cs[Top(S)])
        BY <2>2
      <3> QED BY <1>0, <3>1
    <2>4. h = [S \in SUBSET (1..n) |-> h[S]]
      BY <2>2
    <2>5. h = [S \in SUBSET (1..n) |->
                 IF S = {} THEN <<>> ELSE (IF cs[Top(S)].l2 = section THEN Append(h[S \ {Top(S)}], cs[Top(S)]) ELSE h[S \ {Top(S)}])]
      BY <2>3, <2>4
    <2> QED BY <2>5
  <1>3. fold(f)
    BY <1>2, Zenon
  <1> HIDE DEF f
  <1>4. ListFold(f, 1..n, <<>>, cs, "under", section)
    <2>2. f = [S \in SUBSET (1..n) |->
                 IF S = {} THEN <<>> ELSE (IF cs[Top(S)].l2 = section THEN Append(f[S \ {Top(S)}], cs[Top(S)]) ELSE f[S \ {Top(S)}])]
      BY <1>3
    <2>3. ASSUME NEW S \in SUBSET (1..n)
          PROVE  f[S] = IF S = {} THEN <<>> ELSE StepOf("under", section, f[S \ {Top(S)}], cs[Top(S)])
      <3>1. f[S] = IF S = {} THEN <<>> ELSE (IF cs[Top(S)].l2 = section THEN Append(f[S \ {Top(S)}], cs[Top(S)]) ELSE f[S \ {Top(S)}])
        BY <2>2
      <3> QED BY <1>0, <3>1
    <2>4. f = [S \in SUBSET (1..n) |-> f[S]]
      BY <2>2
    <2>5. f = [S \in SUBSET (1..n) |->
                 IF S = {} THEN <<>> ELSE StepOf("under", section, f[S \ {Top(S)}], cs[Top(S)])]
      BY <2>3, <2>4
    <2> QED BY <2>5 DEF ListFold
  <1>5. \E g : ListRun(g, n, <<>>, cs, "under", section) /\ f[1..n] = g[n]
    BY <1>4, ListRuns
  <1> QED
    BY <1>1, <1>5

LEMMA OwnRuns ==
    ASSUME NEW paired, NEW cs, NEW n \in Nat, DOMAIN cs = 1..n
    PROVE  \E g : /\ ListRun(g, n, <<>>, cs, "own", paired)
                  /\ EachItsOwn(cs, paired) = g[n]
  <1> DEFINE fold(h) == h = [S \in SUBSET DOMAIN cs |->
                                IF S = {} THEN <<>>
                                ELSE (h[S \ {Top(S)}] \o TasksFor(cs[Top(S)].text.slug, cs[Top(S)].text, {cs[Top(S)].text}, paired))]
             f == CHOOSE h : fold(h)
  <1>0. \A r, x : StepOf("own", paired, r, x) = (r \o TasksFor(x.text.slug, x.text, {x.text}, paired))
    BY OwnStep
  <1>1. EachItsOwn(cs, paired) = f[DOMAIN cs]
    BY DEF EachItsOwn, FoldLeft, MapThenFoldSet, Top, Max
  <1>2. \E h : fold(h)
    <2>1. PICK h : ListFold(h, 1..n, <<>>, cs, "own", paired)
      BY ListFoldIsThere
    <2>2. h = [S \in SUBSET (1..n) |->
                 IF S = {} THEN <<>> ELSE StepOf("own", paired, h[S \ {Top(S)}], cs[Top(S)])]
      BY <2>1 DEF ListFold
    <2>3. ASSUME NEW S \in SUBSET (1..n)
          PROVE  h[S] = IF S = {} THEN <<>> ELSE (h[S \ {Top(S)}] \o TasksFor(cs[Top(S)].text.slug, cs[Top(S)].text, {cs[Top(S)].text}, paired))
      <3>1. h[S] = IF S = {} THEN <<>> ELSE StepOf("own", paired, h[S \ {Top(S)}], cs[Top(S)])
        BY <2>2
      <3> QED BY <1>0, <3>1
    <2>4. h = [S \in SUBSET (1..n) |-> h[S]]
      BY <2>2
    <2>5. h = [S \in SUBSET (1..n) |->
                 IF S = {} THEN <<>> ELSE (h[S \ {Top(S)}] \o TasksFor(cs[Top(S)].text.slug, cs[Top(S)].text, {cs[Top(S)].text}, paired))]
      BY <2>3, <2>4
    <2> QED BY <2>5
  <1>3. fold(f)
    BY <1>2, Zenon
  <1> HIDE DEF f
  <1>4. ListFold(f, 1..n, <<>>, cs, "own", paired)
    <2>2. f = [S \in SUBSET (1..n) |->
                 IF S = {} THEN <<>> ELSE (f[S \ {Top(S)}] \o TasksFor(cs[Top(S)].text.slug, cs[Top(S)].text, {cs[Top(S)].text}, paired))]
      BY <1>3
    <2>3. ASSUME NEW S \in SUBSET (1..n)
          PROVE  f[S] = IF S = {} THEN <<>> ELSE StepOf("own", paired, f[S \ {Top(S)}], cs[Top(S)])
      <3>1. f[S] = IF S = {} THEN <<>> ELSE (f[S \ {Top(S)}] \o TasksFor(cs[Top(S)].text.slug, cs[Top(S)].text, {cs[Top(S)].text}, paired))
        BY <2>2
      <3> QED BY <1>0, <3>1
    <2>4. f = [S \in SUBSET (1..n) |-> f[S]]
      BY <2>2
    <2>5. f = [S \in SUBSET (1..n) |->
                 IF S = {} THEN <<>> ELSE StepOf("own", paired, f[S \ {Top(S)}], cs[Top(S)])]
      BY <2>3, <2>4
    <2> QED BY <2>5 DEF ListFold
  <1>5. \E g : ListRun(g, n, <<>>, cs, "own", paired) /\ f[1..n] = g[n]
    BY <1>4, ListRuns
  <1> QED
    BY <1>1, <1>5

LEMMA ProposalRuns ==
    ASSUME NEW lines, NEW paired, NEW secs, NEW n \in Nat, secs = CriteriaSections(Criteria(lines)), DOMAIN secs = 1..n
    PROVE  \E g : /\ ListRun(g, n, <<>>, secs, "all", <<lines, paired>>)
                  /\ FromCriteria(lines, paired) = g[n]
  <1> DEFINE fold(h) == h = [S \in SUBSET DOMAIN secs |->
                                IF S = {} THEN <<>>
                                ELSE (h[S \ {Top(S)}] \o SectionTasks(lines, secs[Top(S)], paired))]
             f == CHOOSE h : fold(h)
  <1>0. \A r, x : StepOf("all", <<lines, paired>>, r, x) = (r \o SectionTasks(lines, x, paired))
    BY AllStep
  <1>1. FromCriteria(lines, paired) = f[DOMAIN secs]
    BY DEF FromCriteria, FoldLeft, MapThenFoldSet, Top, Max
  <1>2. \E h : fold(h)
    <2>1. PICK h : ListFold(h, 1..n, <<>>, secs, "all", <<lines, paired>>)
      BY ListFoldIsThere
    <2>2. h = [S \in SUBSET (1..n) |->
                 IF S = {} THEN <<>> ELSE StepOf("all", <<lines, paired>>, h[S \ {Top(S)}], secs[Top(S)])]
      BY <2>1 DEF ListFold
    <2>3. ASSUME NEW S \in SUBSET (1..n)
          PROVE  h[S] = IF S = {} THEN <<>> ELSE (h[S \ {Top(S)}] \o SectionTasks(lines, secs[Top(S)], paired))
      <3>1. h[S] = IF S = {} THEN <<>> ELSE StepOf("all", <<lines, paired>>, h[S \ {Top(S)}], secs[Top(S)])
        BY <2>2
      <3> QED BY <1>0, <3>1
    <2>4. h = [S \in SUBSET (1..n) |-> h[S]]
      BY <2>2
    <2>5. h = [S \in SUBSET (1..n) |->
                 IF S = {} THEN <<>> ELSE (h[S \ {Top(S)}] \o SectionTasks(lines, secs[Top(S)], paired))]
      BY <2>3, <2>4
    <2> QED BY <2>5
  <1>3. fold(f)
    BY <1>2, Zenon
  <1> HIDE DEF f
  <1>4. ListFold(f, 1..n, <<>>, secs, "all", <<lines, paired>>)
    <2>2. f = [S \in SUBSET (1..n) |->
                 IF S = {} THEN <<>> ELSE (f[S \ {Top(S)}] \o SectionTasks(lines, secs[Top(S)], paired))]
      BY <1>3
    <2>3. ASSUME NEW S \in SUBSET (1..n)
          PROVE  f[S] = IF S = {} THEN <<>> ELSE StepOf("all", <<lines, paired>>, f[S \ {Top(S)}], secs[Top(S)])
      <3>1. f[S] = IF S = {} THEN <<>> ELSE (f[S \ {Top(S)}] \o SectionTasks(lines, secs[Top(S)], paired))
        BY <2>2
      <3> QED BY <1>0, <3>1
    <2>4. f = [S \in SUBSET (1..n) |-> f[S]]
      BY <2>2
    <2>5. f = [S \in SUBSET (1..n) |->
                 IF S = {} THEN <<>> ELSE StepOf("all", <<lines, paired>>, f[S \ {Top(S)}], secs[Top(S)])]
      BY <2>3, <2>4
    <2> QED BY <2>5 DEF ListFold
  <1>5. \E g : ListRun(g, n, <<>>, secs, "all", <<lines, paired>>) /\ f[1..n] = g[n]
    BY <1>4, ListRuns
  <1> QED
    BY <1>1, <1>5

LEMMA SlugsRuns ==
    ASSUME NEW plan, NEW deps, NEW n \in Nat, DOMAIN deps = 1..n
    PROVE  \E g : /\ ListRun(g, n, <<>>, deps, "slug", plan)
                  /\ SlugsOf(deps, plan) = g[n]
  <1> DEFINE fold(h) == h = [S \in SUBSET DOMAIN deps |->
                                IF S = {} THEN <<>>
                                ELSE (IF deps[Top(S)] \in DOMAIN plan THEN Append(h[S \ {Top(S)}], plan[deps[Top(S)]].text.slug) ELSE h[S \ {Top(S)}])]
             f == CHOOSE h : fold(h)
  <1>0. \A r, x : StepOf("slug", plan, r, x) = (IF x \in DOMAIN plan THEN Append(r, plan[x].text.slug) ELSE r)
    BY SlugStep
  <1>1. SlugsOf(deps, plan) = f[DOMAIN deps]
    BY DEF SlugsOf, FoldLeft, MapThenFoldSet, Top, Max
  <1>2. \E h : fold(h)
    <2>1. PICK h : ListFold(h, 1..n, <<>>, deps, "slug", plan)
      BY ListFoldIsThere
    <2>2. h = [S \in SUBSET (1..n) |->
                 IF S = {} THEN <<>> ELSE StepOf("slug", plan, h[S \ {Top(S)}], deps[Top(S)])]
      BY <2>1 DEF ListFold
    <2>3. ASSUME NEW S \in SUBSET (1..n)
          PROVE  h[S] = IF S = {} THEN <<>> ELSE (IF deps[Top(S)] \in DOMAIN plan THEN Append(h[S \ {Top(S)}], plan[deps[Top(S)]].text.slug) ELSE h[S \ {Top(S)}])
      <3>1. h[S] = IF S = {} THEN <<>> ELSE StepOf("slug", plan, h[S \ {Top(S)}], deps[Top(S)])
        BY <2>2
      <3> QED BY <1>0, <3>1
    <2>4. h = [S \in SUBSET (1..n) |-> h[S]]
      BY <2>2
    <2>5. h = [S \in SUBSET (1..n) |->
                 IF S = {} THEN <<>> ELSE (IF deps[Top(S)] \in DOMAIN plan THEN Append(h[S \ {Top(S)}], plan[deps[Top(S)]].text.slug) ELSE h[S \ {Top(S)}])]
      BY <2>3, <2>4
    <2> QED BY <2>5
  <1>3. fold(f)
    BY <1>2, Zenon
  <1> HIDE DEF f
  <1>4. ListFold(f, 1..n, <<>>, deps, "slug", plan)
    <2>2. f = [S \in SUBSET (1..n) |->
                 IF S = {} THEN <<>> ELSE (IF deps[Top(S)] \in DOMAIN plan THEN Append(f[S \ {Top(S)}], plan[deps[Top(S)]].text.slug) ELSE f[S \ {Top(S)}])]
      BY <1>3
    <2>3. ASSUME NEW S \in SUBSET (1..n)
          PROVE  f[S] = IF S = {} THEN <<>> ELSE StepOf("slug", plan, f[S \ {Top(S)}], deps[Top(S)])
      <3>1. f[S] = IF S = {} THEN <<>> ELSE (IF deps[Top(S)] \in DOMAIN plan THEN Append(f[S \ {Top(S)}], plan[deps[Top(S)]].text.slug) ELSE f[S \ {Top(S)}])
        BY <2>2
      <3> QED BY <1>0, <3>1
    <2>4. f = [S \in SUBSET (1..n) |-> f[S]]
      BY <2>2
    <2>5. f = [S \in SUBSET (1..n) |->
                 IF S = {} THEN <<>> ELSE StepOf("slug", plan, f[S \ {Top(S)}], deps[Top(S)])]
      BY <2>3, <2>4
    <2> QED BY <2>5 DEF ListFold
  <1>5. \E g : ListRun(g, n, <<>>, deps, "slug", plan) /\ f[1..n] = g[n]
    BY <1>4, ListRuns
  <1> QED
    BY <1>1, <1>5

-----------------------------------------------------------------------------
(* Lists. *)
LEMMA EmptyList == IsList(<<>>) /\ Elements(<<>>) = {}
  BY DEF IsList, Elements

LEMMA TypedList ==
    ASSUME NEW Y, NEW s \in Seq(Y)
    PROVE  IsList(s) /\ Elements(s) \subseteq Y /\ Len(s) \in Nat /\ DOMAIN s = 1..Len(s)
  BY DEF IsList, Elements

LEMMA ListLength ==
    ASSUME NEW s, IsList(s)
    PROVE  Len(s) \in Nat /\ DOMAIN s = 1..Len(s) /\ \A x \in Elements(s) : \E i \in 1..Len(s) : s[i] = x
  BY DEF IsList, Elements

LEMMA Appended ==
    ASSUME NEW s, IsList(s), NEW x
    PROVE  IsList(Append(s, x)) /\ Elements(Append(s, x)) = Elements(s) \cup {x}
  <1> DEFINE E == Elements(s) t == Append(s, x)
  <1>1. s \in Seq(E \cup {x})
    BY DEF IsList
  <1>2. t \in Seq(E \cup {x}) /\ Len(t) = Len(s) + 1 /\ Len(s) \in Nat
    BY <1>1
  <1>3. /\ \A i \in 1..Len(s) : t[i] = s[i]
        /\ t[Len(s) + 1] = x /\ DOMAIN t = 1..(Len(s) + 1) /\ DOMAIN s = 1..Len(s)
    BY <1>1
  <1>4. E = {s[i] : i \in 1..Len(s)}
    BY <1>3 DEF Elements
  <1> HIDE DEF t, E
  <1>5. Elements(t) = E \cup {x}
    <2>1. ASSUME NEW i \in 1..(Len(s) + 1) PROVE t[i] \in E \cup {x}
      <3>1. i \in 1..Len(s) \/ i = Len(s) + 1
        BY <1>2
      <3> QED BY <1>3, <1>4, <3>1
    <2>2. ASSUME NEW i \in 1..Len(s) PROVE \E j \in 1..(Len(s) + 1) : t[j] = s[i]
      <3>1. i \in 1..(Len(s) + 1)
        BY <1>2
      <3> QED BY <1>3, <3>1
    <2>3. Len(s) + 1 \in 1..(Len(s) + 1)
      BY <1>2
    <2>4. Elements(t) = {t[i] : i \in 1..(Len(s) + 1)}
      BY <1>3 DEF Elements
    <2>5. Elements(t) \subseteq E \cup {x}
      BY <2>1, <2>4
    <2>6. E \subseteq Elements(t)
      <3>1. \A i \in 1..Len(s) : s[i] \in Elements(t)
        BY <2>2, <2>4
      <3> QED BY <1>4, <3>1
    <2>7. x \in Elements(t)
      BY <1>3, <2>3, <2>4
    <2> QED BY <2>5, <2>6, <2>7
  <1>6. IsList(t)
    BY <1>2, <1>5 DEF IsList
  <1> QED
    BY <1>5, <1>6 DEF t, E

LEMMA Chained ==
    ASSUME NEW r, IsList(r), NEW s, IsList(s)
    PROVE  IsList(r \o s) /\ Elements(r \o s) = Elements(r) \cup Elements(s)
  <1> DEFINE A == Elements(r) B == Elements(s) t == r \o s
  <1>1. r \in Seq(A \cup B) /\ s \in Seq(A \cup B)
    BY DEF IsList
  <1>2. /\ t \in Seq(A \cup B) /\ Len(t) = Len(r) + Len(s) /\ Len(r) \in Nat /\ Len(s) \in Nat
        /\ DOMAIN t = 1..(Len(r) + Len(s)) /\ DOMAIN r = 1..Len(r) /\ DOMAIN s = 1..Len(s)
    BY <1>1
  <1>3. /\ \A i \in 1..Len(r) : t[i] = r[i]
        /\ \A i \in 1..Len(s) : t[Len(r) + i] = s[i]
    BY <1>1
  <1>4. A = {r[i] : i \in 1..Len(r)} /\ B = {s[i] : i \in 1..Len(s)}
    BY <1>2 DEF Elements
  <1> HIDE DEF t, A, B
  <1>5. Elements(t) = A \cup B
    <2>1. Elements(t) \subseteq A \cup B
      BY <1>2, TypedList
    <2>2. ASSUME NEW i \in 1..Len(r) PROVE r[i] \in Elements(t)
      <3>1. i \in DOMAIN t /\ t[i] = r[i]
        BY <1>2, <1>3
      <3> QED BY <3>1 DEF Elements
    <2>3. ASSUME NEW i \in 1..Len(s) PROVE s[i] \in Elements(t)
      <3>1. Len(r) + i \in DOMAIN t /\ t[Len(r) + i] = s[i]
        BY <1>2, <1>3
      <3> QED BY <3>1 DEF Elements
    <2> QED BY <1>4, <2>1, <2>2, <2>3
  <1>6. IsList(t)
    BY <1>2, <1>5 DEF IsList
  <1> QED
    BY <1>5, <1>6 DEF t, A, B

-----------------------------------------------------------------------------
(* The criteria of a specification. *)
Read(lines) == IsList(lines) /\ \A i \in DOMAIN lines : IsLine(lines[i])
Titles(lines) == {""} \cup {l.text.name : l \in {k \in Elements(lines) : k.kind = "head"}}
Texts(lines) == {l.text : l \in Elements(lines)}
CriteriaFrom(lines) == [text : Texts(lines), section : Titles(lines), l2 : Titles(lines)]
Readings(lines) == [section : Titles(lines), l2 : Titles(lines), inAC : BOOLEAN, inTable : BOOLEAN,
                    found : Seq(CriteriaFrom(lines))]

LEMMA WithCriterionKeeps ==
    ASSUME NEW lines, NEW st \in Readings(lines), NEW l \in Elements(lines)
    PROVE  WithCriterion(st, l) \in Readings(lines)
  <1> DEFINE c == Criterion(st, l) Y == CriteriaFrom(lines)
  <1>1. c \in Y
    BY DEF Criterion, CriteriaFrom, Readings, Texts
  <1>2. st.found \in Seq(Y)
    BY DEF Readings
  <1> HIDE DEF c, Y
  <1>3. Append(st.found, c) \in Seq(Y)
    BY <1>1, <1>2
  <1> QED
    BY <1>3 DEF WithCriterion, Readings, c, Y

LEMMA SpecLineKeeps ==
    ASSUME NEW lines, NEW st \in Readings(lines), NEW l \in Elements(lines), IsLine(l)
    PROVE  SpecLine(st, l) \in Readings(lines)
  <1>1. CASE l.kind = "head"
    <2>1. l.text.name \in Titles(lines) /\ l.criteria \in BOOLEAN
      BY <1>1 DEF Titles, IsLine
    <2>2. SpecLine(st, l) = [st EXCEPT !.section = l.text.name, !.inAC = l.criteria, !.inTable = FALSE,
                                       !.l2 = IF l.level = 2 THEN l.text.name ELSE st.l2]
      BY <1>1 DEF SpecLine
    <2> DEFINE title == l.text.name ac == l.criteria l2 == IF l.level = 2 THEN title ELSE st.l2
    <2>3. title \in Titles(lines) /\ ac \in BOOLEAN /\ l2 \in Titles(lines)
      BY <2>1 DEF Readings
    <2> HIDE DEF title, ac, l2
    <2>4. [st EXCEPT !.section = title, !.inAC = ac, !.inTable = FALSE, !.l2 = l2] \in Readings(lines)
      BY <2>3 DEF Readings
    <2> QED BY <2>2, <2>4 DEF title, ac, l2
  <1>2. CASE l.kind = "box"
    BY <1>2, WithCriterionKeeps DEF SpecLine
  <1>3. CASE l.kind # "head" /\ l.kind # "box" /\ ~st.inAC
    BY <1>3 DEF SpecLine
  <1>4. CASE l.kind = "separator" /\ st.inAC
    BY <1>4 DEF SpecLine, Readings
  <1>5. CASE l.kind = "row" /\ st.inAC
    <2>1. SpecLine(st, l) = IF st.inTable THEN WithCriterion(st, l) ELSE st
      BY <1>5 DEF SpecLine
    <2> QED BY <2>1, WithCriterionKeeps
  <1>6. CASE l.kind = "prose" /\ st.inAC
    BY <1>6 DEF SpecLine, Readings
  <1>7. CASE l.kind \in {"numbered", "bold"} /\ st.inAC
    <2>1. SpecLine(st, l) = WithCriterion([st EXCEPT !.inTable = FALSE], l)
      BY <1>7 DEF SpecLine
    <2>2. [st EXCEPT !.inTable = FALSE] \in Readings(lines)
      BY DEF Readings
    <2> QED BY <2>1, <2>2, WithCriterionKeeps
  <1> QED
    BY <1>1, <1>2, <1>3, <1>4, <1>5, <1>6, <1>7 DEF IsLine, LineKinds

LEMMA CriteriaAre ==
    ASSUME NEW lines, Read(lines) PROVE Criteria(lines) \in Seq(CriteriaFrom(lines))
  <1> DEFINE n == Len(lines)
  <1>1. n \in Nat /\ DOMAIN lines = 1..n
    BY ListLength DEF Read
  <1>2. PICK g : ListRun(g, n, NothingFound, lines, "line", 0) /\ Criteria(lines) = g[n].found
    BY <1>1, CriteriaRuns
  <1> DEFINE T == {m \in 0..n : g[m] \in Readings(lines)}
  <1>3. 0 \in T
    <2>1. <<>> \in Seq(CriteriaFrom(lines)) /\ "" \in Titles(lines)
      BY DEF Titles
    <2>2. NothingFound \in Readings(lines)
      BY <2>1 DEF NothingFound, Readings
    <2> QED BY <1>1, <1>2, <2>2 DEF ListRun
  <1>4. ASSUME NEW m \in 1..n, m - 1 \in T PROVE m \in T
    <2>1. g[m] = SpecLine(g[m - 1], lines[m])
      BY <1>2, LineStep DEF ListRun
    <2>2. lines[m] \in Elements(lines) /\ IsLine(lines[m])
      BY <1>1 DEF Elements, Read
    <2>3. g[m - 1] \in Readings(lines)
      BY <1>4
    <2>4. SpecLine(g[m - 1], lines[m]) \in Readings(lines)
      BY <2>2, <2>3, SpecLineKeeps
    <2> QED BY <1>1, <2>1, <2>4
  <1> HIDE DEF T, n
  <1>5. n \in T
    BY <1>1, <1>3, <1>4, UpTo
  <1> QED
    BY <1>2, <1>5 DEF T, Readings

-----------------------------------------------------------------------------
(* The sections of the criteria, and the criteria of a section. *)
LEMMA SectionsAre ==
    ASSUME NEW cs, IsList(cs)
    PROVE  /\ IsList(CriteriaSections(cs))
           /\ Elements(CriteriaSections(cs)) = {c.l2 : c \in Elements(cs)}
  <1> DEFINE n == Len(cs)
             good(r, m) == IsList(r) /\ Elements(r) = {cs[k].l2 : k \in 1..m}
  <1>1. n \in Nat /\ DOMAIN cs = 1..n
    BY ListLength
  <1>2. PICK g : ListRun(g, n, <<>>, cs, "section", 0) /\ CriteriaSections(cs) = g[n]
    BY <1>1, SectionsRuns
  <1> DEFINE T == {m \in 0..n : good(g[m], m)}
  <1>3. 0 \in T
    <2>1. 1..0 = {}
      OBVIOUS
    <2>2. good(<<>>, 0)
      BY <2>1, EmptyList
    <2> QED BY <1>1, <1>2, <2>2 DEF ListRun
  <1>4. ASSUME NEW m \in 1..n, m - 1 \in T PROVE m \in T
    <2> DEFINE r == g[m - 1] x == cs[m].l2
    <2>1. g[m] = IF x \in Elements(r) THEN r ELSE Append(r, x)
      BY <1>2, SectionStep DEF ListRun
    <2>2. IsList(r) /\ Elements(r) = {cs[k].l2 : k \in 1..(m - 1)}
      BY <1>4
    <2>3. 1..m = 1..(m - 1) \cup {m}
      OBVIOUS
    <2>4. {cs[k].l2 : k \in 1..m} = {cs[k].l2 : k \in 1..(m - 1)} \cup {x}
      BY <2>3
    <2> HIDE DEF r, x
    <2>5. IsList(g[m]) /\ Elements(g[m]) = Elements(r) \cup {x}
      BY <2>1, <2>2, Appended
    <2>6. good(g[m], m)
      BY <2>2, <2>4, <2>5
    <2> HIDE DEF good
    <2> QED BY <1>1, <2>6
  <1> HIDE DEF T
  <1>5. n \in T
    BY <1>1, <1>3, <1>4, UpTo
  <1>6. good(g[n], n)
    BY <1>5 DEF T
  <1>7. {cs[k].l2 : k \in 1..n} = {c.l2 : c \in Elements(cs)}
    BY <1>1 DEF Elements
  <1> QED
    BY <1>2, <1>6, <1>7

LEMMA UnderIs ==
    ASSUME NEW cs, IsList(cs), NEW section
    PROVE  /\ IsList(Under(cs, section))
           /\ Elements(Under(cs, section)) = {c \in Elements(cs) : c.l2 = section}
  <1> DEFINE n == Len(cs)
             of(m) == {c \in {cs[k] : k \in 1..m} : c.l2 = section}
             good(r, m) == IsList(r) /\ Elements(r) = of(m)
  <1>1. n \in Nat /\ DOMAIN cs = 1..n
    BY ListLength
  <1>2. PICK g : ListRun(g, n, <<>>, cs, "under", section) /\ Under(cs, section) = g[n]
    BY <1>1, UnderRuns
  <1> DEFINE T == {m \in 0..n : good(g[m], m)}
  <1>3. 0 \in T
    <2>1. 1..0 = {}
      OBVIOUS
    <2>2. good(<<>>, 0)
      BY <2>1, EmptyList
    <2> QED BY <1>1, <1>2, <2>2 DEF ListRun
  <1>4. ASSUME NEW m \in 1..n, m - 1 \in T PROVE m \in T
    <2> DEFINE r == g[m - 1] x == cs[m]
    <2>1. g[m] = IF x.l2 = section THEN Append(r, x) ELSE r
      <3>1. g[m] = StepOf("under", section, r, x)
        BY <1>2 DEF ListRun
      <3> HIDE DEF r, x
      <3>2. StepOf("under", section, r, x) = IF x.l2 = section THEN Append(r, x) ELSE r
        BY UnderStep
      <3> QED BY <3>1, <3>2
    <2>2. IsList(r) /\ Elements(r) = of(m - 1)
      BY <1>4
    <2>3. 1..m = 1..(m - 1) \cup {m}
      OBVIOUS
    <2>4. of(m) = of(m - 1) \cup {c \in {x} : c.l2 = section}
      BY <2>3
    <2> HIDE DEF r, x, of
    <2>5. CASE x.l2 = section
      <3>1. g[m] = Append(r, x) /\ {c \in {x} : c.l2 = section} = {x}
        BY <2>1, <2>5
      <3>2. IsList(g[m]) /\ Elements(g[m]) = Elements(r) \cup {x}
        BY <2>2, <3>1, Appended
      <3>3. good(g[m], m)
        BY <2>2, <2>4, <3>1, <3>2
      <3> HIDE DEF good
      <3> QED BY <1>1, <3>3
    <2>6. CASE x.l2 # section
      <3>1. g[m] = r /\ {c \in {x} : c.l2 = section} = {}
        BY <2>1, <2>6
      <3>2. good(g[m], m)
        BY <2>2, <2>4, <3>1
      <3> HIDE DEF good
      <3> QED BY <1>1, <3>2
    <2> QED BY <2>5, <2>6
  <1> HIDE DEF T
  <1>5. n \in T
    BY <1>1, <1>3, <1>4, UpTo
  <1>6. good(g[n], n)
    BY <1>5 DEF T
  <1>7. of(n) = {c \in Elements(cs) : c.l2 = section}
    BY <1>1 DEF Elements
  <1> HIDE DEF of
  <1> QED
    BY <1>2, <1>6, <1>7

-----------------------------------------------------------------------------
(* Proposals from the criteria: a task waits for nothing, or it is the     *)
(* tests of the one it waits for.                                          *)
GoodTask(t) == /\ IsSlug(t.slug)
               /\ \/ t.deps = <<>>
                  \/ \E s : IsSlug(s) /\ t.deps = <<s>> /\ t.slug = Tests(s)
GoodTasks(p) == IsList(p) /\ \A t \in Elements(p) : GoodTask(t) /\ Elements(t.deps) \subseteq TaskSlugs(p)
Handles(p, c) == \E t \in Elements(p) : c.text.name \in t.covers

LEMMA OneTask == \A t : IsList(<<t>>) /\ Elements(<<t>>) = {t}
  BY DEF IsList, Elements

LEMMA TestsAre == \A s : IsSlug(s) => IsSlug(Tests(s))
  BY DEF IsSlug, Tests

LEMMA PairIs ==
    ASSUME NEW task, NEW texts, NEW paired
    PROVE  \/ PairedTests(task, texts, paired) = <<>>
           \/ \E t : /\ PairedTests(task, texts, paired) = <<t>>
                     /\ t.slug = Tests(task.slug) /\ t.deps = <<task.slug>>
  <1> DEFINE t == Covering(Tests(task.slug), [task.text EXCEPT !.testword = TRUE, !.short = FALSE],
                           texts, <<task.slug>>)
  <1>1. t.slug = Tests(task.slug) /\ t.deps = <<task.slug>>
    BY DEF Covering
  <1>2. PairedTests(task, texts, paired) = <<>> \/ PairedTests(task, texts, paired) = <<t>>
    BY DEF PairedTests
  <1> HIDE DEF t
  <1> QED
    BY <1>1, <1>2

LEMMA TasksForIs ==
    ASSUME NEW slug, IsSlug(slug), NEW text, NEW texts, NEW paired
    PROVE  /\ GoodTasks(TasksFor(slug, text, texts, paired))
           /\ \E t \in Elements(TasksFor(slug, text, texts, paired)) : \A x \in texts : x.name \in t.covers
  <1> DEFINE p == TasksFor(slug, text, texts, paired)
             task == Covering(IF AreTests(texts) THEN Tests(slug) ELSE slug, text, texts, <<>>)
             more == PairedTests(task, texts, paired)
  <1>1. /\ task.slug = (IF AreTests(texts) THEN Tests(slug) ELSE slug) /\ task.deps = <<>>
        /\ \A x \in texts : x.name \in task.covers
    BY DEF Covering
  <1>2. p = IF AreTests(texts) THEN <<task>> ELSE <<task>> \o more
    BY DEF TasksFor
  <1>3. more = <<>> \/ \E t : more = <<t>> /\ t.slug = Tests(task.slug) /\ t.deps = <<task.slug>>
    BY PairIs
  <1>4. task \in Elements(p) /\ GoodTasks(p)
    <2> HIDE DEF p, task, more
    <2>1. GoodTask(task) /\ IsSlug(task.slug) /\ Elements(task.deps) = {}
      BY <1>1, TestsAre, EmptyList DEF GoodTask
    <2>2. IsList(<<task>>) /\ Elements(<<task>>) = {task}
      BY OneTask
    <2>3. CASE p = <<task>>
      BY <2>1, <2>2, <2>3 DEF GoodTasks
    <2>4. ASSUME NEW t, more = <<t>>, t.slug = Tests(task.slug), t.deps = <<task.slug>>, p = <<task>> \o more
          PROVE  task \in Elements(p) /\ GoodTasks(p)
      <3>1. IsList(<<t>>) /\ Elements(<<t>>) = {t} /\ Elements(t.deps) = {task.slug}
        BY <2>4, OneTask
      <3>2. IsList(p) /\ Elements(p) = {task, t}
        BY <2>2, <2>4, <3>1, Chained
      <3>3. GoodTask(t)
        BY <2>1, <2>4, TestsAre DEF GoodTask
      <3>4. task.slug \in TaskSlugs(p)
        BY <3>2 DEF TaskSlugs
      <3> QED BY <2>1, <3>1, <3>2, <3>3, <3>4 DEF GoodTasks
    <2>5. CASE p = <<task>> \o more /\ more = <<>>
      <3>1. IsList(p) /\ Elements(p) = {task}
        BY <2>2, <2>5, EmptyList, Chained
      <3> QED BY <2>1, <3>1 DEF GoodTasks
    <2> QED BY <1>2, <1>3, <2>3, <2>4, <2>5
  <1> HIDE DEF p, task
  <1> QED
    BY <1>1, <1>4 DEF p

LEMMA MoreTasks ==
    ASSUME NEW p, GoodTasks(p), NEW q, GoodTasks(q)
    PROVE  GoodTasks(p \o q) /\ \A c : Handles(p, c) \/ Handles(q, c) => Handles(p \o q, c)
  <1>1. IsList(p \o q) /\ Elements(p \o q) = Elements(p) \cup Elements(q)
    BY Chained DEF GoodTasks
  <1>2. TaskSlugs(p) \subseteq TaskSlugs(p \o q) /\ TaskSlugs(q) \subseteq TaskSlugs(p \o q)
    BY <1>1 DEF TaskSlugs
  <1>3. \A t \in Elements(p) \cup Elements(q) : GoodTask(t) /\ Elements(t.deps) \subseteq TaskSlugs(p \o q)
    BY <1>2 DEF GoodTasks
  <1> QED
    BY <1>1, <1>3 DEF GoodTasks, Handles

LEMMA OwnTasks ==
    ASSUME NEW cs, IsList(cs), \A c \in Elements(cs) : IsSlug(c.text.slug), NEW paired
    PROVE  GoodTasks(EachItsOwn(cs, paired)) /\ \A c \in Elements(cs) : Handles(EachItsOwn(cs, paired), c)
  <1> DEFINE n == Len(cs)
             good(r, m) == GoodTasks(r) /\ \A k \in 1..m : Handles(r, cs[k])
  <1>1. n \in Nat /\ DOMAIN cs = 1..n
    BY ListLength
  <1>2. PICK g : ListRun(g, n, <<>>, cs, "own", paired) /\ EachItsOwn(cs, paired) = g[n]
    BY <1>1, OwnRuns
  <1> DEFINE T == {m \in 0..n : good(g[m], m)}
  <1>3. 0 \in T
    <2>1. 1..0 = {}
      OBVIOUS
    <2>2. good(<<>>, 0)
      BY <2>1, EmptyList DEF GoodTasks
    <2> QED BY <1>1, <1>2, <2>2 DEF ListRun
  <1>4. ASSUME NEW m \in 1..n, m - 1 \in T PROVE m \in T
    <2> DEFINE r == g[m - 1] c == cs[m] own == TasksFor(c.text.slug, c.text, {c.text}, paired)
    <2>1. g[m] = r \o own
      <3>1. g[m] = StepOf("own", paired, r, c)
        BY <1>2 DEF ListRun
      <3> QED BY <3>1, OwnStep
    <2>2. GoodTasks(r) /\ \A k \in 1..(m - 1) : Handles(r, cs[k])
      BY <1>4
    <2>3. c \in Elements(cs) /\ IsSlug(c.text.slug)
      BY <1>1 DEF Elements
    <2>4. GoodTasks(own) /\ \E t \in Elements(own) : \A x \in {c.text} : x.name \in t.covers
      BY <2>3, TasksForIs
    <2>5. Handles(own, c)
      BY <2>4 DEF Handles
    <2>6. \A k \in 1..m : k \in 1..(m - 1) \/ k = m
      OBVIOUS
    <2> HIDE DEF r, own
    <2>7. GoodTasks(r \o own) /\ \A k \in 1..m : Handles(r \o own, cs[k])
      BY <2>2, <2>4, <2>5, <2>6, MoreTasks
    <2>8. good(g[m], m)
      BY <2>1, <2>7
    <2> HIDE DEF good
    <2> QED BY <1>1, <2>8
  <1> HIDE DEF T
  <1>5. n \in T
    BY <1>1, <1>3, <1>4, UpTo
  <1>6. good(g[n], n)
    BY <1>5 DEF T
  <1> QED
    BY <1>1, <1>2, <1>6 DEF Elements

LEMMA TitlesHaveSlugs ==
    ASSUME NEW lines, Read(lines), NEW section \in Titles(lines)
    PROVE  IsSlug(Titled(lines, section).slug)
  <1>1. CASE section = ""
    BY <1>1 DEF Titled, IsSlug
  <1>2. CASE section # ""
    <2> DEFINE l == CHOOSE l \in Elements(lines) : l.kind = "head" /\ l.text.name = section
    <2>1. \E k \in Elements(lines) : k.kind = "head" /\ k.text.name = section
      BY <1>2 DEF Titles
    <2>2. l \in Elements(lines)
      BY <2>1
    <2>3. Titled(lines, section) = l.text
      BY <1>2 DEF Titled
    <2> HIDE DEF l
    <2>4. IsLine(l)
      BY <2>2 DEF Read, Elements
    <2> QED BY <2>3, <2>4 DEF IsLine
  <1> QED
    BY <1>1, <1>2

LEMMA CriteriaHaveSlugs ==
    ASSUME NEW lines, Read(lines)
    PROVE  /\ IsList(Criteria(lines))
           /\ \A c \in Elements(Criteria(lines)) : IsSlug(c.text.slug) /\ c.l2 \in Titles(lines)
  <1>1. IsList(Criteria(lines)) /\ Elements(Criteria(lines)) \subseteq CriteriaFrom(lines)
    BY CriteriaAre, TypedList
  <1>2. ASSUME NEW c \in CriteriaFrom(lines) PROVE IsSlug(c.text.slug) /\ c.l2 \in Titles(lines)
    <2>1. c.text \in Texts(lines) /\ c.l2 \in Titles(lines)
      BY DEF CriteriaFrom
    <2>2. PICK l \in Elements(lines) : c.text = l.text
      BY <2>1 DEF Texts
    <2>3. IsLine(l)
      BY <2>2 DEF Read, Elements
    <2> QED BY <2>1, <2>2, <2>3 DEF IsLine
  <1> QED
    BY <1>1, <1>2

LEMMA SectionTasksAre ==
    ASSUME NEW lines, Read(lines), NEW section \in Titles(lines), NEW paired
    PROVE  /\ GoodTasks(SectionTasks(lines, section, paired))
           /\ \A c \in Elements(Criteria(lines)) :
                 c.l2 = section => Handles(SectionTasks(lines, section, paired), c)
  <1> DEFINE all == Criteria(lines) cs == Under(all, section) p == SectionTasks(lines, section, paired)
  <1>1. IsList(all) /\ \A c \in Elements(all) : IsSlug(c.text.slug)
    BY CriteriaHaveSlugs
  <1> HIDE DEF all
  <1>2. IsList(cs) /\ Elements(cs) = {c \in Elements(all) : c.l2 = section}
    BY <1>1, UnderIs
  <1> HIDE DEF cs
  <1>3. ASSUME Len(cs) \in 2..4 PROVE GoodTasks(p) /\ \A c \in Elements(cs) : Handles(p, c)
    <2> DEFINE title == Titled(lines, section) texts == {c.text : c \in Elements(cs)}
               one == TasksFor(title.slug, [title EXCEPT !.short = FALSE], texts, paired)
    <2>1. p = one
      BY <1>3 DEF SectionTasks, cs, all
    <2>2. IsSlug(title.slug)
      BY TitlesHaveSlugs
    <2> HIDE DEF title, texts
    <2>3. GoodTasks(one) /\ \E t \in Elements(one) : \A x \in texts : x.name \in t.covers
      BY <2>2, TasksForIs
    <2> HIDE DEF one
    <2>4. \A c \in Elements(cs) : c.text \in texts
      BY DEF texts
    <2>5. \A c \in Elements(cs) : Handles(one, c)
      BY <2>3, <2>4 DEF Handles
    <2> HIDE DEF p
    <2> QED BY <2>1, <2>3, <2>5
  <1>4. ASSUME Len(cs) \notin 2..4 PROVE GoodTasks(p) /\ \A c \in Elements(cs) : Handles(p, c)
    <2>1. p = EachItsOwn(cs, paired)
      BY <1>4 DEF SectionTasks, cs, all
    <2>2. \A c \in Elements(cs) : IsSlug(c.text.slug)
      BY <1>1, <1>2
    <2> HIDE DEF p
    <2> QED BY <1>2, <2>1, <2>2, OwnTasks
  <1> HIDE DEF p
  <1>5. GoodTasks(p) /\ \A c \in Elements(cs) : Handles(p, c)
    BY <1>3, <1>4
  <1> QED
    BY <1>2, <1>5 DEF p, all

LEMMA FromCriteriaIs ==
    ASSUME NEW lines, Read(lines), NEW paired
    PROVE  /\ GoodTasks(FromCriteria(lines, paired))
           /\ \A c \in Elements(Criteria(lines)) : Handles(FromCriteria(lines, paired), c)
  <1> DEFINE cs == Criteria(lines) secs == CriteriaSections(cs) n == Len(secs)
             good(r, m) == /\ GoodTasks(r)
                           /\ \A k \in 1..m : \A c \in Elements(cs) : c.l2 = secs[k] => Handles(r, c)
  <1>0. \A r, x : StepOf("all", <<lines, paired>>, r, x) = r \o SectionTasks(lines, x, paired)
    BY AllStep
  <1>1. IsList(cs) /\ \A c \in Elements(cs) : c.l2 \in Titles(lines)
    BY CriteriaHaveSlugs
  <1>2. IsList(secs) /\ Elements(secs) = {c.l2 : c \in Elements(cs)}
    BY <1>1, SectionsAre
  <1>3. n \in Nat /\ DOMAIN secs = 1..n
    BY <1>2, ListLength
  <1>4. PICK g : ListRun(g, n, <<>>, secs, "all", <<lines, paired>>) /\ FromCriteria(lines, paired) = g[n]
    BY <1>3, ProposalRuns
  <1> HIDE DEF cs, secs, n
  <1> DEFINE T == {m \in 0..n : good(g[m], m)}
  <1>5. 0 \in T
    <2>1. 1..0 = {} /\ g[0] = <<>>
      BY <1>4 DEF ListRun
    <2>2. good(<<>>, 0)
      BY <2>1, EmptyList DEF GoodTasks
    <2> HIDE DEF good
    <2> QED BY <1>3, <2>1, <2>2
  <1>6. ASSUME NEW m \in 1..n, m - 1 \in T PROVE m \in T
    <2> DEFINE r == g[m - 1] s == secs[m] more == SectionTasks(lines, s, paired)
    <2>1. g[m] = r \o more
      <3>1. g[m] = StepOf("all", <<lines, paired>>, r, s)
        BY <1>4 DEF ListRun
      <3> HIDE DEF r, s
      <3>2. StepOf("all", <<lines, paired>>, r, s) = r \o SectionTasks(lines, s, paired)
        BY <1>0
      <3> QED BY <3>1, <3>2
    <2>2. GoodTasks(r) /\ \A k \in 1..(m - 1) : \A c \in Elements(cs) : c.l2 = secs[k] => Handles(r, c)
      BY <1>6
    <2>3. s \in Titles(lines)
      <3>1. s \in Elements(secs)
        BY <1>3 DEF Elements
      <3> HIDE DEF s
      <3> QED BY <1>1, <1>2, <3>1
    <2>4. GoodTasks(more) /\ \A c \in Elements(cs) : c.l2 = s => Handles(more, c)
      BY <2>3, SectionTasksAre DEF cs
    <2>5. \A k \in 1..m : k \in 1..(m - 1) \/ secs[k] = s
      OBVIOUS
    <2> HIDE DEF r, more, s
    <2>6. /\ GoodTasks(r \o more)
          /\ \A k \in 1..m : \A c \in Elements(cs) : c.l2 = secs[k] => Handles(r \o more, c)
      BY <2>2, <2>4, <2>5, MoreTasks
    <2>7. good(g[m], m)
      BY <2>1, <2>6
    <2> HIDE DEF good
    <2> QED BY <1>3, <2>7
  <1> HIDE DEF T
  <1>7. n \in T
    BY <1>3, <1>5, <1>6, UpTo
  <1>8. good(g[n], n)
    BY <1>7 DEF T
  <1>9. ASSUME NEW c \in Elements(cs) PROVE Handles(g[n], c)
    <2>1. \E k \in 1..n : c.l2 = secs[k]
      BY <1>2, <1>3 DEF Elements
    <2> QED BY <1>8, <2>1
  <1> QED
    BY <1>4, <1>8, <1>9 DEF cs

-----------------------------------------------------------------------------
(* Proposals from the dev-plan. *)
Once(s) == \A j, k \in DOMAIN s : s[j] = s[k] => j = k
SlugsOnce(p) == \A j, k \in DOMAIN p : p[j].slug = p[k].slug => j = k

LEMMA AppendedNew ==
    ASSUME NEW s, IsList(s), Once(s), NEW x, x \notin Elements(s)
    PROVE  Once(Append(s, x))
  <1> DEFINE t == Append(s, x)
  <1>1. s \in Seq(Elements(s) \cup {x})
    BY DEF IsList
  <1>2. /\ Len(s) \in Nat /\ DOMAIN t = 1..(Len(s) + 1) /\ DOMAIN s = 1..Len(s)
        /\ \A i \in 1..Len(s) : t[i] = s[i]
        /\ t[Len(s) + 1] = x
    BY <1>1
  <1> HIDE DEF t
  <1>3. \A i \in 1..Len(s) : t[i] # x
    BY <1>2 DEF Elements
  <1>4. \A i \in DOMAIN t : i \in 1..Len(s) \/ i = Len(s) + 1
    BY <1>2
  <1>5. \A j, k \in 1..Len(s) : t[j] = t[k] => j = k
    BY <1>2 DEF Once
  <1>6. Once(t)
    BY <1>2, <1>3, <1>4, <1>5 DEF Once
  <1> QED
    BY <1>6 DEF t

LEMMA DepsAre ==
    ASSUME NEW plan, IsList(plan), NEW i \in DOMAIN plan, IsList(plan[i].deps), NEW d,
           d = DevPlanTasks(plan)[i].deps
    PROVE  /\ IsList(d) /\ Elements(d) \subseteq {plan[j].text.slug : j \in DOMAIN plan}
           /\ (\A j, k \in DOMAIN plan : plan[j].text.slug = plan[k].text.slug => j = k)
              /\ Once(plan[i].deps) => Once(d)
  <1> DEFINE deps == plan[i].deps n == Len(deps)
             apart == (\A j, k \in DOMAIN plan : plan[j].text.slug = plan[k].text.slug => j = k) /\ Once(deps)
             of(m) == {plan[deps[k]].text.slug : k \in {k \in 1..m : deps[k] \in DOMAIN plan}}
             good(r, m) == IsList(r) /\ Elements(r) = of(m) /\ (apart => Once(r))
  <1>1. n \in Nat /\ DOMAIN deps = 1..n
    BY ListLength
  <1>2. PICK g : ListRun(g, n, <<>>, deps, "slug", plan) /\ d = g[n]
    <2>1. d = SlugsOf(deps, plan)
      BY DEF DevPlanTasks
    <2> HIDE DEF deps, n
    <2> QED BY <1>1, <2>1, SlugsRuns
  <1> HIDE DEF deps, n
  <1> DEFINE T == {m \in 0..n : good(g[m], m)}
  <1>3. 0 \in T
    <2>1. 1..0 = {} /\ g[0] = <<>>
      BY <1>2 DEF ListRun
    <2>2. good(<<>>, 0)
      BY <2>1, EmptyList DEF Once
    <2> HIDE DEF good
    <2> QED BY <1>1, <2>1, <2>2
  <1>4. ASSUME NEW m \in 1..n, m - 1 \in T PROVE m \in T
    <2> DEFINE r == g[m - 1] x == deps[m] slug == plan[x].text.slug
    <2>1. g[m] = IF x \in DOMAIN plan THEN Append(r, slug) ELSE r
      <3>1. g[m] = StepOf("slug", plan, r, x)
        BY <1>2 DEF ListRun
      <3> HIDE DEF r, x
      <3>2. StepOf("slug", plan, r, x) = IF x \in DOMAIN plan THEN Append(r, plan[x].text.slug) ELSE r
        BY SlugStep
      <3> QED BY <3>1, <3>2
    <2>2. good(r, m - 1)
      BY <1>4
    <2>3. 1..m = 1..(m - 1) \cup {m} /\ 1..(m - 1) \subseteq 1..n /\ m \notin 1..(m - 1)
      BY <1>1
    <2>4. CASE x \in DOMAIN plan
      <3>1. of(m) = of(m - 1) \cup {slug}
        BY <2>3, <2>4
      <3>2. ASSUME apart PROVE slug \notin of(m - 1)
        <4>1. ASSUME NEW k \in 1..(m - 1), deps[k] \in DOMAIN plan, slug = plan[deps[k]].text.slug PROVE FALSE
          <5>1. deps[k] = deps[m]
            BY <2>4, <3>2, <4>1
          <5> QED BY <1>1, <2>3, <3>2, <5>1 DEF Once
        <4> QED BY <4>1
      <3>3. g[m] = Append(r, slug)
        BY <2>1, <2>4
      <3> HIDE DEF of, slug, r, apart
      <3>4. IsList(r) /\ Elements(r) = of(m - 1) /\ (apart => Once(r))
        BY <2>2
      <3>5. IsList(g[m]) /\ Elements(g[m]) = of(m)
        BY <3>1, <3>3, <3>4, Appended
      <3>6. apart => Once(g[m])
        BY <3>2, <3>3, <3>4, AppendedNew
      <3>7. good(g[m], m)
        BY <3>5, <3>6
      <3> HIDE DEF good
      <3> QED BY <1>1, <3>7
    <2>5. CASE x \notin DOMAIN plan
      <3>1. of(m) = of(m - 1)
        BY <2>3, <2>5
      <3>2. g[m] = r
        BY <2>1, <2>5
      <3> HIDE DEF of, apart, r
      <3>3. good(g[m], m)
        BY <2>2, <3>1, <3>2
      <3> HIDE DEF good
      <3> QED BY <1>1, <3>3
    <2> QED BY <2>4, <2>5
  <1> HIDE DEF T
  <1>5. n \in T
    BY <1>1, <1>3, <1>4, UpTo
  <1>6. good(g[n], n)
    BY <1>5 DEF T
  <1>7. of(n) \subseteq {plan[j].text.slug : j \in DOMAIN plan}
    OBVIOUS
  <1> HIDE DEF of
  <1> QED
    BY <1>2, <1>6, <1>7 DEF deps

(* What the review and the application of a proposal rest on: every        *)
(* dependency is one of its tasks, and none is named twice.                *)
Proper(p) == /\ IsList(p)
             /\ \A t \in Elements(p) : /\ IsList(t.deps) /\ Elements(t.deps) \subseteq TaskSlugs(p)
                                       /\ SlugsOnce(p) => Once(t.deps)

LEMMA GoodIsProper == ASSUME NEW p, GoodTasks(p) PROVE Proper(p)
  <1>1. ASSUME NEW t, GoodTask(t) PROVE IsList(t.deps) /\ Once(t.deps)
    <2>1. CASE t.deps = <<>>
      BY <2>1, EmptyList DEF Once
    <2>2. ASSUME NEW s, t.deps = <<s>> PROVE IsList(t.deps) /\ Once(t.deps)
      BY <2>2, OneTask DEF Once
    <2> QED BY <1>1, <2>1, <2>2 DEF GoodTask
  <1> QED
    BY <1>1 DEF GoodTasks, Proper

LEMMA DevPlanIsProper ==
    ASSUME NEW plan, IsList(plan), \A i \in DOMAIN plan : IsList(plan[i].deps), NamedOnce(plan)
    PROVE  Proper(DevPlanTasks(plan))
  <1> DEFINE p == DevPlanTasks(plan)
  <1>1. DOMAIN p = DOMAIN plan /\ \A i \in DOMAIN plan : p[i].slug = plan[i].text.slug
    BY DEF DevPlanTasks
  <1>2. IsList(p)
    <2>1. DOMAIN plan = 1..Len(plan) /\ Len(plan) \in Nat
      BY ListLength
    <2>2. p = [i \in 1..Len(plan) |-> p[i]]
      BY <2>1 DEF DevPlanTasks
    <2> HIDE DEF p
    <2>3. \A i \in 1..Len(plan) : p[i] \in Elements(p)
      BY <1>1, <2>1 DEF Elements
    <2> QED BY <2>1, <2>2, <2>3 DEF IsList
  <1> HIDE DEF p
  <1>3. TaskSlugs(p) = {plan[j].text.slug : j \in DOMAIN plan}
    BY <1>1 DEF TaskSlugs, Elements
  <1>4. ASSUME NEW i \in DOMAIN plan
        PROVE  /\ IsList(p[i].deps) /\ Elements(p[i].deps) \subseteq TaskSlugs(p)
               /\ SlugsOnce(p) => Once(p[i].deps)
    <2>1. Once(plan[i].deps)
      BY DEF NamedOnce, Once
    <2>2. /\ IsList(p[i].deps) /\ Elements(p[i].deps) \subseteq {plan[j].text.slug : j \in DOMAIN plan}
          /\ (\A j, k \in DOMAIN plan : plan[j].text.slug = plan[k].text.slug => j = k)
             /\ Once(plan[i].deps) => Once(p[i].deps)
      BY DepsAre DEF p
    <2> QED BY <1>1, <1>3, <2>1, <2>2 DEF SlugsOnce
  <1>5. \A t \in Elements(p) : \E i \in DOMAIN plan : t = p[i]
    BY <1>1 DEF Elements
  <1>6. Proper(p)
    BY <1>2, <1>4, <1>5 DEF Proper
  <1> QED
    BY <1>6 DEF p

-----------------------------------------------------------------------------
(* The review's graph. *)
LEMMA LastOf ==
    ASSUME NEW n \in Nat, NEW S \in SUBSET (1..n), S # {}
    PROVE  \E i \in S : \A j \in S : j <= i
  <1> DEFINE over == {k \in Nat : \A j \in S : j <= k}
  <1>1. over \in SUBSET Nat /\ over # {}
    <2>1. n \in over
      OBVIOUS
    <2> QED BY <2>1
  <1>2. PICK k \in over : \A m \in over : k <= m
    BY <1>1, LeastNumber
  <1>3. k \in S
    <2>1. CASE k \notin S
      <3>1. PICK j \in S : TRUE
        OBVIOUS
      <3>2. k - 1 \in over
        BY <1>2, <2>1, <3>1
      <3> QED BY <1>2, <3>2
    <2> QED BY <2>1
  <1> QED
    BY <1>2, <1>3

Pairs(p, s) == {i \in DOMAIN p : p[i].slug = s /\ s[2] > 0 /\ Len(p[i].deps) = 1}
Fold(p, i) == IF p[i].deps[1] \in TaskSlugs(p) THEN p[i].deps[1] ELSE p[i].slug

LEMMA CollapseIs ==
    ASSUME NEW p, IsList(p), NEW s \in TaskSlugs(p)
    PROVE  /\ Pairs(p, s) = {} => Collapse(p)[s] = s
           /\ Pairs(p, s) # {} => \E i \in Pairs(p, s) : Collapse(p)[s] = Fold(p, i)
  <1> DEFINE last == {i \in DOMAIN p : p[i].slug = s /\ p[i].slug[2] > 0 /\ Len(p[i].deps) = 1}
             top == CHOOSE i \in last : \A j \in last : j <= i
             impl == p[top].deps[1]
  <1>1. Collapse(p)[s] = IF last = {} THEN s ELSE IF impl \in TaskSlugs(p) THEN impl ELSE s
    BY DEF Collapse
  <1>2. last = Pairs(p, s)
    BY DEF Pairs
  <1>3. ASSUME last # {} PROVE top \in last
    <2>1. Len(p) \in Nat /\ DOMAIN p = 1..Len(p)
      BY ListLength
    <2>2. last \in SUBSET (1..Len(p))
      BY <2>1
    <2> HIDE DEF last
    <2>3. \E i \in last : \A j \in last : j <= i
      BY <1>3, <2>1, <2>2, LastOf
    <2> QED BY <2>3
  <1>4. top \in last => p[top].slug = s
    OBVIOUS
  <1> HIDE DEF last, top
  <1> QED
    BY <1>1, <1>2, <1>3, <1>4 DEF Fold

LEMMA EdgeIs ==
    ASSUME NEW p, NEW t \in Elements(p), NEW d \in Elements(t.deps), d \in TaskSlugs(p),
           NEW a, a = Collapse(p)[t.slug], NEW b, b = Collapse(p)[d], a # b
    PROVE  <<a, b>> \in CollapsedDeps(p)
  <1> DEFINE repr == Collapse(p) e == <<a, b>>
  <1>1. d \in UNION {Elements(u.deps) : u \in Elements(p)}
    OBVIOUS
  <1>2. e \in {<<repr[v.slug], IF x \in TaskSlugs(p) THEN repr[x] ELSE x>> :
                 v \in Elements(p), x \in UNION {Elements(u.deps) : u \in Elements(p)}}
    BY <1>1
  <1>3. e[1] # e[2] /\ e[1] = a /\ e[2] = b
    OBVIOUS
  <1>4. \E v \in Elements(p) : /\ repr[v.slug] = e[1]
                               /\ \E x \in Elements(v.deps) : x \in TaskSlugs(p) /\ repr[x] = e[2]
    BY <1>3
  <1> HIDE DEF e
  <1> QED
    BY <1>2, <1>3, <1>4 DEF CollapsedDeps, e

LEMMA EdgeFrom ==
    ASSUME NEW p, NEW e \in CollapsedDeps(p)
    PROVE  /\ e[1] # e[2]
           /\ \E t \in Elements(p) : \E d \in Elements(t.deps) :
                 d \in TaskSlugs(p) /\ e[1] = Collapse(p)[t.slug] /\ e[2] = Collapse(p)[d]
  BY DEF CollapsedDeps

-----------------------------------------------------------------------------
(* What is proposed from the criteria passes its review: a test counts as  *)
(* the task it waits for, so that an edge goes from a task to the one it   *)
(* tests, and a circle would have a task with the fewest "-tests".         *)
LEMMA TestsWaitForLess ==
    ASSUME NEW p, GoodTasks(p), NEW e \in CollapsedDeps(p)
    PROVE  IsSlug(e[1]) /\ IsSlug(e[2]) /\ e[1] = Tests(e[2])
  <1> DEFINE repr == Collapse(p)
  <1>0. PICK t \in Elements(p) : \E d \in Elements(t.deps) :
           d \in TaskSlugs(p) /\ e[1] = repr[t.slug] /\ e[2] = repr[d]
    BY EdgeFrom
  <1>1. PICK d \in Elements(t.deps) : d \in TaskSlugs(p) /\ e[1] = repr[t.slug] /\ e[2] = repr[d]
    BY <1>0
  <1>2. e[1] # e[2]
    BY EdgeFrom
  <1>3. t.slug \in TaskSlugs(p) /\ IsList(p)
    BY DEF TaskSlugs, GoodTasks
  <1>4. ASSUME NEW u \in Elements(p), Len(u.deps) = 1
        PROVE  IsSlug(u.deps[1]) /\ u.slug = Tests(u.deps[1]) /\ Elements(u.deps) = {u.deps[1]}
    <2>1. GoodTask(u)
      BY DEF GoodTasks
    <2>2. u.deps # <<>>
      <3>1. Len(<<>>) = 0 /\ 0 # 1
        OBVIOUS
      <3> QED BY <1>4, <3>1, Zenon
    <2>3. PICK s : IsSlug(s) /\ u.deps = <<s>> /\ u.slug = Tests(s)
      BY <2>1, <2>2 DEF GoodTask
    <2> QED BY <2>3, OneTask
  <1>5. ASSUME NEW i \in DOMAIN p PROVE p[i] \in Elements(p)
    BY DEF Elements
  <1>6. GoodTask(t)
    BY DEF GoodTasks
  <1>7. PICK s : IsSlug(s) /\ t.deps = <<s>> /\ t.slug = Tests(s)
    BY <1>1, <1>6, EmptyList DEF GoodTask
  <1>8. d = s
    BY <1>7, OneTask
  <1>9. e[1] = d
    <2>1. t.slug[2] > 0 /\ Len(t.deps) = 1
      BY <1>7 DEF IsSlug, Tests
    <2>2. Pairs(p, t.slug) # {}
      BY <2>1 DEF Pairs, Elements
    <2>3. PICK i \in Pairs(p, t.slug) : repr[t.slug] = Fold(p, i)
      BY <1>3, <2>2, CollapseIs
    <2>4. i \in DOMAIN p /\ Len(p[i].deps) = 1 /\ p[i].slug = t.slug
      BY <2>3 DEF Pairs
    <2> DEFINE x == p[i].deps[1]
    <2>5. IsSlug(x) /\ t.slug = Tests(x)
      BY <1>4, <1>5, <2>4
    <2>6. x = d
      BY <1>7, <1>8, <2>5 DEF IsSlug, Tests
    <2> QED BY <1>1, <2>3, <2>6 DEF Fold
  <1>10. e[2] = d \/ (IsSlug(e[2]) /\ d = Tests(e[2]))
    <2>1. CASE Pairs(p, d) = {}
      BY <1>1, <1>3, <2>1, CollapseIs
    <2>2. CASE Pairs(p, d) # {}
      <3>1. PICK i \in Pairs(p, d) : repr[d] = Fold(p, i)
        BY <1>1, <1>3, <2>2, CollapseIs
      <3>2. i \in DOMAIN p /\ Len(p[i].deps) = 1 /\ p[i].slug = d
        BY <3>1 DEF Pairs
      <3> DEFINE x == p[i].deps[1]
      <3>3. IsSlug(x) /\ d = Tests(x)
        BY <1>4, <1>5, <3>2
      <3>4. repr[d] = x \/ repr[d] = d
        BY <3>1, <3>2 DEF Fold
      <3> HIDE DEF x, repr
      <3> QED BY <1>1, <3>3, <3>4
    <2> QED BY <2>1, <2>2
  <1> QED
    BY <1>2, <1>7, <1>8, <1>9, <1>10

LEMMA GoodHasNoCycle == ASSUME NEW p, GoodTasks(p) PROVE ~CyclesFound(p)
  <1> DEFINE E == CollapsedDeps(p)
  <1>1. \A e \in E : IsSlug(e[1]) /\ IsSlug(e[2]) /\ e[1] = Tests(e[2])
    BY TestsWaitForLess
  <1> HIDE DEF E
  <1>2. ASSUME NEW C \in SUBSET {e[1] : e \in E}, C # {}, \A n \in C : \E e \in E : e[1] = n /\ e[2] \in C
        PROVE  FALSE
    <2> DEFINE N == {c[2] : c \in C}
    <2>1. ASSUME NEW c \in C PROVE c[2] \in Nat
      BY <1>1 DEF IsSlug
    <2>2. N \in SUBSET Nat /\ N # {}
      BY <1>2, <2>1
    <2>3. PICK k \in N : \A m \in N : k <= m
      BY <2>2, LeastNumber
    <2>4. PICK c \in C : k = c[2]
      BY <2>3
    <2>5. PICK e \in E : e[1] = c /\ e[2] \in C
      BY <1>2, <2>4
    <2>6. c[2] = e[2][2] + 1 /\ e[2][2] \in Nat
      BY <1>1, <2>5 DEF IsSlug, Tests
    <2>7. e[2][2] \in N
      BY <2>5
    <2> HIDE DEF N
    <2>8. k <= e[2][2] /\ k = e[2][2] + 1
      BY <2>3, <2>4, <2>6, <2>7
    <2> QED BY <2>6, <2>8
  <1> QED
    BY <1>2 DEF CyclesFound, HasCycle, E

LEMMA OwnProposal ==
    ASSUME NEW lines, Read(lines), NEW paired, NEW p, p = FromCriteria(lines, paired)
    PROVE  ReviewOf(lines, p) # "fail"
  <1>1. GoodTasks(p) /\ \A c \in Elements(Criteria(lines)) : Handles(p, c)
    BY FromCriteriaIs
  <1>2. ~CyclesFound(p)
    BY <1>1, GoodHasNoCycle
  <1>3. Gaps(lines, p) = {}
    BY <1>1 DEF Gaps, IsCovered, Handles
  <1> QED
    BY <1>2, <1>3 DEF ReviewOf

-----------------------------------------------------------------------------
(* The rows created from one reviewed proposal.  p is the proposal, kept   *)
(* the number of rows there were before; when the creation was cut short   *)
(* none of them has a dependency, else they have the ones p names.         *)
RowsOf(rs, number) == {j \in DOMAIN rs : rs[j].plan = number}
MadeFrom(rs, number, p, kept) ==
    /\ Proper(p) /\ ~CyclesFound(p) /\ kept \in Nat
    /\ \A j \in RowsOf(rs, number) : j - kept \in DOMAIN p /\ rs[j].slug = p[j - kept].slug
Linked(rs, number, p, kept) ==
    /\ \A k \in DOMAIN p : kept + k \in RowsOf(rs, number)
    /\ \A j \in RowsOf(rs, number) : rs[j].deps = {Resolve(p, kept, s) : s \in Elements(p[j - kept].deps)}
Block(rs, number, p, kept) ==
    /\ MadeFrom(rs, number, p, kept)
    /\ Linked(rs, number, p, kept) \/ \A j \in RowsOf(rs, number) : rs[j].deps = {}

Indexed(rs) == DOMAIN rs \subseteq Nat
SlugAt(p, kept, j) == p[j - kept].slug

LEMMA ResolveOnce ==
    ASSUME NEW p, Proper(p), SlugsOnce(p), NEW kept \in Nat, NEW s \in TaskSlugs(p)
    PROVE  \E k \in DOMAIN p : Resolve(p, kept, s) = kept + k /\ p[k].slug = s
  <1>1. DOMAIN p = 1..Len(p) /\ Len(p) \in Nat
    BY ListLength DEF Proper
  <1>2. PICK k \in DOMAIN p : p[k].slug = s
    BY DEF TaskSlugs, Elements
  <1>3. \A j \in DOMAIN p : p[j].slug = s => j = k
    BY <1>2 DEF SlugsOnce
  <1> DEFINE i == CHOOSE i \in DOMAIN p : p[i].slug = s /\ \A j \in DOMAIN p : p[j].slug = s => j <= i
  <1>4. i \in DOMAIN p /\ p[i].slug = s
    <2>1. \A j \in DOMAIN p : p[j].slug = s => j <= k
      BY <1>1, <1>3
    <2> QED BY <1>2, <2>1
  <1>5. Resolve(p, kept, s) = kept + i
    BY DEF Resolve
  <1> HIDE DEF i
  <1> QED
    BY <1>4, <1>5

LEMMA CollapseOnce ==
    ASSUME NEW p, Proper(p), SlugsOnce(p), NEW k \in DOMAIN p
    PROVE  Collapse(p)[p[k].slug] = IF p[k].slug[2] > 0 /\ Len(p[k].deps) = 1 THEN p[k].deps[1] ELSE p[k].slug
  <1> DEFINE s == p[k].slug
  <1>1. IsList(p) /\ s \in TaskSlugs(p)
    BY DEF Proper, TaskSlugs, Elements
  <1>2. \A i \in Pairs(p, s) : i = k
    BY DEF Pairs, SlugsOnce
  <1>3. CASE s[2] > 0 /\ Len(p[k].deps) = 1
    <2>1. Pairs(p, s) # {}
      BY <1>3 DEF Pairs
    <2>2. Collapse(p)[s] = Fold(p, k)
      BY <1>1, <1>2, <2>1, CollapseIs
    <2>3. IsList(p[k].deps) /\ Elements(p[k].deps) \subseteq TaskSlugs(p)
      BY DEF Proper, Elements
    <2>4. p[k].deps[1] \in Elements(p[k].deps)
      <3>1. 1 \in DOMAIN p[k].deps
        BY <1>3, <2>3, ListLength
      <3> QED BY <3>1 DEF Elements
    <2> QED BY <1>3, <2>2, <2>3, <2>4 DEF Fold
  <1>4. CASE ~(s[2] > 0 /\ Len(p[k].deps) = 1)
    <2>1. Pairs(p, s) = {}
      BY <1>2, <1>4 DEF Pairs
    <2>2. Collapse(p)[s] = s
      BY <1>1, <2>1, CollapseIs
    <2> QED BY <1>4, <2>2
  <1> QED
    BY <1>3, <1>4

(* Whole, for the rows rs. *)
WholeIn(rs, i) == IF rs[i].slug[2] > 0 /\ Cardinality(rs[i].deps) = 1
                  THEN CHOOSE d \in rs[i].deps : TRUE ELSE i

LEMMA OneDependency ==
    ASSUME NEW p, Proper(p), SlugsOnce(p), NEW kept \in Nat, NEW k \in DOMAIN p, NEW deps,
           deps = {Resolve(p, kept, s) : s \in Elements(p[k].deps)}
    PROVE  Cardinality(deps) = 1 <=> Len(p[k].deps) = 1
  <1> DEFINE d == p[k].deps
  <1>1. /\ p[k] \in Elements(p) /\ DOMAIN p = 1..Len(p) /\ Len(p) \in Nat
    BY ListLength DEF Proper, Elements
  <1>2. IsList(d) /\ Elements(d) \subseteq TaskSlugs(p) /\ Once(d)
    BY <1>1 DEF Proper
  <1> HIDE DEF d
  <1>3. Len(d) \in Nat /\ DOMAIN d = 1..Len(d) /\ Elements(d) = {d[j] : j \in 1..Len(d)}
    BY <1>2, ListLength DEF Elements
  <1>4. \A s \in Elements(d) : \E i \in DOMAIN p : Resolve(p, kept, s) = kept + i /\ p[i].slug = s
    BY <1>2, ResolveOnce
  <1>5. \A s, u \in Elements(d) : Resolve(p, kept, s) = Resolve(p, kept, u) => s = u
    <2> SUFFICES ASSUME NEW s \in Elements(d), NEW u \in Elements(d), Resolve(p, kept, s) = Resolve(p, kept, u)
                 PROVE  s = u
      OBVIOUS
    <2>1. PICK i \in DOMAIN p : Resolve(p, kept, s) = kept + i /\ p[i].slug = s
      BY <1>4
    <2>2. PICK j \in DOMAIN p : Resolve(p, kept, u) = kept + j /\ p[j].slug = u
      BY <1>4
    <2>3. i = j
      <3>1. i \in Nat /\ j \in Nat
        BY <1>1
      <3>2. kept + i = kept + j
        BY <2>1, <2>2
      <3> QED BY <3>1, <3>2
    <2> QED BY <2>1, <2>2, <2>3
  <1>6. IsFiniteSet(deps)
    <2>1. deps \subseteq (kept + 1)..(kept + Len(p))
      <3>1. ASSUME NEW s \in Elements(d) PROVE Resolve(p, kept, s) \in (kept + 1)..(kept + Len(p))
        BY <1>1, <1>4
      <3> QED BY <3>1 DEF d
    <2>2. IsFiniteSet((kept + 1)..(kept + Len(p)))
      <3>1. kept + 1 \in Int /\ kept + Len(p) \in Int
        BY <1>1
      <3> QED BY <3>1, FS_Interval
    <2> HIDE DEF d
    <2> QED BY <2>1, <2>2, FS_Subset
  <1>7. ASSUME Len(d) = 1 PROVE Cardinality(deps) = 1
    <2>1. Elements(d) = {d[1]}
      BY <1>3, <1>7
    <2>2. deps = {Resolve(p, kept, d[1])}
      BY <2>1 DEF d
    <2> QED BY <2>2, FS_Singleton
  <1>8. ASSUME Cardinality(deps) = 1 PROVE Len(d) = 1
    <2>1. PICK x : deps = {x}
      BY <1>6, <1>8, FS_Singleton
    <2>2. \A s \in Elements(d) : Resolve(p, kept, s) = x
      BY <2>1 DEF d
    <2>3. PICK s \in Elements(d) : TRUE
      BY <2>1 DEF d
    <2>4. Len(d) >= 1
      BY <1>3, <2>3
    <2>5. ASSUME Len(d) >= 2 PROVE FALSE
      <3>1. 1 \in DOMAIN d /\ 2 \in DOMAIN d
        BY <1>3, <2>5
      <3>2. d[1] \in Elements(d) /\ d[2] \in Elements(d)
        BY <3>1 DEF Elements
      <3>3. d[1] = d[2]
        BY <1>5, <2>2, <3>2
      <3>4. 1 = 2
        BY <1>2, <3>1, <3>3 DEF Once
      <3> QED BY <3>4
    <2> QED BY <1>3, <2>4, <2>5
  <1> QED
    BY <1>7, <1>8 DEF d

LEMMA LinkedRow ==
    ASSUME NEW rs, Indexed(rs), NEW number, NEW p, NEW kept, MadeFrom(rs, number, p, kept),
           Linked(rs, number, p, kept), SlugsOnce(p), NEW j \in RowsOf(rs, number)
    PROVE  /\ \A d \in rs[j].deps : /\ d \in RowsOf(rs, number)
                                    /\ SlugAt(p, kept, d) \in Elements(p[j - kept].deps)
           /\ WholeIn(rs, j) \in RowsOf(rs, number)
           /\ SlugAt(p, kept, WholeIn(rs, j)) = Collapse(p)[SlugAt(p, kept, j)]
  <1> DEFINE k == j - kept
  <1>1. k \in DOMAIN p /\ rs[j].slug = p[k].slug /\ Proper(p) /\ kept \in Nat
    BY DEF MadeFrom
  <1>2. rs[j].deps = {Resolve(p, kept, s) : s \in Elements(p[k].deps)}
    BY DEF Linked
  <1> HIDE DEF k
  <1>3. Elements(p[k].deps) \subseteq TaskSlugs(p) /\ IsList(p[k].deps) /\ DOMAIN p \subseteq Nat
    BY <1>1, ListLength DEF Proper, Elements
  <1>4. ASSUME NEW s \in Elements(p[k].deps)
        PROVE  Resolve(p, kept, s) \in RowsOf(rs, number) /\ SlugAt(p, kept, Resolve(p, kept, s)) = s
    <2>1. PICK m \in DOMAIN p : Resolve(p, kept, s) = kept + m /\ p[m].slug = s
      BY <1>1, <1>3, ResolveOnce
    <2>2. (kept + m) - kept = m
      BY <1>1, <1>3
    <2> QED BY <2>1, <2>2 DEF Linked, SlugAt
  <1>5. ASSUME NEW d \in rs[j].deps
        PROVE  d \in RowsOf(rs, number) /\ SlugAt(p, kept, d) \in Elements(p[k].deps)
    BY <1>2, <1>4
  <1>6. Cardinality(rs[j].deps) = 1 <=> Len(p[k].deps) = 1
    BY <1>1, <1>2, OneDependency
  <1>7. Collapse(p)[p[k].slug] = IF p[k].slug[2] > 0 /\ Len(p[k].deps) = 1 THEN p[k].deps[1] ELSE p[k].slug
    BY <1>1, CollapseOnce
  <1>8. SlugAt(p, kept, j) = p[k].slug
    BY DEF SlugAt, k
  <1>9. CASE p[k].slug[2] > 0 /\ Len(p[k].deps) = 1
    <2> DEFINE w == CHOOSE d \in rs[j].deps : TRUE
    <2>1. WholeIn(rs, j) = w
      BY <1>1, <1>6, <1>9 DEF WholeIn
    <2>2. DOMAIN p[k].deps = 1..1
      BY <1>3, <1>9, ListLength
    <2>3. Elements(p[k].deps) = {p[k].deps[1]}
      BY <2>2 DEF Elements
    <2>4. w \in rs[j].deps
      BY <1>2, <2>3
    <2> HIDE DEF w
    <2>5. w \in RowsOf(rs, number) /\ SlugAt(p, kept, w) = p[k].deps[1]
      BY <1>5, <2>3, <2>4
    <2> QED BY <1>5, <1>7, <1>8, <1>9, <2>1, <2>5 DEF k
  <1>10. CASE ~(p[k].slug[2] > 0 /\ Len(p[k].deps) = 1)
    <2>1. WholeIn(rs, j) = j
      BY <1>1, <1>6, <1>10 DEF WholeIn
    <2> QED BY <1>5, <1>7, <1>8, <1>10, <2>1 DEF k
  <1> QED
    BY <1>9, <1>10

(* Of the rows rs, the tasks of reviewed proposals whose slugs differ, and *)
(* what waits for what among them.                                         *)
DifferIn(rs, i) == \A j, k \in DOMAIN rs :
    (rs[j].plan = rs[i].plan /\ rs[k].plan = rs[i].plan /\ rs[j].slug = rs[k].slug) => j = k
Pieces(rs) == {i \in DOMAIN rs : rs[i].reviewed \in {"pass", "warn"} /\ DifferIn(rs, i)}
Awaited(rs) == {e \in {<<WholeIn(rs, i), WholeIn(rs, d)>> : i \in Pieces(rs), d \in DOMAIN rs} :
                  /\ e[1] # e[2]
                  /\ \E i \in Pieces(rs) : /\ WholeIn(rs, i) = e[1]
                                           /\ \E d \in rs[i].deps : WholeIn(rs, d) = e[2]}

LEMMA CircleIs == WorkNeverWaitsInACircle <=> (NamedOnce(feature.plan) => ~HasCycle(Awaited(rows)))
  <1> DEFINE reviewed == {i \in DOMAIN rows : Reviewed(i) /\ SlugsDiffer(i)}
             edges == {e \in {<<Whole(i), Whole(d)>> : i \in reviewed, d \in DOMAIN rows} :
                         /\ e[1] # e[2]
                         /\ \E i \in reviewed : Whole(i) = e[1] /\ \E d \in rows[i].deps : Whole(d) = e[2]}
             pieces == Pieces(rows)
  <1>1. reviewed = pieces
    <2>1. ASSUME NEW i PROVE SlugsDiffer(i) <=> DifferIn(rows, i)
      BY DEF SlugsDiffer, DifferIn
    <2> QED BY <2>1 DEF Pieces, Reviewed
  <1>2. \A i : Whole(i) = WholeIn(rows, i)
    BY DEF Whole, WholeIn
  <1>3. edges = Awaited(rows)
    <2> HIDE DEF reviewed
    <2>1. Awaited(rows) = {e \in {<<WholeIn(rows, i), WholeIn(rows, d)>> : i \in pieces, d \in DOMAIN rows} :
                             /\ e[1] # e[2]
                             /\ \E i \in pieces : /\ WholeIn(rows, i) = e[1]
                                                 /\ \E d \in rows[i].deps : WholeIn(rows, d) = e[2]}
      BY DEF Awaited
    <2> HIDE DEF pieces
    <2> QED BY <1>1, <1>2, <2>1
  <1>4. WorkNeverWaitsInACircle <=> (NamedOnce(feature.plan) => ~HasCycle(edges))
    BY DEF WorkNeverWaitsInACircle
  <1> HIDE DEF edges
  <1> QED
    BY <1>3, <1>4

LEMMA NoCircleAmong ==
    ASSUME NEW rs, Indexed(rs),
           \A i \in DOMAIN rs : rs[i].reviewed \in {"pass", "warn"} =>
              \E p, kept : Block(rs, rs[i].plan, p, kept)
    PROVE  ~HasCycle(Awaited(rs))
  <1> DEFINE W == Awaited(rs)
  <1>1. ASSUME NEW i \in Pieces(rs), rs[i].deps # {}
        PROVE  \E p, kept : /\ MadeFrom(rs, rs[i].plan, p, kept) /\ Linked(rs, rs[i].plan, p, kept)
                            /\ SlugsOnce(p)
    <2>1. i \in DOMAIN rs /\ rs[i].reviewed \in {"pass", "warn"}
      BY DEF Pieces
    <2>2. PICK p, kept : Block(rs, rs[i].plan, p, kept)
      BY <2>1
    <2>3. i \in RowsOf(rs, rs[i].plan)
      BY <2>1 DEF RowsOf
    <2>4. MadeFrom(rs, rs[i].plan, p, kept) /\ Linked(rs, rs[i].plan, p, kept)
      BY <1>1, <2>2, <2>3 DEF Block
    <2>5. SlugsOnce(p)
      <3>1. kept \in Nat /\ DOMAIN p = 1..Len(p) /\ Len(p) \in Nat
        BY <2>4, ListLength DEF MadeFrom, Proper
      <3>2. ASSUME NEW a \in DOMAIN p, NEW b \in DOMAIN p, p[a].slug = p[b].slug PROVE a = b
        <4>1. kept + a \in RowsOf(rs, rs[i].plan) /\ kept + b \in RowsOf(rs, rs[i].plan)
          BY <2>4 DEF Linked
        <4>2. (kept + a) - kept = a /\ (kept + b) - kept = b /\ a \in Nat /\ b \in Nat
          BY <3>1
        <4>3. rs[kept + a].slug = p[a].slug /\ rs[kept + b].slug = p[b].slug
          BY <2>4, <4>1, <4>2 DEF MadeFrom
        <4>4. kept + a = kept + b
          BY <3>2, <4>1, <4>3 DEF Pieces, DifferIn, RowsOf
        <4> QED BY <3>1, <4>2, <4>4
      <3> QED BY <3>2 DEF SlugsOnce
    <2> QED BY <2>4, <2>5
  <1>2. ASSUME NEW i \in Pieces(rs), NEW d \in rs[i].deps
        PROVE  i \in DOMAIN rs /\ WholeIn(rs, i) \in RowsOf(rs, rs[i].plan)
    <2>1. PICK p, kept : MadeFrom(rs, rs[i].plan, p, kept) /\ Linked(rs, rs[i].plan, p, kept) /\ SlugsOnce(p)
      BY <1>1
    <2>2. i \in RowsOf(rs, rs[i].plan) /\ i \in DOMAIN rs
      BY DEF RowsOf, Pieces
    <2> QED BY <2>1, <2>2, LinkedRow
  <1>3. ASSUME NEW e \in W
        PROVE  \E i \in Pieces(rs) : \E d \in rs[i].deps :
                  e[1] = WholeIn(rs, i) /\ e[2] = WholeIn(rs, d) /\ e[1] # e[2]
    BY DEF Awaited
  <1> HIDE DEF W
  <1>4. ASSUME NEW C \in SUBSET {e[1] : e \in W}, C # {}, \A n \in C : \E e \in W : e[1] = n /\ e[2] \in C
        PROVE  FALSE
    <2>1. ASSUME NEW n \in C
          PROVE  \E i \in Pieces(rs) : \E d \in rs[i].deps :
                    n = WholeIn(rs, i) /\ WholeIn(rs, d) \in C /\ n # WholeIn(rs, d)
      <3>1. PICK e \in W : e[1] = n /\ e[2] \in C
        BY <1>4
      <3> QED BY <1>3, <3>1
    <2>2. PICK c \in C : TRUE
      BY <1>4
    <2>3. PICK i \in Pieces(rs) : \E d \in rs[i].deps : c = WholeIn(rs, i)
      BY <2>1
    <2> DEFINE number == rs[i].plan
    <2>4. PICK p, kept : MadeFrom(rs, number, p, kept) /\ Linked(rs, number, p, kept) /\ SlugsOnce(p)
      BY <1>1, <2>3
    <2>5. c \in RowsOf(rs, number)
      BY <1>2, <2>3
    <2> HIDE DEF number
    <2> DEFINE R == RowsOf(rs, number) at(j) == SlugAt(p, kept, j) E == CollapsedDeps(p)
               D == {at(j) : j \in C \cap R}
    <2>6. kept \in Nat /\ Proper(p) /\ \A j \in R : j - kept \in DOMAIN p /\ j \in Nat
      BY <2>4 DEF MadeFrom, RowsOf, Indexed
    <2>7. ASSUME NEW j \in R, NEW k \in R, at(j) = at(k) PROVE j = k
      <3>1. j - kept = k - kept
        BY <2>4, <2>6, <2>7 DEF SlugsOnce, SlugAt
      <3> QED BY <2>6, <3>1
    <2>8. ASSUME NEW j \in R
          PROVE  /\ \A d \in rs[j].deps : d \in R /\ at(d) \in Elements(p[j - kept].deps)
                 /\ WholeIn(rs, j) \in R /\ at(WholeIn(rs, j)) = Collapse(p)[at(j)]
      BY <2>4, LinkedRow
    <2> HIDE DEF R
    <2>9. ASSUME NEW n \in C \cap R PROVE \E e \in E : e[1] = at(n) /\ e[2] \in D
      <3>0. PICK j \in Pieces(rs) : \E d \in rs[j].deps :
               n = WholeIn(rs, j) /\ WholeIn(rs, d) \in C /\ n # WholeIn(rs, d)
        BY <2>1
      <3>1. PICK d \in rs[j].deps : n = WholeIn(rs, j) /\ WholeIn(rs, d) \in C /\ n # WholeIn(rs, d)
        BY <3>0
      <3>2. j \in R
        <4>1. j \in DOMAIN rs /\ n \in RowsOf(rs, rs[j].plan)
          BY <1>2, <3>1
        <4> QED BY <4>1 DEF R, RowsOf
      <3>3. d \in R /\ at(d) \in Elements(p[j - kept].deps) /\ at(n) = Collapse(p)[at(j)]
        BY <2>8, <3>1, <3>2
      <3> DEFINE m == WholeIn(rs, d)
      <3>4. m \in R /\ at(m) = Collapse(p)[at(d)]
        BY <2>8, <3>3
      <3>5. at(n) # at(m)
        BY <2>7, <3>1, <3>4
      <3>6. p[j - kept] \in Elements(p) /\ at(j) = p[j - kept].slug
        BY <2>6, <3>2 DEF Elements, SlugAt
      <3>7. at(d) \in TaskSlugs(p)
        BY <2>6, <3>3, <3>6 DEF Proper
      <3>8. m \in C \cap R
        BY <3>1, <3>4
      <3> HIDE DEF m, at
      <3>9. <<at(n), at(m)>> \in E
        BY <3>3, <3>4, <3>5, <3>6, <3>7, EdgeIs
      <3> QED BY <3>8, <3>9
    <2>10. D \in SUBSET {e[1] : e \in E} /\ D # {}
      <3>1. at(c) \in D
        BY <2>5 DEF R
      <3>2. ASSUME NEW n \in C \cap R PROVE at(n) \in {e[1] : e \in E}
        BY <2>9
      <3> QED BY <3>1, <3>2
    <2>11. \A s \in D : \E e \in E : e[1] = s /\ e[2] \in D
      BY <2>9
    <2>12. ~HasCycle(E)
      BY <2>4 DEF MadeFrom, CyclesFound
    <2> HIDE DEF D, E
    <2> QED BY <2>10, <2>11, <2>12 DEF HasCycle
  <1> QED
    BY <1>4 DEF HasCycle, W

-----------------------------------------------------------------------------
(* How the rows change. *)
LEMMA MadeList ==
    ASSUME NEW n \in Nat, NEW s, DOMAIN s = 1..n, s = [i \in 1..n |-> s[i]]
    PROVE  IsList(s) /\ Len(s) = n
  <1>1. \A i \in 1..n : s[i] \in Elements(s)
    BY DEF Elements
  <1>2. s \in Seq(Elements(s))
    BY <1>1
  <1>3. Len(s) \in Nat /\ DOMAIN s = 1..Len(s)
    BY <1>2
  <1>4. Len(s) = n
    BY <1>2, <1>3
  <1> QED
    BY <1>2, <1>4 DEF IsList

Joins(t, r, s) ==
    /\ IsList(t) /\ Len(r) \in Nat /\ Len(s) \in Nat /\ DOMAIN t = 1..(Len(r) + Len(s))
    /\ DOMAIN r = 1..Len(r) /\ DOMAIN s = 1..Len(s)
    /\ \A i \in 1..Len(r) : t[i] = r[i]
    /\ \A i \in 1..Len(s) : t[Len(r) + i] = s[i]

LEMMA ChainedAt == ASSUME NEW r, IsList(r), NEW s, IsList(s) PROVE Joins(r \o s, r, s)
  <1> DEFINE E == Elements(r) \cup Elements(s)
  <1>1. r \in Seq(E) /\ s \in Seq(E)
    BY DEF IsList
  <1>2. IsList(r \o s)
    BY Chained
  <1> HIDE DEF E
  <1> QED
    BY <1>1, <1>2 DEF Joins

SameRow(q, r) == q.slug = r.slug /\ q.deps = r.deps /\ q.plan = r.plan /\ q.reviewed = r.reviewed
Numbered(rs, number) == IsList(rs) /\ \A i \in DOMAIN rs : rs[i].plan \in Nat /\ rs[i].plan < number
Blocks(rs) == \A i \in DOMAIN rs : rs[i].reviewed \in {"pass", "warn"} =>
                 \E p, kept : Block(rs, rs[i].plan, p, kept)

(* What a proposal p makes of the rows c that are put after the first kept. *)
MadeBy(c, kept, p) ==
    /\ Proper(p) /\ ~CyclesFound(p) /\ DOMAIN c \subseteq DOMAIN p
    /\ \A k \in DOMAIN c : c[k].slug = p[k].slug
    /\ \/ \A k \in DOMAIN c : c[k].deps = {}
       \/ /\ DOMAIN c = DOMAIN p
          /\ \A k \in DOMAIN c : c[k].deps = {Resolve(p, kept, s) : s \in Elements(p[k].deps)}

LEMMA BlockKept ==
    ASSUME NEW rs, NEW qs, NEW number, NEW p, NEW kept, Block(rs, number, p, kept),
           RowsOf(qs, number) = RowsOf(rs, number), \A j \in RowsOf(rs, number) : SameRow(qs[j], rs[j])
    PROVE  Block(qs, number, p, kept)
  <1>1. MadeFrom(qs, number, p, kept)
    BY DEF Block, MadeFrom, SameRow
  <1>2. CASE Linked(rs, number, p, kept)
    <2>1. Linked(qs, number, p, kept)
      BY <1>2 DEF Linked, SameRow
    <2> QED BY <1>1, <2>1 DEF Block
  <1>3. CASE \A j \in RowsOf(rs, number) : rs[j].deps = {}
    BY <1>1, <1>3 DEF Block, SameRow
  <1> QED
    BY <1>2, <1>3 DEF Block

LEMMA SameRows ==
    ASSUME NEW rs, NEW number, Numbered(rs, number), NEW qs, IsList(qs), DOMAIN qs = DOMAIN rs,
           \A j \in DOMAIN rs : SameRow(qs[j], rs[j])
    PROVE  Numbered(qs, number) /\ (Blocks(rs) => Blocks(qs))
  <1>1. Numbered(qs, number)
    BY DEF Numbered, SameRow
  <1>2. \A n : RowsOf(qs, n) = RowsOf(rs, n) /\ RowsOf(rs, n) \subseteq DOMAIN rs
    BY DEF RowsOf, SameRow
  <1>3. ASSUME Blocks(rs), NEW i \in DOMAIN qs, qs[i].reviewed \in {"pass", "warn"}
        PROVE  \E p, kept : Block(qs, qs[i].plan, p, kept)
    <2>1. SameRow(qs[i], rs[i])
      BY <1>3
    <2>2. PICK p, kept : Block(rs, rs[i].plan, p, kept)
      BY <1>3, <2>1 DEF Blocks, SameRow
    <2>3. Block(qs, rs[i].plan, p, kept)
      BY <1>2, <2>2, BlockKept
    <2> QED BY <2>1, <2>3 DEF SameRow
  <1> QED
    BY <1>1, <1>3 DEF Blocks

LEMMA RowsAdded ==
    ASSUME NEW number \in Nat, NEW rs, Numbered(rs, number), NEW a, IsList(a), Len(a) = Len(rs),
           \A j \in DOMAIN rs : SameRow(a[j], rs[j]),
           NEW c, IsList(c), \A k \in DOMAIN c : c[k].plan = number
    PROVE  /\ Numbered(a \o c, number + 1)
           /\ Blocks(rs) /\ (\A k \in DOMAIN c : c[k].reviewed \in {"pass", "warn"} => \E p : MadeBy(c, Len(rs), p))
                 => Blocks(a \o c)
  <1> DEFINE qs == a \o c n == Len(rs) m == Len(c)
  <1>1. /\ IsList(qs) /\ n \in Nat /\ m \in Nat /\ DOMAIN qs = 1..(n + m) /\ DOMAIN c = 1..m
        /\ \A i \in 1..n : qs[i] = a[i]
        /\ \A i \in 1..m : qs[n + i] = c[i]
    <2>1. Joins(qs, a, c)
      BY ChainedAt
    <2> HIDE DEF qs
    <2> QED BY <2>1 DEF Joins
  <1>2. DOMAIN rs = 1..n
    BY ListLength DEF Numbered
  <1> HIDE DEF qs, n, m
  <1>3. ASSUME NEW i \in 1..n PROVE i \in DOMAIN qs /\ SameRow(qs[i], rs[i])
    BY <1>1, <1>2
  <1>4. ASSUME NEW i \in 1..m PROVE n + i \in DOMAIN qs /\ qs[n + i] = c[i] /\ qs[n + i].plan = number
    <2>1. n + i \in 1..(n + m) /\ i \in DOMAIN c
      BY <1>1
    <2>2. qs[n + i] = c[i]
      BY <1>1
    <2>3. c[i].plan = number
      BY <2>1
    <2> QED BY <1>1, <2>1, <2>2, <2>3
  <1>5. ASSUME NEW i \in DOMAIN qs PROVE i \in 1..n \/ \E k \in 1..m : i = n + k
    <2>1. i \in 1..n \/ (i - n \in 1..m /\ i = n + (i - n))
      BY <1>1
    <2> QED BY <2>1
  <1>6. ASSUME NEW i \in 1..n PROVE rs[i].plan \in Nat /\ rs[i].plan < number
    BY <1>2 DEF Numbered
  <1>7. Numbered(qs, number + 1)
    <2>1. ASSUME NEW i \in 1..n PROVE qs[i].plan \in Nat /\ qs[i].plan < number + 1
      <3>1. qs[i].plan = rs[i].plan
        BY <1>3 DEF SameRow
      <3> QED BY <1>6, <3>1
    <2>2. ASSUME NEW k \in 1..m PROVE qs[n + k].plan \in Nat /\ qs[n + k].plan < number + 1
      BY <1>4
    <2> QED BY <1>1, <1>5, <2>1, <2>2 DEF Numbered
  <1>8. ASSUME NEW P \in Nat, P < number
        PROVE  RowsOf(qs, P) = RowsOf(rs, P) /\ \A j \in RowsOf(rs, P) : SameRow(qs[j], rs[j])
    <2>1. \A j \in RowsOf(qs, P) : j \in 1..n
      BY <1>4, <1>5, <1>8 DEF RowsOf
    <2> QED BY <1>2, <1>3, <2>1 DEF RowsOf, SameRow
  <1>9. RowsOf(qs, number) = {n + k : k \in 1..m}
    <2>1. \A j \in 1..n : qs[j].plan # number
      <3>1. ASSUME NEW j \in 1..n, qs[j].plan = number PROVE FALSE
        <4>1. rs[j].plan = number
          BY <1>3, <3>1 DEF SameRow
        <4> QED BY <1>6, <4>1
      <3> QED BY <3>1
    <2>2. \A j \in RowsOf(qs, number) : \E k \in 1..m : j = n + k
      BY <1>5, <2>1 DEF RowsOf
    <2> QED BY <1>4, <2>2 DEF RowsOf
  <1>10. ASSUME NEW p, MadeBy(c, n, p) PROVE Block(qs, number, p, n)
    <2>1. \A k \in 1..m : (n + k) - n = k
      BY <1>1
    <2>2. MadeFrom(qs, number, p, n)
      <3>1. ASSUME NEW k \in 1..m PROVE (n + k) - n \in DOMAIN p /\ qs[n + k].slug = p[(n + k) - n].slug
        BY <1>1, <1>4, <1>10, <2>1 DEF MadeBy
      <3> QED BY <1>1, <1>9, <1>10, <3>1 DEF MadeFrom, MadeBy
    <2>3. CASE \A k \in DOMAIN c : c[k].deps = {}
      <3>1. ASSUME NEW k \in 1..m PROVE qs[n + k].deps = {}
        BY <1>1, <1>4, <2>3
      <3>2. \A j \in RowsOf(qs, number) : qs[j].deps = {}
        BY <1>9, <3>1
      <3> QED BY <2>2, <3>2 DEF Block
    <2>4. CASE /\ DOMAIN c = DOMAIN p
               /\ \A k \in DOMAIN c : c[k].deps = {Resolve(p, n, s) : s \in Elements(p[k].deps)}
      <3>1. ASSUME NEW k \in 1..m
            PROVE  qs[n + k].deps = {Resolve(p, n, s) : s \in Elements(p[(n + k) - n].deps)}
        BY <1>1, <1>4, <2>1, <2>4
      <3>2. \A k \in DOMAIN p : n + k \in RowsOf(qs, number)
        BY <1>1, <1>9, <2>4
      <3>3. \A j \in RowsOf(qs, number) :
               qs[j].deps = {Resolve(p, n, s) : s \in Elements(p[j - n].deps)}
        BY <1>9, <3>1
      <3>4. Linked(qs, number, p, n)
        BY <3>2, <3>3 DEF Linked
      <3> QED BY <2>2, <3>4 DEF Block
    <2> QED BY <1>10, <2>3, <2>4 DEF MadeBy
  <1>11. ASSUME Blocks(rs), \A k \in DOMAIN c : c[k].reviewed \in {"pass", "warn"} => \E p : MadeBy(c, n, p),
               NEW i \in DOMAIN qs, qs[i].reviewed \in {"pass", "warn"}
         PROVE \E p, kept : Block(qs, qs[i].plan, p, kept)
    <2>1. CASE i \in 1..n
      <3>1. SameRow(qs[i], rs[i])
        BY <1>3, <2>1
      <3>2. PICK p, kept : Block(rs, rs[i].plan, p, kept)
        BY <1>2, <1>11, <2>1, <3>1 DEF Blocks, SameRow
      <3>3. rs[i].plan \in Nat /\ rs[i].plan < number
        BY <1>6, <2>1
      <3>4. Block(qs, rs[i].plan, p, kept)
        BY <1>8, <3>2, <3>3, BlockKept
      <3> QED BY <3>1, <3>4 DEF SameRow
    <2>2. ASSUME NEW k \in 1..m, i = n + k PROVE \E p, kept : Block(qs, qs[i].plan, p, kept)
      <3>1. qs[i] = c[k] /\ qs[i].plan = number
        BY <1>4, <2>2
      <3>2. PICK p : MadeBy(c, n, p)
        BY <1>1, <1>11, <3>1
      <3> QED BY <1>10, <3>1, <3>2
    <2> QED BY <1>5, <2>1, <2>2
  <1> QED
    BY <1>7, <1>11 DEF Blocks, qs, n

-----------------------------------------------------------------------------
(* The invariant: the proposal is one the code makes, a review that does   *)
(* not fail it found no circle in it, and the rows lie in blocks, one per  *)
(* application.                                                            *)
ProposalInv ==
    /\ feature \in Features /\ Read(spec.lines)
    /\ IsList(proposal.tasks)
    /\ proposal.source = "criteria" =>
          Read(proposal.lines) /\ \E paired : proposal.tasks = FromCriteria(proposal.lines, paired)
    /\ NamedOnce(feature.plan) => Proper(proposal.tasks)
    /\ verdict \in {"pass", "warn"} => ~CyclesFound(proposal.tasks)
RowsInv ==
    /\ changes \in Nat /\ Numbered(rows, changes)
    /\ NamedOnce(feature.plan) => Blocks(rows)
DecomposeInv == ProposalInv /\ RowsInv

LEMMA DevPlanIsList == ASSUME NEW plan, IsList(plan) PROVE IsList(DevPlanTasks(plan))
  <1> DEFINE p == DevPlanTasks(plan)
  <1>1. DOMAIN plan = 1..Len(plan) /\ Len(plan) \in Nat
    BY ListLength
  <1>2. DOMAIN p = 1..Len(plan) /\ p = [i \in 1..Len(plan) |-> p[i]]
    BY <1>1 DEF DevPlanTasks
  <1> HIDE DEF p
  <1>3. IsList(p)
    BY <1>1, <1>2, MadeList
  <1> QED
    BY <1>3 DEF p

LEMMA GivenDocuments ==
    ASSUME feature \in Features
    PROVE  /\ IsList(feature.plan) /\ \A i \in DOMAIN feature.plan : IsList(feature.plan[i].deps)
           /\ Read(feature.lines) /\ \A s \in feature.later : Read(s)
  BY DocumentsAreLists DEF Read

LEMMA DecomposeStarts == ASSUME DecomposeInit PROVE DecomposeInv
  <1>1. feature \in Features /\ spec.lines = feature.lines /\ proposal = Nothing /\ verdict = "none"
        /\ rows = <<>> /\ changes = 0
    BY DEF DecomposeInit, FeatureGiven
  <1>2. IsList(<<>>) /\ Elements(<<>>) = {} /\ DOMAIN <<>> = {}
    BY EmptyList
  <1>3. Proper(<<>>)
    BY <1>2 DEF Proper
  <1>4. proposal.tasks = <<>> /\ proposal.source = "none"
    BY <1>1 DEF Nothing
  <1>5. ProposalInv
    BY <1>1, <1>2, <1>3, <1>4, GivenDocuments DEF ProposalInv
  <1>6. Numbered(rows, changes) /\ Blocks(rows)
    BY <1>1, <1>2 DEF Numbered, Blocks
  <1> QED
    BY <1>1, <1>5, <1>6 DEF DecomposeInv, RowsInv

LEMMA ProposeStep == ASSUME DecomposeInv, NEW paired, Propose(paired) PROVE ProposalInv'
  <1>1. ProposalInv /\ UNCHANGED <<feature, spec>> /\ verdict' = "none"
    BY DEF DecomposeInv, Propose
  <1>2. /\ IsList(feature.plan) /\ \A i \in DOMAIN feature.plan : IsList(feature.plan[i].deps)
    BY <1>1, GivenDocuments DEF ProposalInv
  <1>3. CASE proposal' = [tasks |-> DevPlanTasks(feature.plan), source |-> "dev-plan", lines |-> spec.lines]
    <2>1. proposal'.tasks = DevPlanTasks(feature.plan) /\ proposal'.source = "dev-plan"
      BY <1>3
    <2>2. IsList(DevPlanTasks(feature.plan)) /\ (NamedOnce(feature.plan) => Proper(DevPlanTasks(feature.plan)))
      BY <1>2, DevPlanIsList, DevPlanIsProper
    <2> QED BY <1>1, <2>1, <2>2 DEF ProposalInv
  <1>4. CASE proposal' = [tasks |-> FromCriteria(spec.lines, paired), source |-> "criteria", lines |-> spec.lines]
    <2>1. proposal'.tasks = FromCriteria(spec.lines, paired) /\ proposal'.lines = spec.lines
      BY <1>4
    <2>2. GoodTasks(FromCriteria(spec.lines, paired))
      BY <1>1, FromCriteriaIs DEF ProposalInv
    <2>3. IsList(FromCriteria(spec.lines, paired)) /\ Proper(FromCriteria(spec.lines, paired))
      BY <2>2, GoodIsProper DEF GoodTasks
    <2> QED BY <1>1, <2>1, <2>3 DEF ProposalInv
  <1> QED
    BY <1>3, <1>4 DEF Propose

LEMMA ReviewStep == ASSUME DecomposeInv, Review PROVE ProposalInv'
  <1>1. ProposalInv /\ UNCHANGED <<feature, spec, proposal>> /\ verdict' = ReviewOf(spec.lines, proposal.tasks)
    BY DEF DecomposeInv, Review
  <1>2. verdict' \in {"pass", "warn"} => ~CyclesFound(proposal.tasks)
    BY <1>1 DEF ReviewOf
  <1> QED
    BY <1>1, <1>2 DEF ProposalInv

LEMMA Created ==
    ASSUME NEW p, IsList(p), NEW reviewed, NEW c, c = CreatedFrom(p, reviewed)
    PROVE  /\ IsList(c) /\ Len(c) = Len(p) /\ DOMAIN c = DOMAIN p
           /\ \A k \in DOMAIN p : /\ c[k].slug = p[k].slug /\ c[k].deps = {} /\ c[k].plan = changes
                                  /\ c[k].reviewed = reviewed
  <1>1. DOMAIN p = 1..Len(p) /\ Len(p) \in Nat
    BY ListLength
  <1>2. DOMAIN c = 1..Len(p) /\ c = [i \in 1..Len(p) |-> c[i]]
    BY <1>1 DEF CreatedFrom
  <1>3. IsList(c) /\ Len(c) = Len(p)
    BY <1>1, <1>2, MadeList
  <1> QED
    BY <1>1, <1>2, <1>3 DEF CreatedFrom

LEMMA SupersededRows ==
    ASSUME NEW rs, IsList(rs), NEW a, a = Superseded(rs)
    PROVE  IsList(a) /\ Len(a) = Len(rs) /\ \A j \in DOMAIN rs : SameRow(a[j], rs[j])
  <1>1. DOMAIN rs = 1..Len(rs) /\ Len(rs) \in Nat
    BY ListLength
  <1>2. DOMAIN a = 1..Len(rs) /\ a = [i \in 1..Len(rs) |-> a[i]]
    BY <1>1 DEF Superseded
  <1>3. IsList(a) /\ Len(a) = Len(rs)
    BY <1>1, <1>2, MadeList
  <1>4. ASSUME NEW j \in DOMAIN rs PROVE SameRow(a[j], rs[j])
    BY DEF Superseded, SameRow
  <1> QED
    BY <1>3, <1>4

LEMMA ApplyStep == ASSUME DecomposeInv, Apply PROVE RowsInv'
  <1> DEFINE p == proposal.tasks n == Len(rows) a == Superseded(rows) b == CreatedFrom(p, verdict)
             c == WithDeps(b, p, n)
  <1>1. ProposalInv /\ changes \in Nat /\ Numbered(rows, changes) /\ (NamedOnce(feature.plan) => Blocks(rows))
    BY DEF DecomposeInv, RowsInv
  <1>2. rows' = a \o c /\ changes' = changes + 1 /\ feature' = feature
    BY DEF Apply
  <1>3. IsList(p) /\ (NamedOnce(feature.plan) => Proper(p)) /\ (verdict \in {"pass", "warn"} => ~CyclesFound(p))
    BY <1>1 DEF ProposalInv
  <1>4. IsList(a) /\ Len(a) = Len(rows) /\ \A j \in DOMAIN rows : SameRow(a[j], rows[j])
    BY <1>1, SupersededRows DEF Numbered
  <1> HIDE DEF p, n, a
  <1>5. /\ DOMAIN b = DOMAIN p
        /\ \A k \in DOMAIN p : b[k].slug = p[k].slug /\ b[k].plan = changes /\ b[k].reviewed = verdict
    BY <1>3, Created
  <1>6. /\ IsList(c) /\ DOMAIN c = DOMAIN p
        /\ \A k \in DOMAIN p : /\ c[k].slug = p[k].slug /\ c[k].plan = changes /\ c[k].reviewed = verdict
                               /\ c[k].deps = {Resolve(p, n, s) : s \in Elements(p[k].deps) \cap TaskSlugs(p)}
    <2>1. DOMAIN p = 1..Len(p) /\ Len(p) \in Nat
      BY <1>3, ListLength
    <2>2. DOMAIN c = 1..Len(p) /\ c = [i \in 1..Len(p) |-> c[i]]
      BY <2>1 DEF WithDeps
    <2>3. IsList(c)
      BY <2>1, <2>2, MadeList
    <2>4. ASSUME NEW k \in DOMAIN p
          PROVE  /\ c[k].slug = p[k].slug /\ c[k].plan = changes /\ c[k].reviewed = verdict
                 /\ c[k].deps = {Resolve(p, n, s) : s \in Elements(p[k].deps) \cap TaskSlugs(p)}
      <3> DEFINE deps == {Resolve(p, n, s) : s \in Elements(p[k].deps) \cap TaskSlugs(p)} new == b[k]
      <3>1. c[k] = [new EXCEPT !.deps = deps]
        BY DEF WithDeps
      <3>2. new.slug = p[k].slug /\ new.plan = changes /\ new.reviewed = verdict /\ "deps" \in DOMAIN new
        BY <1>5 DEF CreatedFrom
      <3> HIDE DEF deps, new
      <3>3. /\ c[k].slug = p[k].slug /\ c[k].plan = changes /\ c[k].reviewed = verdict
            /\ c[k].deps = deps
        BY <3>1, <3>2
      <3> QED BY <3>3 DEF deps
    <2> QED BY <2>1, <2>2, <2>3, <2>4
  <1> HIDE DEF b, c
  <1>7. ASSUME NamedOnce(feature.plan), verdict \in {"pass", "warn"} PROVE MadeBy(c, n, p)
    <2>1. ASSUME NEW k \in DOMAIN p PROVE c[k].deps = {Resolve(p, n, s) : s \in Elements(p[k].deps)}
      <3>1. p[k] \in Elements(p)
        BY DEF Elements
      <3>2. Elements(p[k].deps) \cap TaskSlugs(p) = Elements(p[k].deps)
        BY <1>3, <1>7, <3>1 DEF Proper
      <3> QED BY <1>6, <3>2
    <2> QED BY <1>3, <1>6, <1>7, <2>1 DEF MadeBy
  <1>8. \A k \in DOMAIN c : c[k].plan = changes
    BY <1>6
  <1>9. NamedOnce(feature.plan) =>
           \A k \in DOMAIN c : c[k].reviewed \in {"pass", "warn"} => \E q : MadeBy(c, Len(rows), q)
    BY <1>6, <1>7 DEF n
  <1>10. /\ Numbered(a \o c, changes + 1)
         /\ Blocks(rows) /\ (\A k \in DOMAIN c : c[k].reviewed \in {"pass", "warn"} => \E q : MadeBy(c, Len(rows), q))
                 => Blocks(a \o c)
    BY <1>1, <1>4, <1>6, <1>8, RowsAdded
  <1>11. Numbered(rows', changes') /\ (NamedOnce(feature.plan) => Blocks(rows'))
    BY <1>1, <1>2, <1>9, <1>10
  <1> QED
    BY <1>1, <1>2, <1>11 DEF RowsInv, Numbered, Blocks

LEMMA ApplyCutStep == ASSUME DecomposeInv, NEW m, ApplyCut(m) PROVE RowsInv'
  <1> DEFINE p == proposal.tasks n == Len(rows) a == Superseded(rows) b == CreatedFrom(p, verdict)
             c == SubSeq(b, 1, m)
  <1>1. ProposalInv /\ changes \in Nat /\ Numbered(rows, changes) /\ (NamedOnce(feature.plan) => Blocks(rows))
    BY DEF DecomposeInv, RowsInv
  <1>2. rows' = a \o c /\ changes' = changes + 1 /\ feature' = feature /\ m \in 1..Len(p) - 1
    BY DEF ApplyCut
  <1>3. IsList(p) /\ (NamedOnce(feature.plan) => Proper(p)) /\ (verdict \in {"pass", "warn"} => ~CyclesFound(p))
    BY <1>1 DEF ProposalInv
  <1>4. IsList(a) /\ Len(a) = Len(rows) /\ \A j \in DOMAIN rows : SameRow(a[j], rows[j])
    BY <1>1, SupersededRows DEF Numbered
  <1> HIDE DEF p, n, a
  <1>5. /\ IsList(b) /\ Len(b) = Len(p) /\ DOMAIN b = DOMAIN p
        /\ \A k \in DOMAIN p : /\ b[k].slug = p[k].slug /\ b[k].plan = changes /\ b[k].reviewed = verdict
                               /\ b[k].deps = {}
    BY <1>3, Created
  <1> HIDE DEF b
  <1>6. /\ IsList(c) /\ DOMAIN c \subseteq DOMAIN p /\ \A k \in DOMAIN c : c[k] = b[k]
    <2>1. DOMAIN p = 1..Len(p) /\ Len(p) \in Nat
      BY <1>3, ListLength
    <2>2. b \in Seq(Elements(b)) /\ m \in Nat /\ m <= Len(b) /\ m >= 1
      BY <1>2, <1>5, <2>1 DEF IsList
    <2>3. c \in Seq(Elements(b)) /\ Len(c) = m /\ DOMAIN c = 1..m
      BY <2>2
    <2>4. \A k \in 1..m : c[k] = b[k]
      BY <2>2
    <2>5. 1..m \subseteq 1..Len(p)
      BY <1>5, <2>1, <2>2
    <2> HIDE DEF c
    <2>6. IsList(c)
      BY <2>3, TypedList
    <2> QED BY <2>1, <2>3, <2>4, <2>5, <2>6
  <1> HIDE DEF c
  <1>7. ASSUME NamedOnce(feature.plan), verdict \in {"pass", "warn"} PROVE MadeBy(c, n, p)
    <2>1. ASSUME NEW k \in DOMAIN c PROVE c[k].deps = {} /\ c[k].slug = p[k].slug
      BY <1>5, <1>6
    <2> QED BY <1>3, <1>6, <1>7, <2>1 DEF MadeBy
  <1>8. \A k \in DOMAIN c : c[k].plan = changes /\ c[k].reviewed = verdict
    BY <1>5, <1>6
  <1>9. NamedOnce(feature.plan) =>
           \A k \in DOMAIN c : c[k].reviewed \in {"pass", "warn"} => \E q : MadeBy(c, Len(rows), q)
    BY <1>7, <1>8 DEF n
  <1>10. /\ Numbered(a \o c, changes + 1)
         /\ Blocks(rows) /\ (\A k \in DOMAIN c : c[k].reviewed \in {"pass", "warn"} => \E q : MadeBy(c, Len(rows), q))
                 => Blocks(a \o c)
    BY <1>1, <1>4, <1>6, <1>8, RowsAdded
  <1>11. Numbered(rows', changes') /\ (NamedOnce(feature.plan) => Blocks(rows'))
    BY <1>1, <1>2, <1>9, <1>10
  <1> QED
    BY <1>1, <1>2, <1>11 DEF RowsInv, Numbered, Blocks

LEMMA CliApplyStep == ASSUME DecomposeInv, CliApply PROVE RowsInv'
  <1> DEFINE p == IF DevPlanUsable THEN DevPlanTasks(feature.plan) ELSE FromCriteria(spec.lines, FALSE)
             c == CreatedFrom(p, "none")
  <1>1. ProposalInv /\ changes \in Nat /\ Numbered(rows, changes) /\ (NamedOnce(feature.plan) => Blocks(rows))
    BY DEF DecomposeInv, RowsInv
  <1>2. rows' = rows \o c /\ changes' = changes + 1 /\ feature' = feature
    BY DEF CliApply
  <1>3. IsList(p)
    <2>1. IsList(DevPlanTasks(feature.plan))
      BY <1>1, GivenDocuments, DevPlanIsList DEF ProposalInv
    <2>2. IsList(FromCriteria(spec.lines, FALSE))
      BY <1>1, FromCriteriaIs DEF ProposalInv, GoodTasks
    <2> QED BY <2>1, <2>2
  <1> HIDE DEF p
  <1>4. IsList(c) /\ \A k \in DOMAIN c : c[k].plan = changes /\ c[k].reviewed = "none"
    BY <1>3, Created
  <1>5. IsList(rows) /\ \A j \in DOMAIN rows : SameRow(rows[j], rows[j])
    BY <1>1 DEF Numbered, SameRow
  <1> HIDE DEF c
  <1>6. \A k \in DOMAIN c : c[k].reviewed \in {"pass", "warn"} => \E q : MadeBy(c, Len(rows), q)
    BY <1>4
  <1>7. Numbered(rows \o c, changes + 1) /\ (Blocks(rows) => Blocks(rows \o c))
    <2>1. /\ Numbered(rows \o c, changes + 1)
          /\ Blocks(rows) /\ (\A k \in DOMAIN c : c[k].reviewed \in {"pass", "warn"} => \E q : MadeBy(c, Len(rows), q))
                 => Blocks(rows \o c)
      BY <1>1, <1>4, <1>5, RowsAdded
    <2> QED BY <1>6, <2>1
  <1>8. Numbered(rows', changes') /\ (NamedOnce(feature.plan) => Blocks(rows'))
    BY <1>1, <1>2, <1>7
  <1> QED
    BY <1>1, <1>2, <1>8 DEF RowsInv, Numbered, Blocks

LEMMA StatusStep ==
    ASSUME DecomposeInv, NEW i \in DOMAIN rows, Promoted(i) \/ TaskFinished(i) PROVE RowsInv'
  <1>1. changes \in Nat /\ Numbered(rows, changes) /\ (NamedOnce(feature.plan) => Blocks(rows))
    BY DEF DecomposeInv, RowsInv
  <1>2. changes' = changes /\ feature' = feature
        /\ \E s : rows' = [rows EXCEPT ![i].status = s]
    BY DEF Promoted, TaskFinished
  <1>3. PICK s : rows' = [rows EXCEPT ![i].status = s]
    BY <1>2
  <1>4. DOMAIN rows = 1..Len(rows) /\ Len(rows) \in Nat
    BY <1>1, ListLength DEF Numbered
  <1>5. DOMAIN rows' = 1..Len(rows) /\ rows' = [j \in 1..Len(rows) |-> rows'[j]]
    BY <1>3, <1>4
  <1>6. ASSUME NEW j \in DOMAIN rows PROVE SameRow(rows'[j], rows[j])
    <2>1. rows'[j] = IF j = i THEN [rows[i] EXCEPT !.status = s] ELSE rows[j]
      BY <1>3, <1>4
    <2> QED BY <2>1 DEF SameRow
  <1>7. IsList(rows')
    BY <1>4, <1>5, MadeList
  <1>8. Numbered(rows', changes) /\ (Blocks(rows) => Blocks(rows'))
    BY <1>1, <1>4, <1>5, <1>6, <1>7, SameRows
  <1>9. Numbered(rows', changes') /\ (NamedOnce(feature.plan) => Blocks(rows'))
    BY <1>1, <1>2, <1>8
  <1> QED
    BY <1>1, <1>2, <1>9 DEF RowsInv, Numbered, Blocks

LEMMA ProposalKept ==
    ASSUME ProposalInv, UNCHANGED <<feature, spec, proposal, verdict>> PROVE ProposalInv'
  BY DEF ProposalInv

LEMMA RowsUnchanged ==
    ASSUME RowsInv, UNCHANGED <<feature, rows, changes>> PROVE RowsInv'
  BY DEF RowsInv, Numbered, Blocks

LEMMA DecomposeStep == ASSUME DecomposeInv, [DecomposeNext]_dvars PROVE DecomposeInv'
  <1>1. ProposalInv /\ RowsInv
    BY DEF DecomposeInv
  <1>2. CASE \E paired \in BOOLEAN : Propose(paired)
    <2>1. PICK paired \in BOOLEAN : Propose(paired)
      BY <1>2
    <2>2. UNCHANGED <<feature, rows, changes>>
      BY <2>1 DEF Propose
    <2> QED BY <1>1, <2>1, <2>2, ProposeStep, RowsUnchanged DEF DecomposeInv
  <1>3. CASE Review
    <2>1. UNCHANGED <<feature, rows, changes>>
      BY <1>3 DEF Review
    <2> QED BY <1>1, <1>3, <2>1, ReviewStep, RowsUnchanged DEF DecomposeInv
  <1>4. CASE Slice \/ ApprovePlan \/ UNCHANGED dvars
    <2>1. UNCHANGED <<feature, spec, proposal, verdict>> /\ UNCHANGED <<feature, rows, changes>>
      BY <1>4 DEF Slice, ApprovePlan, dvars
    <2> QED BY <1>1, <2>1, ProposalKept, RowsUnchanged DEF DecomposeInv
  <1>5. CASE ApproveSpec
    <2>1. spec'.lines = spec.lines
      BY <1>5 DEF ApproveSpec
    <2>2. UNCHANGED <<feature, proposal, verdict>> /\ UNCHANGED <<feature, rows, changes>>
      BY <1>5 DEF ApproveSpec
    <2>3. ProposalInv'
      BY <1>1, <2>1, <2>2 DEF ProposalInv
    <2> QED BY <1>1, <2>2, <2>3, RowsUnchanged DEF DecomposeInv
  <1>6. CASE \E s \in feature.later : EditSpec(s)
    <2>1. PICK s \in feature.later : EditSpec(s)
      BY <1>6
    <2>2. spec'.lines = s /\ UNCHANGED <<feature, proposal, verdict, rows>> /\ changes' = changes + 1
      BY <2>1 DEF EditSpec
    <2>3. Read(s)
      BY <1>1, <2>1, GivenDocuments DEF ProposalInv
    <2>4. ProposalInv'
      BY <1>1, <2>2, <2>3 DEF ProposalInv
    <2>5. changes' \in Nat /\ Numbered(rows, changes')
      <3>1. changes \in Nat /\ Numbered(rows, changes)
        BY <1>1 DEF RowsInv
      <3>2. \A k \in Nat : k < changes => k < changes'
        BY <2>2, <3>1
      <3> QED BY <2>2, <3>1, <3>2 DEF Numbered
    <2>6. RowsInv'
      BY <1>1, <2>2, <2>5 DEF RowsInv, Numbered, Blocks
    <2> QED BY <2>4, <2>6 DEF DecomposeInv
  <1>7. CASE Apply
    <2>1. UNCHANGED <<feature, spec, proposal, verdict>>
      BY <1>7 DEF Apply
    <2> QED BY <1>1, <1>7, <2>1, ProposalKept, ApplyStep DEF DecomposeInv
  <1>8. CASE CliApply
    <2>1. UNCHANGED <<feature, spec, proposal, verdict>>
      BY <1>8 DEF CliApply
    <2> QED BY <1>1, <1>8, <2>1, ProposalKept, CliApplyStep DEF DecomposeInv
  <1>9. CASE \E n \in 1..MaxRows : ApplyCut(n)
    <2>1. PICK n \in 1..MaxRows : ApplyCut(n)
      BY <1>9
    <2>2. UNCHANGED <<feature, spec, proposal, verdict>>
      BY <2>1 DEF ApplyCut
    <2> QED BY <1>1, <2>1, <2>2, ProposalKept, ApplyCutStep DEF DecomposeInv
  <1>10. CASE \E i \in DOMAIN rows : Promoted(i) \/ TaskFinished(i)
    <2>1. PICK i \in DOMAIN rows : Promoted(i) \/ TaskFinished(i)
      BY <1>10
    <2>2. UNCHANGED <<feature, spec, proposal, verdict>>
      BY <2>1 DEF Promoted, TaskFinished
    <2> QED BY <1>1, <2>1, <2>2, ProposalKept, StatusStep DEF DecomposeInv
  <1> QED
    BY <1>2, <1>3, <1>4, <1>5, <1>6, <1>7, <1>8, <1>9, <1>10 DEF DecomposeNext

LEMMA DecomposeInvariant == DecomposeSpec => []DecomposeInv
  <1>1. DecomposeInit => DecomposeInv
    BY DecomposeStarts
  <1>2. DecomposeInv /\ [DecomposeNext]_dvars => DecomposeInv'
    BY DecomposeStep
  <1> QED
    BY <1>1, <1>2, PTL DEF DecomposeSpec

(* Of the tasks created from a reviewed proposal no two pieces of work     *)
(* wait for each other (checkCycles), whatever the documents say, but for  *)
(* a dev-plan that names a dependency twice.                               *)
THEOREM NoWorkWaitsInACircle == DecomposeSpec => []WorkNeverWaitsInACircle
  <1>1. ASSUME DecomposeInv PROVE WorkNeverWaitsInACircle
    <2>1. Indexed(rows)
      BY <1>1, ListLength DEF DecomposeInv, RowsInv, Numbered, Indexed
    <2>2. ASSUME NamedOnce(feature.plan) PROVE ~HasCycle(Awaited(rows))
      <3>1. Blocks(rows)
        BY <1>1, <2>2 DEF DecomposeInv, RowsInv
      <3> QED BY <2>1, <3>1, NoCircleAmong DEF Blocks
    <2> QED BY <2>2, CircleIs
  <1>2. DecomposeInv => WorkNeverWaitsInACircle
    BY <1>1
  <1> QED
    BY <1>2, DecomposeInvariant, PTL

(* What propose made of the criteria passes the review as long as the      *)
(* specification is the one it was made of (generateProposal, checkGaps).  *)
THEOREM OwnProposalsGoThrough == DecomposeSpec => OwnProposalsPass
  <1> DEFINE Passes == /\ proposal.source = "criteria" /\ proposal.lines = spec.lines
                       /\ proposal' = proposal /\ verdict' # verdict
                       => verdict' # "fail"
  <1>1. ASSUME DecomposeInv, DecomposeNext, proposal.source = "criteria", proposal.lines = spec.lines,
               verdict' # verdict
        PROVE  verdict' # "fail"
    <2>1. Review \/ \E paired \in BOOLEAN : Propose(paired)
      BY <1>1 DEF DecomposeNext, Slice, Apply, CliApply, ApproveSpec, ApprovePlan, ApplyCut, Promoted,
                  TaskFinished, EditSpec
    <2>2. CASE Review
      <3>1. verdict' = ReviewOf(spec.lines, proposal.tasks)
        BY <2>2 DEF Review
      <3>2. PICK paired : proposal.tasks = FromCriteria(spec.lines, paired)
        BY <1>1 DEF DecomposeInv, ProposalInv
      <3>3. Read(spec.lines)
        BY <1>1 DEF DecomposeInv, ProposalInv
      <3> QED BY <3>1, <3>2, <3>3, OwnProposal
    <2>3. ASSUME NEW paired \in BOOLEAN, Propose(paired) PROVE verdict' # "fail"
      BY <2>3 DEF Propose
    <2> QED BY <2>1, <2>2, <2>3
  <1>2. ASSUME DecomposeInv, [DecomposeNext]_dvars PROVE [Passes]_dvars
    <2>1. CASE UNCHANGED dvars
      BY <2>1
    <2>2. CASE DecomposeNext
      BY <1>1, <1>2, <2>2
    <2> QED BY <1>2, <2>1, <2>2
  <1>3. DecomposeInv /\ [DecomposeNext]_dvars => [Passes]_dvars
    BY <1>2
  <1> HIDE DEF Passes
  <1>4. []DecomposeInv /\ [][DecomposeNext]_dvars => [][Passes]_dvars
    BY <1>3, PTL
  <1>5. DecomposeSpec => [][Passes]_dvars
    BY <1>4, DecomposeInvariant DEF DecomposeSpec
  <1> QED
    BY <1>5 DEF OwnProposalsPass, Passes
=============================================================================
