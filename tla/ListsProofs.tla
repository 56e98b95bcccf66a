------------------------------ MODULE ListsProofs ------------------------------
(***************************************************************************)
(* What joining and filtering lists leave, for every list.  No induction      *)
(* rule to cite (those of the library take an operator), so the proofs     *)
(* take the least counterexample, which WFMin provides, and refute it.     *)
(***************************************************************************)
EXTENDS Lists, SequencesExt, FiniteSetTheorems, WellFoundedInduction, TLAPS

(* A non-empty set of natural numbers has a least member.                  *)
LEMMA LeastNatural ==
    ASSUME NEW T, T \subseteq Nat, T # {}
    PROVE  \E x \in T : \A y \in T : x <= y
<1> DEFINE R == OpToRel(<, Nat)
<1>1. IsWellFoundedOn(R, Nat)
  BY NatLessThanWellFounded
<1>2. \A x, y \in Nat : x < y => <<x, y>> \in R
  BY DEF OpToRel
<1> HIDE DEF R
<1>3. \E x \in T : \A y \in T : ~ (<<y, x>> \in R)
  BY <1>1, WFMin
<1>4. \A x, y \in Nat : ~(x < y) => y <= x
  OBVIOUS
<1> QED BY <1>2, <1>3, <1>4

(* Of finitely many there is a greatest: one that has most below it.       *)
LEMMA GreatestExists ==
    ASSUME NEW S, IsFiniteSet(S), S # {}, NEW f, \A s \in S : f[s] \in Nat
    PROVE  \E t \in S : \A u \in S : f[u] <= f[t]
<1> DEFINE Below(t) == {u \in S : f[u] < f[t]}
<1> DEFINE Above == {Cardinality(S) - Cardinality(Below(t)) : t \in S}
<1>1. Cardinality(S) \in Nat
  BY FS_CardinalityType
<1>2. \A t \in S : /\ IsFiniteSet(Below(t))
                   /\ Cardinality(Below(t)) \in Nat
                   /\ Cardinality(Below(t)) <= Cardinality(S)
  <2> TAKE t \in S
  <2>1. Below(t) \in SUBSET S
    OBVIOUS
  <2> HIDE DEF Below
  <2> QED BY <2>1, FS_Subset, FS_CardinalityType
<1>3. Above \subseteq Nat /\ Above # {}
  <2> HIDE DEF Below
  <2> QED BY <1>1, <1>2
<1>4. PICK x \in Above : \A y \in Above : x <= y
  <2> HIDE DEF Above
  <2> QED BY <1>3, LeastNatural
<1>5. PICK t \in S : x = Cardinality(S) - Cardinality(Below(t))
  BY <1>4
<1>6. SUFFICES ASSUME NEW u \in S, f[t] < f[u] PROVE FALSE
  BY <1>5
<1>7. Below(t) \in SUBSET Below(u) /\ t \in Below(u) /\ t \notin Below(t)
  BY <1>6
<1>8. Cardinality(Below(t)) < Cardinality(Below(u))
  <2> HIDE DEF Below
  <2> QED BY <1>2, <1>7, FS_Subset
<1>9. x <= Cardinality(S) - Cardinality(Below(u))
  <2> HIDE DEF Below
  <2>1. Cardinality(S) - Cardinality(Below(u)) \in Above
    OBVIOUS
  <2> QED BY <1>4, <2>1
<1> HIDE DEF Below
<1> QED BY <1>1, <1>2, <1>5, <1>8, <1>9

(* What holds at one end of an interval, and of each number that follows   *)
(* one it holds of, holds all along.                                       *)
LEMMA IntervalInduction ==
    ASSUME NEW lo \in Nat, NEW hi \in Nat, lo <= hi,
           NEW G, lo \in G, \A n \in lo .. hi : n + 1 \in lo .. hi /\ n \in G => n + 1 \in G
    PROVE  \A n \in lo .. hi : n \in G
<1> DEFINE Bad == (lo .. hi) \ G
<1> SUFFICES ASSUME Bad # {} PROVE FALSE
  OBVIOUS
<1>1. PICK m \in Bad : \A k \in Bad : m <= k
  <2>1. Bad \subseteq Nat
    OBVIOUS
  <2> HIDE DEF Bad
  <2> QED BY <2>1, LeastNatural
<1>2. m \in lo .. hi /\ m # lo /\ m - 1 \in lo .. hi /\ (m - 1) + 1 = m /\ ~(m <= m - 1)
  OBVIOUS
<1>3. m - 1 \in G
  BY <1>1, <1>2
<1> QED BY <1>2, <1>3

(* f[n] is what n - lo steps make of base.                                 *)
Stepwise(f, lo, hi, base, step) ==
    \A n \in lo .. hi : f[n] = IF n = lo THEN base ELSE step[f[n - 1]]

(* What is computed step by step has a value after any number of steps.    *)
LEMMA StepsExist ==
    ASSUME NEW lo \in Nat, NEW hi \in Nat, lo <= hi,
           NEW T, NEW base \in T, NEW step \in [T -> T]
    PROVE  \E f \in [lo .. hi -> T] : Stepwise(f, lo, hi, base, step)
<1> DEFINE Upto(m) == \E f \in [lo .. m -> T] :
               \A n \in lo .. m : f[n] = IF n = lo THEN base ELSE step[f[n - 1]]
           G == {m \in lo .. hi : Upto(m)}
<1>1. lo \in G
  <2> DEFINE f == [n \in lo .. lo |-> base]
  <2>1. f \in [lo .. lo -> T]
    OBVIOUS
  <2>2. \A n \in lo .. lo : n = lo /\ f[n] = base
    OBVIOUS
  <2> HIDE DEF f
  <2>3. Upto(lo)
    BY <2>1, <2>2
  <2> QED BY <2>3
<1>2. ASSUME NEW m \in lo .. hi, m + 1 \in lo .. hi, Upto(m)
      PROVE  Upto(m + 1)
  <2>1. PICK g \in [lo .. m -> T] :
            \A n \in lo .. m : g[n] = IF n = lo THEN base ELSE step[g[n - 1]]
    BY <1>2
  <2> DEFINE f == [n \in lo .. m + 1 |-> IF n = m + 1 THEN step[g[m]] ELSE g[n]]
  <2>2. \A n \in lo .. m + 1 : n = m + 1 \/ n \in lo .. m
    OBVIOUS
  <2>3. g[m] \in T /\ step[g[m]] \in T
    OBVIOUS
  <2>4. f \in [lo .. m + 1 -> T]
    BY <2>2, <2>3
  <2>5. \A n \in lo .. m : n \in lo .. m + 1 /\ n # m + 1 /\ (n # lo => n - 1 \in lo .. m)
    OBVIOUS
  <2>6. f[m + 1] = step[g[m]] /\ \A n \in lo .. m : f[n] = g[n]
    BY <2>5
  <2> HIDE DEF f
  <2>7. ASSUME NEW n \in lo .. m + 1
        PROVE  f[n] = IF n = lo THEN base ELSE step[f[n - 1]]
    <3>1. CASE n = m + 1
      BY <2>6, <3>1
    <3>2. CASE n # m + 1
      BY <2>1, <2>2, <2>5, <2>6, <3>2
    <3> QED BY <3>1, <3>2
  <2> QED BY <2>4, <2>7
<1>3. \A m \in lo .. hi : m \in G
  <2>1. \A m \in lo .. hi : m + 1 \in lo .. hi /\ m \in G => m + 1 \in G
    BY <1>2
  <2> HIDE DEF G
  <2> QED BY <1>1, <2>1, IntervalInduction
<1>4. hi \in lo .. hi
  OBVIOUS
<1> QED BY <1>3, <1>4 DEF Stepwise

(* One step of the join, g being the join of fewer of the lists.           *)
JoinNext(lists, g, n) == IF n = 0 THEN <<>> ELSE g[n - 1] \o lists[n]

(* The recursive definition of the join has a solution.                    *)
LEMMA JoinExists ==
    ASSUME NEW lists, Len(lists) \in Nat
    PROVE  \E f : f = [n \in 0 .. Len(lists) |-> JoinNext(lists, f, n)]
<1> DEFINE Bad == {m \in 0 .. Len(lists) :
                      ~\E f : f = [n \in 0 .. m |-> JoinNext(lists, f, n)]}
<1>1. SUFFICES ASSUME Bad # {} PROVE FALSE
  OBVIOUS
<1>2. PICK m \in Bad : \A k \in Bad : m <= k
  <2>1. Bad \subseteq Nat
    OBVIOUS
  <2> HIDE DEF Bad
  <2> QED BY <1>1, <2>1, LeastNatural
<1>3. m # 0
  <2> SUFFICES ASSUME m = 0 PROVE FALSE
    OBVIOUS
  <2> DEFINE f == [n \in 0 .. 0 |-> <<>>]
  <2>1. f = [n \in 0 .. m |-> JoinNext(lists, f, n)]
    BY DEF JoinNext
  <2> QED BY <2>1
<1>4. PICK g : g = [n \in 0 .. m - 1 |-> JoinNext(lists, g, n)]
  <2>1. m - 1 \in 0 .. Len(lists) /\ m - 1 \notin Bad
    BY <1>2, <1>3
  <2> QED BY <2>1
<1> DEFINE h == [n \in 0 .. m |-> JoinNext(lists, g, n)]
<1>5. \A n \in 0 .. m : JoinNext(lists, h, n) = JoinNext(lists, g, n)
  <2> TAKE n \in 0 .. m
  <2>1. CASE n = 0
    BY <2>1 DEF JoinNext
  <2>2. CASE n # 0
    <3>1. n - 1 \in 0 .. m - 1 /\ n - 1 \in 0 .. m
      BY <2>2
    <3>2. h[n - 1] = g[n - 1]
      BY <1>4, <3>1
    <3> HIDE DEF h
    <3> QED BY <2>2, <3>2 DEF JoinNext
  <2> QED BY <2>1, <2>2
<1>6. h = [n \in 0 .. m |-> JoinNext(lists, h, n)]
  BY <1>5
<1> QED BY <1>6

(* And Joined is its value for all the lists.                              *)
LEMMA JoinUnfolds ==
    ASSUME NEW lists, Len(lists) \in Nat
    PROVE  \E f : /\ f = [n \in 0 .. Len(lists) |-> JoinNext(lists, f, n)]
                  /\ Joined(lists) = f[Len(lists)]
<1> DEFINE F == CHOOSE f : f = [n \in 0 .. Len(lists) |-> JoinNext(lists, f, n)]
<1>1. Joined(lists) = F[Len(lists)]
  BY DEF Joined, JoinNext
<1>2. F = [n \in 0 .. Len(lists) |-> JoinNext(lists, F, n)]
  BY JoinExists
<1> QED BY <1>1, <1>2

(* Concatenating adds the members of the second list.                      *)
LEMMA MembersConcat ==
    ASSUME NEW S, NEW s \in Seq(S), NEW t \in Seq(S)
    PROVE  /\ s \o t \in Seq(S)
           /\ ToSet(s \o t) = ToSet(s) \cup ToSet(t)
<1> DEFINE both == s \o t
<1>1. /\ both \in Seq(S) /\ Len(both) = Len(s) + Len(t)
      /\ \A i \in 1 .. Len(s) : both[i] = s[i]
      /\ \A i \in 1 .. Len(t) : both[Len(s) + i] = t[i]
      /\ Len(s) \in Nat /\ Len(t) \in Nat
  OBVIOUS
<1>2. \A i \in 1 .. Len(s) + Len(t) :
          i \in 1 .. Len(s) \/ (i - Len(s) \in 1 .. Len(t) /\ Len(s) + (i - Len(s)) = i)
  BY <1>1
<1>3. \A i \in 1 .. Len(t) : Len(s) + i \in 1 .. Len(s) + Len(t)
  BY <1>1
<1>4. 1 .. Len(s) \subseteq 1 .. Len(s) + Len(t)
  BY <1>1
<1> HIDE DEF both
<1>5. ASSUME NEW x \in ToSet(both) PROVE x \in ToSet(s) \cup ToSet(t)
  <2>1. PICK i \in 1 .. Len(s) + Len(t) : x = both[i]
    BY <1>1 DEF ToSet
  <2>2. CASE i \in 1 .. Len(s)
    BY <1>1, <2>1, <2>2 DEF ToSet
  <2>3. CASE i \notin 1 .. Len(s)
    <3>1. i - Len(s) \in 1 .. Len(t) /\ both[Len(s) + (i - Len(s))] = both[i]
      BY <1>2, <2>3
    <3>2. x = t[i - Len(s)]
      BY <1>1, <2>1, <3>1
    <3> QED BY <3>1, <3>2 DEF ToSet
  <2> QED BY <2>2, <2>3
<1>6. ASSUME NEW i \in 1 .. Len(s) PROVE s[i] \in ToSet(both)
  BY <1>1, <1>4 DEF ToSet
<1>7. ASSUME NEW i \in 1 .. Len(t) PROVE t[i] \in ToSet(both)
  BY <1>1, <1>3 DEF ToSet
<1>8. ToSet(s) \cup ToSet(t) \subseteq ToSet(both)
  BY <1>6, <1>7 DEF ToSet
<1> QED BY <1>1, <1>5, <1>8 DEF both

(* It begins with the first, and is as long as the two.                    *)
LEMMA ShapeOfConcat ==
    ASSUME NEW S, NEW s \in Seq(S), NEW t \in Seq(S), s # <<>>
    PROVE  /\ Len(s \o t) = Len(s) + Len(t)
           /\ Head(s \o t) = Head(s)
OBVIOUS

(* A list with one more member in front.                                   *)
LEMMA OneInFront ==
    ASSUME NEW S, NEW x \in S, NEW s \in Seq(S)
    PROVE  /\ <<x>> \o s \in Seq(S)
           /\ Len(<<x>> \o s) = Len(s) + 1
           /\ Head(<<x>> \o s) = x
           /\ ToSet(<<x>> \o s) = {x} \cup ToSet(s)
<1> DEFINE first == <<x>>
           t == first \o s
<1>1. /\ first \in Seq(S) /\ first # <<>>
      /\ Len(first) = 1 /\ Head(first) = x /\ ToSet(first) = {x}
  BY DEF ToSet
<1> HIDE DEF first
<1>2. t \in Seq(S) /\ ToSet(t) = ToSet(first) \cup ToSet(s)
  BY <1>1, MembersConcat
<1>3. Len(t) = Len(first) + Len(s) /\ Head(t) = Head(first)
  BY <1>1, ShapeOfConcat
<1>4. Len(s) \in Nat
  OBVIOUS
<1> HIDE DEF t
<1>5. Len(t) = Len(s) + 1 /\ Head(t) = x
  BY <1>1, <1>3, <1>4
<1>6. t = <<x>> \o s
  BY DEF t, first
<1> QED BY <1>1, <1>2, <1>5, <1>6

(* Joining lists gives a list of the members of all of them.               *)
LEMMA JoinedMembers ==
    ASSUME NEW S, NEW lists, Len(lists) \in Nat,
           \A i \in 1 .. Len(lists) : lists[i] \in Seq(S)
    PROVE  /\ Joined(lists) \in Seq(S)
           /\ ToSet(Joined(lists)) = UNION {ToSet(lists[i]) : i \in 1 .. Len(lists)}
<1>1. PICK f : /\ f = [n \in 0 .. Len(lists) |-> JoinNext(lists, f, n)]
               /\ Joined(lists) = f[Len(lists)]
  BY JoinUnfolds
<1> DEFINE Upto(n) == UNION {ToSet(lists[i]) : i \in 1 .. n}
           Good(n) == f[n] \in Seq(S) /\ ToSet(f[n]) = Upto(n)
           Bad == {m \in 0 .. Len(lists) : ~Good(m)}
<1>2. Good(0)
  <2>1. f[0] = <<>> /\ <<>> \in Seq(S)
    BY <1>1 DEF JoinNext
  <2>2. ToSet(<<>>) = {}
    BY DEF ToSet
  <2>3. Upto(0) = {}
    OBVIOUS
  <2> QED BY <2>1, <2>2, <2>3
<1>3. ASSUME NEW m \in 1 .. Len(lists), Good(m - 1) PROVE Good(m)
  <2>1. f[m] = f[m - 1] \o lists[m]
    <3>1. m \in 0 .. Len(lists) /\ m # 0
      OBVIOUS
    <3>2. f[m] = JoinNext(lists, f, m)
      BY <1>1, <3>1
    <3> QED BY <3>1, <3>2 DEF JoinNext
  <2>2. \A i : i \in 1 .. m <=> (i \in 1 .. m - 1 \/ i = m)
    OBVIOUS
  <2>3. Upto(m) = Upto(m - 1) \cup ToSet(lists[m])
    BY <2>2, Zenon
  <2> HIDE DEF Upto
  <2>4. f[m] \in Seq(S) /\ ToSet(f[m]) = ToSet(f[m - 1]) \cup ToSet(lists[m])
    BY <1>3, <2>1, MembersConcat
  <2> QED BY <1>3, <2>3, <2>4
<1>4. Bad = {}
  <2> SUFFICES ASSUME Bad # {} PROVE FALSE
    OBVIOUS
  <2>1. PICK m \in Bad : \A k \in Bad : m <= k
    <3>1. Bad \subseteq Nat
      OBVIOUS
    <3> HIDE DEF Bad
    <3> QED BY <3>1, LeastNatural
  <2>2. m \in 0 .. Len(lists) /\ ~Good(m)
    OBVIOUS
  <2> HIDE DEF Good
  <2>3. m \in 1 .. Len(lists) /\ m - 1 \notin Bad
    BY <1>2, <2>1, <2>2
  <2>4. Good(m - 1)
    BY <2>3
  <2> QED BY <1>3, <2>2, <2>3, <2>4
<1>5. Good(Len(lists))
  <2>1. Len(lists) \in 0 .. Len(lists)
    OBVIOUS
  <2> HIDE DEF Good
  <2> QED BY <1>4, <2>1
<1> QED BY <1>1, <1>5

(* Filtering leaves exactly the members that are to be kept.               *)
LEMMA KeptMembers ==
    ASSUME NEW S, NEW list \in Seq(S), NEW keep
    PROVE  /\ Kept(list, keep) \in Seq(S)
           /\ ToSet(Kept(list, keep)) = ToSet(list) \cap keep
<1> DEFINE one(i) == IF list[i] \in keep THEN <<list[i]>> ELSE <<>>
           lists == [i \in 1 .. Len(list) |-> one(i)]
<1>1. Len(list) \in Nat /\ \A i \in 1 .. Len(list) : list[i] \in S
  OBVIOUS
<1>2. \A x \in S : <<x>> \in Seq(S) /\ ToSet(<<x>>) = {x}
  BY DEF ToSet
<1>3. <<>> \in Seq(S) /\ ToSet(<<>>) = {}
  BY DEF ToSet
<1>4. \A i \in 1 .. Len(list) : one(i) \in Seq(S) /\ ToSet(one(i)) = {list[i]} \cap keep
  BY <1>1, <1>2, <1>3
<1>5. lists \in Seq(Seq(S)) /\ Len(lists) = Len(list)
  BY <1>1, <1>4
<1>6. \A i \in 1 .. Len(list) : lists[i] = one(i)
  OBVIOUS
<1>7. Kept(list, keep) = Joined(lists)
  BY DEF Kept
<1> HIDE DEF lists, one
<1>8. /\ Joined(lists) \in Seq(S)
      /\ ToSet(Joined(lists)) = UNION {ToSet(lists[i]) : i \in 1 .. Len(lists)}
  BY <1>1, <1>4, <1>5, <1>6, JoinedMembers
<1>9. UNION {ToSet(lists[i]) : i \in 1 .. Len(lists)} = ToSet(list) \cap keep
  <2>1. \A i \in 1 .. Len(lists) : ToSet(lists[i]) = {list[i]} \cap keep
    BY <1>4, <1>5, <1>6
  <2>2. ToSet(list) = {list[i] : i \in 1 .. Len(lists)}
    BY <1>5 DEF ToSet
  <2> QED BY <2>1, <2>2
<1> QED BY <1>7, <1>8, <1>9

(* The first member of a list, and those after it.                         *)
LEMMA MembersHeadTail ==
    ASSUME NEW S, NEW s \in Seq(S), s # <<>>
    PROVE  /\ Head(s) \in ToSet(s) /\ Head(s) \in S
           /\ Tail(s) \in Seq(S)
           /\ ToSet(s) = {Head(s)} \cup ToSet(Tail(s))
<1> DEFINE t == Tail(s)
<1>1. /\ t \in Seq(S) /\ Len(t) = Len(s) - 1 /\ Len(s) \in Nat /\ Len(s) >= 1
      /\ \A i \in 1 .. Len(s) - 1 : t[i] = s[i + 1]
      /\ Head(s) = s[1] /\ s[1] \in S
  OBVIOUS
<1> HIDE DEF t
<1>2. \A i \in 1 .. Len(s) : i = 1 \/ (i - 1 \in 1 .. Len(s) - 1 /\ (i - 1) + 1 = i)
  BY <1>1
<1>3. \A i \in 1 .. Len(s) - 1 : i + 1 \in 1 .. Len(s)
  BY <1>1
<1>4. ASSUME NEW i \in 1 .. Len(s) PROVE s[i] \in {Head(s)} \cup ToSet(t)
  <2>1. CASE i = 1
    BY <1>1, <2>1
  <2>2. CASE i # 1
    <3>1. i - 1 \in 1 .. Len(t) /\ s[i] = t[i - 1]
      BY <1>1, <1>2, <2>2
    <3> QED BY <1>1, <3>1 DEF ToSet
  <2> QED BY <2>1, <2>2
<1>5. ASSUME NEW i \in 1 .. Len(t) PROVE t[i] \in ToSet(s)
  BY <1>1, <1>3 DEF ToSet
<1>6. Head(s) \in ToSet(s)
  BY <1>1 DEF ToSet
<1>7. ToSet(s) = {s[i] : i \in 1 .. Len(s)} /\ ToSet(t) = {t[i] : i \in 1 .. Len(t)}
  BY <1>1 DEF ToSet
<1>8. ToSet(s) = {Head(s)} \cup ToSet(t)
  BY <1>4, <1>5, <1>6, <1>7
<1> QED BY <1>1, <1>6, <1>8 DEF t

(* The same from the other end.                                            *)
LEMMA Downward ==
    ASSUME NEW n \in Nat, NEW G, n \in G, \A k \in 1 .. n : k \in G => k - 1 \in G
    PROVE  \A k \in 0 .. n : k \in G
<1> DEFINE H == {j \in 0 .. n : n - j \in G}
<1>1. 0 \in H
  OBVIOUS
<1>2. ASSUME NEW j \in 0 .. n, j + 1 \in 0 .. n, j \in H PROVE j + 1 \in H
  <2>1. n - j \in 1 .. n /\ n - j \in G /\ (n - j) - 1 = n - (j + 1)
    BY <1>2
  <2> QED BY <1>2, <2>1
<1>3. 0 \in Nat /\ 0 <= n
  OBVIOUS
<1>4. \A j \in 0 .. n : j + 1 \in 0 .. n /\ j \in H => j + 1 \in H
  BY <1>2
<1>5. \A j \in 0 .. n : j \in H
  <2> HIDE DEF H
  <2> QED BY <1>1, <1>3, <1>4, IntervalInduction
<1>6. \A k \in 0 .. n : n - k \in 0 .. n /\ n - (n - k) = k
  OBVIOUS
<1> QED BY <1>5, <1>6

(* Part n of a join is what the first n of the lists make.                 *)
Partly(lists, f) ==
    /\ f[0] = <<>>
    /\ \A n \in 1 .. Len(lists) : f[n] = f[n - 1] \o lists[n]

(* Each part begins the whole.                                             *)
Begins(s, t) == Len(s) <= Len(t) /\ \A i \in 1 .. Len(s) : s[i] = t[i]
LEMMA PartsBegin ==
    ASSUME NEW S, NEW lists, Len(lists) \in Nat, NEW f, Partly(lists, f),
           \A n \in 0 .. Len(lists) : f[n] \in Seq(S),
           \A i \in 1 .. Len(lists) : lists[i] \in Seq(S)
    PROVE  \A n \in 0 .. Len(lists) :
             Begins(f[n], f[Len(lists)])
<1> DEFINE whole == f[Len(lists)]
           G == {n \in 0 .. Len(lists) : Begins(f[n], whole)}
<1>1. Len(lists) \in G
  BY DEF Begins
<1>2. ASSUME NEW n \in 1 .. Len(lists), n \in G PROVE n - 1 \in G
  <2>1. n - 1 \in 0 .. Len(lists) /\ n \in 0 .. Len(lists)
    OBVIOUS
  <2>2. PICK s \in Seq(S), t \in Seq(S) : s = f[n - 1] /\ t = lists[n]
    BY <2>1
  <2>3. f[n] = s \o t
    BY <2>2 DEF Partly
  <2>4. Len(s \o t) = Len(s) + Len(t) /\ Len(s) \in Nat /\ Len(t) \in Nat
        /\ \A i \in 1 .. Len(s) : (s \o t)[i] = s[i] /\ i \in 1 .. Len(s \o t)
    OBVIOUS
  <2>5. Len(whole) \in Nat
    OBVIOUS
  <2>6. Begins(s \o t, whole)
    BY <1>2, <2>3
  <2> HIDE DEF whole
  <2>7. Begins(s, whole)
    BY <2>4, <2>5, <2>6 DEF Begins
  <2> QED BY <2>1, <2>2, <2>7
<1> HIDE DEF G
<1>3. \A n \in 0 .. Len(lists) : n \in G
  <2>1. \A k \in 1 .. Len(lists) : k \in G => k - 1 \in G
    BY <1>2
  <2> QED BY <1>1, <2>1, Downward
<1> QED BY <1>3 DEF G

LEMMA JoinedInParts ==
    ASSUME NEW S, NEW lists, Len(lists) \in Nat,
           \A i \in 1 .. Len(lists) : lists[i] \in Seq(S)
    PROVE  \E f : /\ Partly(lists, f)
                  /\ \A n \in 0 .. Len(lists) : f[n] \in Seq(S) /\ Begins(f[n], f[Len(lists)])
                  /\ Joined(lists) = f[Len(lists)]
<1>1. PICK f : /\ f = [n \in 0 .. Len(lists) |-> JoinNext(lists, f, n)]
               /\ Joined(lists) = f[Len(lists)]
  BY JoinUnfolds
<1>2. \A n \in 0 .. Len(lists) : f[n] = JoinNext(lists, f, n)
  BY <1>1
<1>3. Partly(lists, f)
  <2>1. f[0] = <<>>
    BY <1>2 DEF JoinNext
  <2>2. ASSUME NEW n \in 1 .. Len(lists) PROVE f[n] = f[n - 1] \o lists[n]
    <3>1. n \in 0 .. Len(lists) /\ n # 0
      OBVIOUS
    <3> QED BY <1>2, <3>1 DEF JoinNext
  <2> QED BY <2>1, <2>2 DEF Partly
<1> DEFINE G == {n \in 0 .. Len(lists) : f[n] \in Seq(S)}
<1>4. 0 \in G
  <2>1. f[0] = <<>> /\ 0 \in 0 .. Len(lists)
    BY <1>3 DEF Partly
  <2>2. <<>> \in Seq(S)
    OBVIOUS
  <2> QED BY <2>1, <2>2
<1>5. ASSUME NEW n \in 0 .. Len(lists), n + 1 \in 0 .. Len(lists), n \in G PROVE n + 1 \in G
  <2>1. n + 1 \in 1 .. Len(lists) /\ (n + 1) - 1 = n
    BY <1>5
  <2>2. f[n + 1] = f[n] \o lists[n + 1] /\ f[n] \in Seq(S) /\ lists[n + 1] \in Seq(S)
    BY <1>3, <1>5, <2>1 DEF Partly
  <2>3. f[n] \o lists[n + 1] \in Seq(S)
    BY <2>2
  <2> QED BY <1>5, <2>2, <2>3
<1>6. \A n \in 0 .. Len(lists) : n \in G
  <2>1. 0 \in Nat /\ 0 <= Len(lists)
    OBVIOUS
  <2>2. \A n \in 0 .. Len(lists) : n + 1 \in 0 .. Len(lists) /\ n \in G => n + 1 \in G
    BY <1>5
  <2> HIDE DEF G
  <2> QED BY <1>4, <2>1, <2>2, IntervalInduction
<1>7. \A n \in 0 .. Len(lists) : f[n] \in Seq(S)
  BY <1>6
<1>8. \A n \in 0 .. Len(lists) : Begins(f[n], f[Len(lists)])
  BY <1>3, <1>7, PartsBegin
<1> QED BY <1>1, <1>3, <1>7, <1>8

(* A list is no longer than what it is joined into.                        *)
LEMMA NoneLonger ==
    ASSUME NEW S, NEW lists, Len(lists) \in Nat,
           \A i \in 1 .. Len(lists) : lists[i] \in Seq(S)
    PROVE  /\ Joined(lists) \in Seq(S)
           /\ \A i \in 1 .. Len(lists) : Len(lists[i]) <= Len(Joined(lists))
<1>1. PICK f : /\ Partly(lists, f)
               /\ \A n \in 0 .. Len(lists) : f[n] \in Seq(S) /\ Begins(f[n], f[Len(lists)])
               /\ Joined(lists) = f[Len(lists)]
  BY JoinedInParts
<1>2. \A n \in 0 .. Len(lists) : Len(f[n]) <= Len(f[Len(lists)])
  BY <1>1 DEF Begins
<1>3. ASSUME NEW i \in 1 .. Len(lists) PROVE Len(lists[i]) <= Len(Joined(lists))
  <2>1. i \in 0 .. Len(lists) /\ i - 1 \in 0 .. Len(lists)
    OBVIOUS
  <2>2. PICK s \in Seq(S), t \in Seq(S) : s = f[i - 1] /\ t = lists[i]
    BY <1>1, <2>1
  <2>3. f[i] = s \o t
    BY <1>1, <2>2 DEF Partly
  <2>4. Len(s \o t) = Len(s) + Len(t) /\ Len(s) \in Nat /\ Len(t) \in Nat
    OBVIOUS
  <2>5. Len(s \o t) <= Len(Joined(lists))
    <3>1. Len(f[i]) <= Len(f[Len(lists)])
      BY <1>2, <2>1
    <3> QED BY <1>1, <2>3, <3>1
  <2>6. Joined(lists) \in Seq(S)
    BY <1>1
  <2>7. Len(Joined(lists)) \in Nat
    BY <2>6
  <2>8. Len(t) <= Len(Joined(lists))
    <3> DEFINE m == Len(Joined(lists))
               l == Len(s \o t)
    <3>1. l = Len(s) + Len(t) /\ l <= m /\ m \in Nat
      BY <2>4, <2>5, <2>7
    <3> HIDE DEF m, l
    <3>2. Len(t) <= m
      BY <2>4, <3>1
    <3> QED BY <3>2 DEF m
  <2> QED BY <2>2, <2>8
<1>4. Joined(lists) \in Seq(S)
  BY <1>1
<1> QED BY <1>3, <1>4

=============================================================================
