---------------------------- MODULE TaskQueueProofs ----------------------------
(***************************************************************************)
(* Proofs about the task queue: that its slice and its map hold the same   *)
(* tasks, and that no two fresh pending tasks have one dedup_key, however  *)
(* submissions, changes, removals and restarts follow one another; and     *)
(* that the insertion sort hands tasks out by priority and age.            *)
(***************************************************************************)
EXTENDS TaskQueue, FiniteSetTheorems, SequenceTheorems, WellFoundedInduction, TLAPS

------------------------------------------------------------------------------
(* Sequences without repetitions *)

(* In a sequence without repetitions, RemoveFirst removes at the only   *)
(* place where the element is.                                          *)
LEMMA PlaceFound ==
  ASSUME NEW S, NEW s \in Seq(S), IsInjective(s), NEW i \in 1..Len(s)
  PROVE  RemoveFirst(s, s[i]) = SubSeq(s, 1, i - 1) \o SubSeq(s, i + 1, Len(s))
<1> DEFINE I == {j \in 1..Len(s) : s[j] = s[i]}
<1>1. I = {i}
  BY LenProperties DEF IsInjective
<1>2. SelectInSeq(s, LAMBDA v : v = s[i]) = i
  <2>1. SelectInSeq(s, LAMBDA v : v = s[i]) = IF I # {} THEN Min(I) ELSE 0
    BY DEF SelectInSeq
  <2>2. Min({i}) = i
    BY DEF Min
  <2> QED
    BY <1>1, <2>1, <2>2
<1> QED
  BY <1>2 DEF RemoveFirst, RemoveAt

(* What comes after the removed element moves up by one.                *)
LEMMA RemoveFirstShifts ==
  ASSUME NEW S, NEW s \in Seq(S), IsInjective(s), NEW i \in 1..Len(s), NEW r,
         r = RemoveFirst(s, s[i])
  PROVE  /\ r \in Seq(S) /\ Len(r) = Len(s) - 1
         /\ \A j \in 1..Len(s) - 1 : r[j] = IF j < i THEN s[j] ELSE s[j + 1]
<1> DEFINE front == SubSeq(s, 1, i - 1)
           back == SubSeq(s, i + 1, Len(s))
<1>1. Len(s) \in Nat /\ \A j \in 1..Len(s) : s[j] \in S
  BY LenProperties, ElementOfSeq
<1>2. /\ front \in Seq(S) /\ Len(front) = i - 1
      /\ \A j \in 1..i - 1 : front[j] = s[j]
  <2>1. \A j \in 1..i - 1 : s[j] \in S
    BY <1>1
  <2>2. 1 \in Int /\ i - 1 \in Int
    BY <1>1
  <2>3. /\ front \in Seq(S)
        /\ Len(front) = IF 1 <= i - 1 THEN (i - 1) - 1 + 1 ELSE 0
        /\ \A j \in 1..(i - 1) - 1 + 1 : front[j] = s[1 + j - 1]
    BY <2>1, <2>2, SubSeqProperties
  <2> HIDE DEF front
  <2> QED
    BY <1>1, <2>3
<1>3. /\ back \in Seq(S) /\ Len(back) = Len(s) - i
      /\ \A j \in 1..Len(s) - i : back[j] = s[i + j]
  <2>1. \A j \in i + 1..Len(s) : s[j] \in S
    BY <1>1
  <2>2. i + 1 \in Int /\ Len(s) \in Int
    BY <1>1
  <2>3. /\ back \in Seq(S)
        /\ Len(back) = IF i + 1 <= Len(s) THEN Len(s) - (i + 1) + 1 ELSE 0
        /\ \A j \in 1..Len(s) - (i + 1) + 1 : back[j] = s[(i + 1) + j - 1]
    BY <2>1, <2>2, SubSeqProperties
  <2> HIDE DEF back
  <2> QED
    BY <1>1, <2>3
<1>4. r = front \o back
  BY PlaceFound
<1> HIDE DEF front, back
<1>5. front \o back \in Seq(S) /\ Len(front \o back) = Len(front) + Len(back)
  BY <1>2, <1>3, ConcatProperties
<1>6. ASSUME NEW j \in 1..Len(s) - 1
      PROVE  (front \o back)[j] = IF j < i THEN s[j] ELSE s[j + 1]
  <2>1. j \in 1..Len(front) + Len(back)
    BY <1>1, <1>2, <1>3
  <2>2. (front \o back)[j] = IF j <= Len(front) THEN front[j] ELSE back[j - Len(front)]
    BY <1>2, <1>3, <2>1, ConcatProperties
  <2>3. CASE j < i
    <3>1. j <= Len(front) /\ j \in 1..i - 1
      BY <1>1, <1>2, <2>3
    <3>2. (front \o back)[j] = front[j]
      BY <2>2, <3>1
    <3> QED
      BY <1>2, <2>3, <3>1, <3>2
  <2>4. CASE ~(j < i)
    <3>1. ~(j <= Len(front)) /\ j - Len(front) \in 1..Len(s) - i
      BY <1>1, <1>2, <2>4
    <3>2. i + (j - Len(front)) = j + 1
      BY <1>1, <1>2
    <3>3. (front \o back)[j] = back[j - Len(front)]
      BY <2>2, <3>1
    <3>4. back[j - Len(front)] = s[i + (j - Len(front))]
      BY <1>3, <3>1
    <3> QED
      BY <2>4, <3>2, <3>3, <3>4
  <2> QED
    BY <2>3, <2>4
<1>7. Len(front) + Len(back) = Len(s) - 1
  BY <1>1, <1>2, <1>3
<1> QED
  BY <1>4, <1>5, <1>6, <1>7

(* Removal keeps a sequence free of repetitions and takes exactly the   *)
(* element away.                                                        *)
LEMMA RemoveFirstRemoves ==
  ASSUME NEW S, NEW s \in Seq(S), IsInjective(s), NEW e \in ToSet(s), NEW r,
         r = RemoveFirst(s, e)
  PROVE  r \in Seq(S) /\ IsInjective(r) /\ ToSet(r) = ToSet(s) \ {e}
<1>1. Len(s) \in Nat /\ DOMAIN s = 1..Len(s)
  BY LenProperties
<1>2. PICK i \in 1..Len(s) : e = s[i]
  BY <1>1 DEF ToSet
<1>3. /\ r \in Seq(S) /\ Len(r) = Len(s) - 1
      /\ \A j \in 1..Len(s) - 1 : r[j] = IF j < i THEN s[j] ELSE s[j + 1]
  <2>1. r = RemoveFirst(s, s[i]) BY <1>2
  <2> QED BY <1>2, <2>1, RemoveFirstShifts DEF IsInjective
<1>4. DOMAIN r = 1..Len(s) - 1
  BY <1>3, LenProperties
<1>5. \A j, k \in 1..Len(s) : s[j] = s[k] => j = k
  BY <1>1 DEF IsInjective
<1>6. IsInjective(r)
  <2> SUFFICES ASSUME NEW j \in 1..Len(s) - 1, NEW k \in 1..Len(s) - 1, r[j] = r[k]
               PROVE  j = k
    BY <1>4 DEF IsInjective
  <2> DEFINE from(n) == IF n < i THEN n ELSE n + 1
  <2>1. from(j) \in 1..Len(s) /\ from(k) \in 1..Len(s)
    BY <1>1
  <2>2. r[j] = s[from(j)] /\ r[k] = s[from(k)]
    BY <1>3
  <2>3. from(j) = from(k)
    <3> HIDE DEF from
    <3> QED
      BY <1>5, <2>1, <2>2
  <2> QED
    BY <1>1, <2>3
<1>7. ASSUME NEW x \in ToSet(r) PROVE x \in ToSet(s) \ {e}
  <2>1. PICK j \in 1..Len(s) - 1 : x = r[j]
    BY <1>4 DEF ToSet
  <2>2. PICK k \in 1..Len(s) : k # i /\ x = s[k]
    <3>1. CASE j < i
      BY <1>1, <1>3, <2>1, <3>1
    <3>2. CASE ~(j < i)
      <4>1. j + 1 \in 1..Len(s) /\ j + 1 # i /\ x = s[j + 1]
        BY <1>1, <1>3, <2>1, <3>2
      <4> QED
        BY <4>1
    <3> QED
      BY <3>1, <3>2
  <2>3. x \in ToSet(s)
    BY <1>1, <2>2 DEF ToSet
  <2> QED
    BY <1>2, <1>5, <2>2, <2>3
<1>8. ASSUME NEW x \in ToSet(s) \ {e} PROVE x \in ToSet(r)
  <2>1. PICK k \in 1..Len(s) : x = s[k]
    BY <1>1 DEF ToSet
  <2>2. k # i
    BY <1>2, <2>1
  <2>3. CASE k < i
    <3>1. k \in 1..Len(s) - 1 /\ r[k] = x
      BY <1>1, <1>3, <2>1, <2>3
    <3> QED
      BY <1>4, <3>1 DEF ToSet
  <2>4. CASE k > i
    <3>1. k - 1 \in 1..Len(s) - 1 /\ r[k - 1] = x
      BY <1>1, <1>3, <2>1, <2>4
    <3> QED
      BY <1>4, <3>1 DEF ToSet
  <2> QED
    BY <1>1, <2>2, <2>3, <2>4
<1> QED
  BY <1>3, <1>6, <1>7, <1>8

(* Appending a new element keeps a sequence free of repetitions.        *)
LEMMA AppendAdds ==
  ASSUME NEW S, NEW s \in Seq(S), IsInjective(s), NEW e \in S, e \notin ToSet(s), NEW r,
         r = Append(s, e)
  PROVE  /\ r \in Seq(S) /\ IsInjective(r)
         /\ \A x : x \in ToSet(r) <=> x \in ToSet(s) \/ x = e
<1>1. Len(s) \in Nat /\ DOMAIN s = 1..Len(s)
  BY LenProperties
<1>2. /\ r \in Seq(S) /\ Len(r) = Len(s) + 1
      /\ \A i \in 1..Len(s) : r[i] = s[i]
      /\ r[Len(s) + 1] = e
  BY AppendProperties
<1>3. DOMAIN r = 1..Len(s) + 1
  BY <1>2, LenProperties
<1>4. \A i \in 1..Len(s) : s[i] # e
  BY <1>1 DEF ToSet
<1>5. IsInjective(r)
  BY <1>1, <1>2, <1>3, <1>4 DEF IsInjective
<1>6. ToSet(r) = ToSet(s) \cup {e}
  <2>1. ToSet(r) \subseteq ToSet(s) \cup {e}
    BY <1>1, <1>2, <1>3 DEF ToSet
  <2>2. ToSet(s) \subseteq ToSet(r)
    BY <1>1, <1>2, <1>3 DEF ToSet
  <2>3. e \in ToSet(r)
    BY <1>1, <1>2, <1>3 DEF ToSet
  <2> QED
    BY <2>1, <2>2, <2>3
<1> QED
  BY <1>2, <1>5, <1>6

------------------------------------------------------------------------------
(* Loops over slices *)

(* Induction over the numbers for a set rather than a predicate.        *)
LEMMA SetInduction ==
  ASSUME NEW S, 0 \in S, \A n \in Nat : n \in S => n + 1 \in S
  PROVE  Nat \subseteq S
<1>1. IsWellFoundedOn(OpToRel(<, Nat), Nat)  BY NatLessThanWellFounded
<1> DEFINE T == Nat \ S
<1>2. SUFFICES ASSUME T # {} PROVE FALSE  OBVIOUS
<1>3. PICK x \in T : \A y \in T : ~(<<y, x>> \in OpToRel(<, Nat))
  <2> HIDE DEF T
  <2>1. T \subseteq Nat BY DEF T
  <2> QED BY <1>1, <1>2, <2>1, WFMin
<1>4. \A y \in T : ~(y < x)  BY <1>3 DEF OpToRel
<1>5. x # 0 /\ x - 1 \in Nat /\ x - 1 < x  OBVIOUS
<1>6. x - 1 \in S  BY <1>4, <1>5
<1> QED BY <1>5, <1>6

(* f is what a loop over s has collected after each of the first n elements. *)
Loops(f, first, step, s, n) ==
  f[0] = first /\ \A i \in 1..n : f[i] = step[f[i - 1]][s[i]]

LEMMA LoopExists ==
  ASSUME NEW X, NEW S, NEW first \in X, NEW step, NEW s \in Seq(S),
         \A x \in X, e \in S : step[x][e] \in X
  PROVE  \E f \in [0..Len(s) -> X] : Loops(f, first, step, s, Len(s))
<1> DEFINE M == {n \in Nat : n <= Len(s) => \E f \in [0..n -> X] : Loops(f, first, step, s, n)}
<1>0. Len(s) \in Nat BY LenProperties
<1>1. 0 \in M
  <2>1. [i \in 0..0 |-> first] \in [0..0 -> X] OBVIOUS
  <2>2. Loops([i \in 0..0 |-> first], first, step, s, 0) BY DEF Loops
  <2> QED BY <2>1, <2>2
<1>2. ASSUME NEW n \in Nat, n \in M PROVE n + 1 \in M
  <2> SUFFICES ASSUME n + 1 <= Len(s) PROVE \E f \in [0..n + 1 -> X] : Loops(f, first, step, s, n + 1)
    OBVIOUS
  <2>0. n <= Len(s) /\ n + 1 \in 1..Len(s) BY <1>0
  <2>1. PICK f \in [0..n -> X] : Loops(f, first, step, s, n) BY <1>2, <2>0
  <2>2. s[n + 1] \in S BY <2>0, ElementOfSeq
  <2> DEFINE last == step[f[n]][s[n + 1]]
             g == [i \in 0..n + 1 |-> IF i <= n THEN f[i] ELSE last]
  <2>3. last \in X
    <3>1. f[n] \in X OBVIOUS
    <3> QED BY <2>2, <3>1
  <2>4. g \in [0..n + 1 -> X]
    <3> HIDE DEF last
    <3> QED BY <2>3
  <2>5. g[0] = first BY <2>1 DEF Loops
  <2>6. ASSUME NEW i \in 1..n + 1 PROVE g[i] = step[g[i - 1]][s[i]]
    <3>1. CASE i <= n
      <4>1. i \in 1..n /\ i - 1 \in 0..n /\ i - 1 <= n /\ i \in 0..n + 1 /\ i - 1 \in 0..n + 1 BY <3>1
      <4>2. f[i] = step[f[i - 1]][s[i]] BY <2>1, <4>1 DEF Loops
      <4>3. g[i] = f[i] /\ g[i - 1] = f[i - 1] BY <3>1, <4>1
      <4> QED BY <4>2, <4>3
    <3>2. CASE i = n + 1
      <4>1. g[i] = last BY <3>2
      <4>2. g[i - 1] = f[n] /\ s[i] = s[n + 1] BY <3>2
      <4> QED BY <4>1, <4>2
    <3> QED BY <3>1, <3>2
  <2> HIDE DEF g
  <2>7. Loops(g, first, step, s, n + 1) BY <2>5, <2>6 DEF Loops
  <2> QED BY <2>4, <2>7
<1>3. Nat \subseteq M
  <2> HIDE DEF M
  <2> QED BY <1>1, <1>2, SetInduction
<1> QED BY <1>0, <1>3

(* What holds at the start and after every step holds at the end.       *)
LEMMA LoopInvariant ==
  ASSUME NEW m \in Nat, NEW M, 0 \in M, \A n \in 1..m : n - 1 \in M => n \in M
  PROVE  m \in M
<1> DEFINE N == {n \in Nat : n <= m => n \in M}
<1>1. 0 \in N OBVIOUS
<1>2. ASSUME NEW n \in Nat, n \in N PROVE n + 1 \in N
  <2> SUFFICES ASSUME n + 1 <= m PROVE n + 1 \in M OBVIOUS
  <2>1. n \in M BY <1>2
  <2>2. n + 1 \in 1..m /\ (n + 1) - 1 = n OBVIOUS
  <2> QED BY <2>1, <2>2
<1>3. Nat \subseteq N
  <2> HIDE DEF N
  <2> QED BY <1>1, <1>2, SetInduction
<1> QED BY <1>3

(* Only keeps the tasks to be kept, each once.                          *)
LEMMA OnlyKeeps ==
  ASSUME NEW S, NEW s \in Seq(S), IsInjective(s), NEW keep
  PROVE  /\ Only(keep, s) \in Seq(S) /\ IsInjective(Only(keep, s))
         /\ ToSet(Only(keep, s)) = ToSet(s) \cap keep
<1> DEFINE Body(f) == [n \in 0..Len(s) |-> IF n = 0 THEN <<>>
                         ELSE IF s[n] \in keep THEN Append(f[n - 1], s[n]) ELSE f[n - 1]]
           kept == CHOOSE f : f = Body(f)
           step == [q \in Seq(S) |-> [t \in S |-> IF t \in keep THEN Append(q, t) ELSE q]]
<1>0. Len(s) \in Nat /\ DOMAIN s = 1..Len(s) BY LenProperties
<1>1. step \in [Seq(S) -> [S -> Seq(S)]]
  <2> SUFFICES ASSUME NEW q \in Seq(S), NEW t \in S
               PROVE  (IF t \in keep THEN Append(q, t) ELSE q) \in Seq(S)
    OBVIOUS
  <2> QED BY AppendProperties
<1>2. \A q \in Seq(S), t \in S : step[q][t] = IF t \in keep THEN Append(q, t) ELSE q OBVIOUS
<1>3. <<>> \in Seq(S) BY EmptySeq
<1> HIDE DEF step
<1>4. PICK f \in [0..Len(s) -> Seq(S)] : Loops(f, <<>>, step, s, Len(s))
  <2> DEFINE Q == Seq(S)
  <2>1. <<>> \in Q /\ \A q \in Q, t \in S : step[q][t] \in Q BY <1>1, <1>3
  <2> HIDE DEF Q
  <2>2. \E f \in [0..Len(s) -> Q] : Loops(f, <<>>, step, s, Len(s)) BY <2>1, LoopExists
  <2> QED BY <2>2 DEF Q
<1>5. ASSUME NEW n \in 1..Len(s)
      PROVE  f[n] = IF s[n] \in keep THEN Append(f[n - 1], s[n]) ELSE f[n - 1]
  <2>1. n - 1 \in 0..Len(s) /\ f[n - 1] \in Seq(S) BY <1>0
  <2>2. s[n] \in S BY ElementOfSeq
  <2>3. f[n] = step[f[n - 1]][s[n]] BY <1>4 DEF Loops
  <2> QED BY <1>2, <2>1, <2>2, <2>3
<1>6. f = Body(f)
  <2>1. \A n \in 0..Len(s) : n = 0 \/ n \in 1..Len(s) BY <1>0
  <2>2. \A n \in 0..Len(s) : f[n] = Body(f)[n] BY <1>4, <1>5, <2>1 DEF Loops
  <2> QED BY <2>2
<1>7. kept = Body(kept)
  <2> HIDE DEF Body
  <2> QED BY <1>6
<1>8. Only(keep, s) = kept[Len(s)] BY DEF Only
<1> HIDE DEF kept
<1>9. kept[0] = <<>> BY <1>0, <1>7
<1>10. ASSUME NEW n \in 1..Len(s)
       PROVE  kept[n] = IF s[n] \in keep THEN Append(kept[n - 1], s[n]) ELSE kept[n - 1]
  <2>1. n \in 0..Len(s) /\ n # 0 BY <1>0
  <2>2. kept[n] = Body(kept)[n] BY <1>7
  <2> QED BY <2>1, <2>2
<1> HIDE DEF Body
<1> DEFINE Good(n) == /\ kept[n] \in Seq(S) /\ IsInjective(kept[n])
                      /\ \A x : x \in ToSet(kept[n]) <=> x \in keep /\ \E i \in 1..n : s[i] = x
           M == {n \in 0..Len(s) : Good(n)}
<1>11. 0 \in M
  <2>1. IsInjective(<<>>) /\ ToSet(<<>>) = {} BY DEF IsInjective, ToSet
  <2>2. 0 \in 0..Len(s) /\ 1..0 = {} BY <1>0
  <2>3. Good(0) BY <1>3, <1>9, <2>1, <2>2
  <2> QED BY <2>2, <2>3
<1>12. ASSUME NEW n \in 1..Len(s), n - 1 \in M PROVE n \in M
  <2> DEFINE q == kept[n - 1]
  <2>1. q \in Seq(S) /\ IsInjective(q) BY <1>12
  <2>2. \A x : x \in ToSet(q) <=> x \in keep /\ \E i \in 1..n - 1 : s[i] = x BY <1>12
  <2>3. kept[n] = IF s[n] \in keep THEN Append(q, s[n]) ELSE q BY <1>10
  <2>4. s[n] \in S BY ElementOfSeq
  <2> HIDE DEF q
  <2>5. \A i \in 1..n - 1 : s[i] # s[n] BY <1>0 DEF IsInjective
  <2>6. s[n] \notin ToSet(q) BY <2>2, <2>5
  <2>7. n \in 0..Len(s) /\ \A i \in 1..n : i = n \/ i \in 1..n - 1 BY <1>0
  <2>8. \A i \in 1..n - 1 : i \in 1..n BY <1>0
  <2>9. n \in 1..n BY <1>0
  <2>10. CASE s[n] \in keep
    <3>1. kept[n] = Append(q, s[n]) BY <2>3, <2>10
    <3> DEFINE r == Append(q, s[n])
               e == s[n]
    <3>3. r = Append(q, e) /\ e \in S /\ e \notin ToSet(q) BY <2>4, <2>6
    <3> HIDE DEF r, e
    <3>2. /\ r \in Seq(S) /\ IsInjective(r)
          /\ \A x : x \in ToSet(r) <=> x \in ToSet(q) \/ x = e
      BY <2>1, <3>3, AppendAdds
    <3> QED BY <2>2, <2>7, <2>8, <2>9, <2>10, <3>1, <3>2 DEF r, e
  <2>11. CASE s[n] \notin keep
    <3>1. kept[n] = q BY <2>3, <2>11
    <3> QED BY <2>1, <2>2, <2>7, <2>8, <2>11, <3>1
  <2> QED BY <2>10, <2>11
<1>13. Len(s) \in M
  <2> HIDE DEF M
  <2> QED BY <1>0, <1>11, <1>12, LoopInvariant
<1>14. \A x : x \in ToSet(s) <=> \E i \in 1..Len(s) : s[i] = x BY <1>0 DEF ToSet
<1>15. Good(Len(s)) BY <1>13
<1>16. ToSet(kept[Len(s)]) = ToSet(s) \cap keep BY <1>14, <1>15
<1> QED BY <1>8, <1>15, <1>16

------------------------------------------------------------------------------
(* The insertion sort *)

(* The order that is wanted, and that Less is it among the tasks of P.      *)
Earlier(t, u) ==
  \/ PriorityValue(t) < PriorityValue(u)
  \/ PriorityValue(t) = PriorityValue(u) /\ born[t] < born[u]

OrderIs(P) ==
  /\ \A t \in P : PriorityValue(t) \in Nat /\ born[t] \in Nat
  /\ \A t, u \in P : Less(t, u) <=> Earlier(t, u)
  /\ \A t, u \in P : born[t] = born[u] => t = u

(* There is one place from which a task moves no further to the front.     *)
LEMMA PlaceExists ==
  ASSUME NEW S, NEW q \in Seq(S), NEW t
  PROVE  \E i \in 0..Len(q) : /\ i # 0 => ~Less(t, q[i])
                              /\ \A j \in i + 1..Len(q) : Less(t, q[j])
<1> DEFINE Stops(i, n) == (i # 0 => ~Less(t, q[i])) /\ \A j \in i + 1..n : Less(t, q[j])
           M == {n \in 0..Len(q) : \E i \in 0..n : Stops(i, n)}
<1>0. Len(q) \in Nat BY LenProperties
<1>1. 0 \in M
  <2>1. Stops(0, 0) /\ 0 \in 0..0 /\ 0 \in 0..Len(q) BY <1>0
  <2> QED BY <2>1
<1>2. ASSUME NEW n \in 1..Len(q), n - 1 \in M PROVE n \in M
  <2>0. n \in 0..Len(q) /\ n \in Nat BY <1>0
  <2>1. PICK i \in 0..n - 1 : Stops(i, n - 1) BY <1>2
  <2>2. CASE Less(t, q[n])
    <3>1. \A j \in i + 1..n : j = n \/ j \in i + 1..n - 1 BY <2>0
    <3>2. Stops(i, n) BY <2>1, <2>2, <3>1
    <3>3. i \in 0..n BY <2>0
    <3> QED BY <2>0, <3>2, <3>3
  <2>3. CASE ~Less(t, q[n])
    <3>1. n + 1..n = {} BY <2>0
    <3>2. Stops(n, n) BY <2>3, <3>1
    <3>3. n \in 0..n BY <2>0
    <3> QED BY <2>0, <3>2, <3>3
  <2> QED BY <2>2, <2>3
<1>3. Len(q) \in M
  <2> HIDE DEF M
  <2> QED BY <1>0, <1>1, <1>2, LoopInvariant
<1> QED BY <1>3

LEMMA InsertIs ==
  ASSUME NEW S, NEW q \in Seq(S), NEW t
  PROVE  \E i \in 0..Len(q) : /\ i # 0 => ~Less(t, q[i])
                              /\ \A j \in i + 1..Len(q) : Less(t, q[j])
                              /\ Insert(q, t) = InsertAt(q, i + 1, t)
<1> DEFINE Stops(i) == (i # 0 => ~Less(t, q[i])) /\ \A j \in i + 1..Len(q) : Less(t, q[j])
           last == CHOOSE i \in 0..Len(q) : Stops(i)
<1>1. \E i \in 0..Len(q) : Stops(i) BY PlaceExists
<1>2. last \in 0..Len(q) /\ Stops(last)
  <2> HIDE DEF Stops
  <2> QED BY <1>1
<1>3. Insert(q, t) = InsertAt(q, last + 1, t) BY DEF Insert
<1> HIDE DEF last
<1> QED BY <1>2, <1>3

LEMMA InsertAtIs ==
  ASSUME NEW S, NEW q \in Seq(S), NEW k \in Nat, k - 1 \in 0..Len(q), NEW t \in S
  PROVE  /\ InsertAt(q, k, t) \in Seq(S) /\ Len(InsertAt(q, k, t)) = Len(q) + 1
         /\ \A j \in 1..Len(q) + 1 :
              InsertAt(q, k, t)[j] = IF j <= k - 1 THEN q[j] ELSE IF j = k THEN t ELSE q[j - 1]
<1> DEFINE i == k - 1
           r == InsertAt(q, k, t)
<1>0. i \in 0..Len(q) /\ k = i + 1 /\ i \in Nat
  <2>1. Len(q) \in Nat BY LenProperties
  <2> QED BY <2>1
<1> HIDE DEF i, r
<1> DEFINE a == SubSeq(q, 1, i)
           b == SubSeq(q, i + 1, Len(q))
           m == <<t>>
           n == Len(q)
<1>1. n \in Nat /\ i \in 0..n /\ \A j \in 1..n : q[j] \in S BY <1>0, LenProperties, ElementOfSeq
<1>2. a \in Seq(S) /\ Len(a) = i /\ \A j \in 1..i : a[j] = q[j]
  <2>1. \A j \in 1..i : q[j] \in S BY <1>1
  <2>2. 1 \in Int /\ i \in Int BY <1>1
  <2>3. /\ a \in Seq(S) /\ Len(a) = IF 1 <= i THEN i - 1 + 1 ELSE 0
        /\ \A j \in 1..i - 1 + 1 : a[j] = q[1 + j - 1]
    BY <2>1, <2>2, SubSeqProperties
  <2> HIDE DEF a
  <2> QED BY <1>1, <2>3
<1>3. b \in Seq(S) /\ Len(b) = n - i /\ \A j \in 1..n - i : b[j] = q[i + j]
  <2>1. \A j \in i + 1..n : q[j] \in S BY <1>1
  <2>2. i + 1 \in Int /\ n \in Int BY <1>1
  <2>3. /\ b \in Seq(S) /\ Len(b) = IF i + 1 <= n THEN n - (i + 1) + 1 ELSE 0
        /\ \A j \in 1..n - (i + 1) + 1 : b[j] = q[(i + 1) + j - 1]
    BY <2>1, <2>2, SubSeqProperties
  <2> HIDE DEF b
  <2> QED BY <1>1, <2>3
<1>4. m \in Seq(S) /\ Len(m) = 1 /\ m[1] = t OBVIOUS
<1>5. r = (a \o m) \o b
  <2>1. r = SubSeq(q, 1, k - 1) \o m \o SubSeq(q, k, Len(q)) BY DEF r, InsertAt
  <2> QED BY <1>0, <2>1 DEF i
<1> HIDE DEF a, b, m
<1>6. /\ a \o m \in Seq(S) /\ Len(a \o m) = i + 1
      /\ \A j \in 1..i + 1 : (a \o m)[j] = IF j <= i THEN q[j] ELSE t
  <2> DEFINE am == a \o m
  <2>1. /\ am \in Seq(S) /\ Len(am) = Len(a) + Len(m)
        /\ \A j \in 1..Len(a) + Len(m) : am[j] = IF j <= Len(a) THEN a[j] ELSE m[j - Len(a)]
    BY <1>2, <1>4, ConcatProperties
  <2> HIDE DEF am
  <2>2. ASSUME NEW j \in 1..i + 1 PROVE am[j] = IF j <= i THEN q[j] ELSE t
    <3>1. am[j] = IF j <= i THEN a[j] ELSE m[j - i] BY <1>2, <1>4, <2>1
    <3>2. CASE j <= i
      <4>1. j \in 1..i BY <1>1, <3>2
      <4> QED BY <1>2, <3>1, <3>2, <4>1
    <3>3. CASE ~(j <= i)
      <4>1. j - i = 1 BY <1>1, <3>3
      <4> QED BY <1>4, <3>1, <3>3, <4>1
    <3> QED BY <3>2, <3>3
  <2> QED BY <1>2, <1>4, <2>1, <2>2 DEF am
<1> DEFINE am == a \o m
<1> HIDE DEF am
<1>7. am \in Seq(S) /\ Len(am) = i + 1 /\ \A j \in 1..i + 1 : am[j] = IF j <= i THEN q[j] ELSE t
  BY <1>6 DEF am
<1>8. /\ r \in Seq(S) /\ Len(r) = Len(am) + Len(b)
      /\ \A j \in 1..Len(am) + Len(b) : r[j] = IF j <= Len(am) THEN am[j] ELSE b[j - Len(am)]
  <2>1. r = am \o b BY <1>5 DEF am
  <2>2. am \in Seq(S) /\ b \in Seq(S) BY <1>3, <1>7
  <2>3. /\ am \o b \in Seq(S) /\ Len(am \o b) = Len(am) + Len(b)
        /\ \A j \in 1..Len(am) + Len(b) :
             (am \o b)[j] = IF j <= Len(am) THEN am[j] ELSE b[j - Len(am)]
    BY <2>2, ConcatProperties
  <2> QED BY <2>1, <2>3
<1>9. Len(am) + Len(b) = n + 1 BY <1>1, <1>3, <1>7
<1>10. ASSUME NEW j \in 1..n + 1
       PROVE  r[j] = IF j <= i THEN q[j] ELSE IF j = i + 1 THEN t ELSE q[j - 1]
  <2>1. r[j] = IF j <= i + 1 THEN am[j] ELSE b[j - (i + 1)] BY <1>7, <1>8, <1>9
  <2>2. CASE j <= i + 1
    <3>1. j \in 1..i + 1 /\ (~(j <= i) => j = i + 1) BY <1>1, <2>2
    <3> QED BY <1>7, <2>1, <2>2, <3>1
  <2>3. CASE ~(j <= i + 1)
    <3>1. /\ j - (i + 1) \in 1..n - i /\ i + (j - (i + 1)) = j - 1
          /\ ~(j <= i) /\ j # i + 1
      BY <1>1, <2>3
    <3>2. b[j - (i + 1)] = q[i + (j - (i + 1))] BY <1>3, <3>1
    <3> QED BY <2>1, <2>3, <3>1, <3>2
  <2> QED BY <2>2, <2>3
<1> QED BY <1>0, <1>8, <1>9, <1>10 DEF n, i, r

(* r is q with t behind its first i tasks: t is not less than the last of   *)
(* these, and less than all the others.                                    *)
Placed(q, t, r, i) ==
  /\ i # 0 => ~Less(t, q[i])
  /\ \A j \in i + 1..Len(q) : Less(t, q[j])
  /\ Len(r) = Len(q) + 1
  /\ \A j \in 1..Len(q) + 1 : r[j] = IF j <= i THEN q[j] ELSE IF j = i + 1 THEN t ELSE q[j - 1]

LEMMA InsertPlaces ==
  ASSUME NEW S, NEW q \in Seq(S), NEW t \in S
  PROVE  \E i \in 0..Len(q) : Placed(q, t, Insert(q, t), i) /\ Insert(q, t) \in Seq(S)
<1>0. Len(q) \in Nat BY LenProperties
<1>1. PICK i \in 0..Len(q) : /\ i # 0 => ~Less(t, q[i])
                             /\ \A j \in i + 1..Len(q) : Less(t, q[j])
                             /\ Insert(q, t) = InsertAt(q, i + 1, t)
  BY InsertIs
<1> DEFINE k == i + 1
<1>2. k \in Nat /\ k - 1 \in 0..Len(q) BY <1>0
<1>a. k - 1 = i /\ k = i + 1 BY <1>0
<1>3. Insert(q, t) = InsertAt(q, k, t) BY <1>1
<1> HIDE DEF k
<1>4. /\ InsertAt(q, k, t) \in Seq(S) /\ Len(InsertAt(q, k, t)) = Len(q) + 1
      /\ \A j \in 1..Len(q) + 1 :
           InsertAt(q, k, t)[j] = IF j <= k - 1 THEN q[j] ELSE IF j = k THEN t ELSE q[j - 1]
  BY <1>2, InsertAtIs
<1>5. \A j \in 1..Len(q) + 1 :
        Insert(q, t)[j] = IF j <= i THEN q[j] ELSE IF j = i + 1 THEN t ELSE q[j - 1]
  BY <1>a, <1>3, <1>4
<1>6. Placed(q, t, Insert(q, t), i) BY <1>1, <1>3, <1>4, <1>5 DEF Placed
<1>7. Insert(q, t) \in Seq(S) BY <1>3, <1>4
<1> QED BY <1>6, <1>7

(* A task that is inserted into tasks in order leaves them in order.       *)
LEMMA InsertSorts ==
  ASSUME NEW P, OrderIs(P), NEW q \in Seq(P), Fifo(q), NEW t \in P, t \notin ToSet(q),
         NEW r, r = Insert(q, t)
  PROVE  r \in Seq(P) /\ Fifo(r) /\ \A x : x \in ToSet(r) <=> x \in ToSet(q) \/ x = t
<1> DEFINE n == Len(q)
<1>1. n \in Nat /\ DOMAIN q = 1..n /\ \A j \in 1..n : q[j] \in P BY LenProperties, ElementOfSeq
<1>2. PICK i \in 0..n : Placed(q, t, r, i) /\ r \in Seq(P) BY InsertPlaces
<1>3. /\ i # 0 => ~Less(t, q[i])
      /\ \A j \in i + 1..n : Less(t, q[j])
      /\ r \in Seq(P) /\ Len(r) = n + 1
      /\ \A j \in 1..n + 1 : r[j] = IF j <= i THEN q[j] ELSE IF j = i + 1 THEN t ELSE q[j - 1]
  BY <1>2 DEF Placed
<1>4. DOMAIN r = 1..n + 1 BY <1>3, LenProperties
<1>5. \A j \in 1..n : q[j] # t BY <1>1 DEF ToSet
<1>6. \A j, k \in 1..n : j < k => Earlier(q[j], q[k]) BY DEF Fifo, Earlier
<1> HIDE DEF n
<1>7. \A u, v, w \in P : Earlier(u, v) /\ Earlier(v, w) => Earlier(u, w)
  BY DEF OrderIs, Earlier
<1>8. \A u, v \in P : u # v => Earlier(u, v) \/ Earlier(v, u)
  BY DEF OrderIs, Earlier
<1>9. \A j \in 1..i : Earlier(q[j], t)
  <2> SUFFICES ASSUME NEW j \in 1..i PROVE Earlier(q[j], t) OBVIOUS
  <2>1. i \in 1..n /\ j \in 1..n /\ i # 0 BY <1>1
  <2>2. q[i] \in P /\ q[j] \in P BY <1>1, <2>1
  <2>3. ~Less(t, q[i]) BY <1>3, <2>1
  <2>4. ~Earlier(t, q[i]) BY <2>2, <2>3 DEF OrderIs
  <2>5. Earlier(q[i], t) BY <1>5, <1>8, <2>1, <2>2, <2>4
  <2>6. j = i \/ j < i BY <2>1
  <2>7. j < i => Earlier(q[j], q[i]) BY <1>6, <2>1
  <2> QED BY <1>7, <2>2, <2>5, <2>6, <2>7
<1>10. \A j \in i + 1..n : Earlier(t, q[j])
  <2> SUFFICES ASSUME NEW j \in i + 1..n PROVE Earlier(t, q[j]) OBVIOUS
  <2>1. j \in 1..n BY <1>1
  <2>2. q[j] \in P BY <1>1, <2>1
  <2> QED BY <1>3, <2>2 DEF OrderIs
<1>11. ASSUME NEW j \in 1..n + 1, NEW k \in 1..n + 1, j < k PROVE Earlier(r[j], r[k])
  <2>1. /\ r[j] = IF j <= i THEN q[j] ELSE IF j = i + 1 THEN t ELSE q[j - 1]
        /\ r[k] = IF k <= i THEN q[k] ELSE IF k = i + 1 THEN t ELSE q[k - 1]
    BY <1>3
  <2>2. CASE k <= i
    <3>1. j <= i /\ j \in 1..n /\ k \in 1..n BY <1>1, <1>11, <2>2
    <3> QED BY <1>6, <1>11, <2>1, <2>2, <3>1
  <2>3. CASE k = i + 1
    <3>1. j \in 1..i /\ ~(k <= i) BY <1>1, <1>11, <2>3
    <3>2. r[j] = q[j] /\ r[k] = t
      <4>1. j <= i BY <3>1
      <4> QED BY <2>1, <2>3, <3>1, <4>1
    <3> QED BY <1>9, <3>1, <3>2
  <2>4. CASE k > i + 1
    <3>0. ~(k <= i) /\ k # i + 1 /\ k - 1 \in i + 1..n /\ k - 1 \in 1..n BY <1>1, <2>4
    <3>1. r[k] = q[k - 1] BY <2>1, <3>0
    <3>2. CASE j <= i
      <4>1. r[j] = q[j] /\ j \in 1..n /\ j < k - 1 BY <1>1, <2>1, <2>4, <3>2
      <4> QED BY <1>6, <3>0, <3>1, <4>1
    <3>3. CASE j = i + 1
      <4>1. ~(j <= i) BY <1>1, <3>3
      <4>2. r[j] = t BY <2>1, <3>3, <4>1
      <4> QED BY <1>10, <3>0, <3>1, <4>2
    <3>4. CASE j > i + 1
      <4>1. ~(j <= i) /\ j # i + 1 /\ j - 1 \in 1..n /\ j - 1 < k - 1 BY <1>1, <1>11, <3>4
      <4>2. r[j] = q[j - 1] BY <2>1, <4>1
      <4> QED BY <1>6, <3>0, <3>1, <4>1, <4>2
    <3> QED BY <1>1, <3>2, <3>3, <3>4
  <2> QED BY <1>1, <2>2, <2>3, <2>4
<1>12. Fifo(r) BY <1>3, <1>11 DEF Fifo, Earlier
<1>13. ASSUME NEW x \in ToSet(r) PROVE x \in ToSet(q) \/ x = t
  <2>1. PICK j \in 1..n + 1 : x = r[j] BY <1>4 DEF ToSet
  <2>2. x = IF j <= i THEN q[j] ELSE IF j = i + 1 THEN t ELSE q[j - 1] BY <1>3, <2>1
  <2>3. j <= i => j \in 1..n BY <1>1
  <2>4. ~(j <= i) /\ j # i + 1 => j - 1 \in 1..n BY <1>1
  <2> QED BY <1>1, <2>2, <2>3, <2>4 DEF ToSet
<1>14. t \in ToSet(r)
  <2>1. i + 1 \in 1..n + 1 /\ ~(i + 1 <= i) BY <1>1
  <2>2. r[i + 1] = t BY <1>3, <2>1
  <2> QED BY <1>4, <2>1, <2>2 DEF ToSet
<1>15. ASSUME NEW x \in ToSet(q) PROVE x \in ToSet(r)
  <2>1. PICK j \in 1..n : x = q[j] BY <1>1 DEF ToSet
  <2>2. CASE j <= i
    <3>1. j \in 1..n + 1 BY <1>1
    <3>2. r[j] = x BY <1>3, <2>1, <2>2, <3>1
    <3> QED BY <1>4, <3>1, <3>2 DEF ToSet
  <2>3. CASE ~(j <= i)
    <3>1. j + 1 \in 1..n + 1 /\ ~(j + 1 <= i) /\ j + 1 # i + 1 /\ (j + 1) - 1 = j BY <1>1, <2>3
    <3>2. r[j + 1] = x BY <1>3, <2>1, <3>1
    <3> QED BY <1>4, <3>1, <3>2 DEF ToSet
  <2> QED BY <2>2, <2>3
<1> QED BY <1>3, <1>12, <1>13, <1>14, <1>15

(* The insertion sort puts distinct tasks in order and loses none.         *)
LEMMA SortSorts ==
  ASSUME NEW P, OrderIs(P), NEW s \in Seq(P), IsInjective(s)
  PROVE  Fifo(SortPending(s)) /\ ToSet(SortPending(s)) = ToSet(s)
<1> DEFINE Body(f) == [n \in 0..Len(s) |-> IF n = 0 THEN <<>> ELSE Insert(f[n - 1], s[n])]
           sorted == CHOOSE f : f = Body(f)
           step == [q \in Seq(P) |-> [t \in P |-> Insert(q, t)]]
<1>0. Len(s) \in Nat /\ DOMAIN s = 1..Len(s) BY LenProperties
<1>1. \A q \in Seq(P), t \in P : step[q][t] = Insert(q, t) OBVIOUS
<1>2. ASSUME NEW q \in Seq(P), NEW t \in P PROVE step[q][t] \in Seq(P)
  <2>1. Insert(q, t) \in Seq(P) BY InsertPlaces
  <2> QED BY <1>1, <2>1
<1>3. <<>> \in Seq(P) BY EmptySeq
<1> HIDE DEF step
<1>4. PICK f \in [0..Len(s) -> Seq(P)] : Loops(f, <<>>, step, s, Len(s))
  <2> DEFINE Q == Seq(P)
  <2>1. <<>> \in Q /\ \A q \in Q, t \in P : step[q][t] \in Q BY <1>2, <1>3
  <2> HIDE DEF Q
  <2>2. \E f \in [0..Len(s) -> Q] : Loops(f, <<>>, step, s, Len(s)) BY <2>1, LoopExists
  <2> QED BY <2>2 DEF Q
<1>5. ASSUME NEW n \in 1..Len(s) PROVE f[n] = Insert(f[n - 1], s[n])
  <2>1. n - 1 \in 0..Len(s) /\ f[n - 1] \in Seq(P) BY <1>0
  <2>2. s[n] \in P BY ElementOfSeq
  <2>3. f[n] = step[f[n - 1]][s[n]] BY <1>4 DEF Loops
  <2> QED BY <1>1, <2>1, <2>2, <2>3
<1>6. f = Body(f)
  <2>1. \A n \in 0..Len(s) : n = 0 \/ n \in 1..Len(s) BY <1>0
  <2>2. \A n \in 0..Len(s) : f[n] = Body(f)[n] BY <1>4, <1>5, <2>1 DEF Loops
  <2> QED BY <2>2
<1>7. sorted = Body(sorted)
  <2> HIDE DEF Body
  <2> QED BY <1>6
<1>8. SortPending(s) = sorted[Len(s)] BY DEF SortPending
<1> HIDE DEF sorted
<1>9. sorted[0] = <<>> BY <1>0, <1>7
<1>10. ASSUME NEW n \in 1..Len(s) PROVE sorted[n] = Insert(sorted[n - 1], s[n])
  <2>1. n \in 0..Len(s) /\ n # 0 BY <1>0
  <2>2. sorted[n] = Body(sorted)[n] BY <1>7
  <2> QED BY <2>1, <2>2
<1> HIDE DEF Body
<1> DEFINE Good(n) == /\ sorted[n] \in Seq(P) /\ Fifo(sorted[n])
                      /\ \A x : x \in ToSet(sorted[n]) <=> \E i \in 1..n : s[i] = x
           M == {n \in 0..Len(s) : Good(n)}
<1>11. 0 \in M
  <2>1. Fifo(<<>>) /\ ToSet(<<>>) = {} BY DEF Fifo, ToSet
  <2> QED BY <1>0, <1>3, <1>9, <2>1
<1>12. ASSUME NEW n \in 1..Len(s), n - 1 \in M PROVE n \in M
  <2> DEFINE q == sorted[n - 1]
  <2>1. q \in Seq(P) /\ Fifo(q) BY <1>12
  <2>2. \A x : x \in ToSet(q) <=> \E i \in 1..n - 1 : s[i] = x BY <1>12
  <2>3. sorted[n] = Insert(q, s[n]) BY <1>10
  <2>4. s[n] \in P BY ElementOfSeq
  <2> HIDE DEF q
  <2>5. \A i \in 1..n - 1 : s[i] # s[n] BY <1>0 DEF IsInjective
  <2>6. s[n] \notin ToSet(q) BY <2>2, <2>5
  <2>7. n \in 0..Len(s) /\ \A i \in 1..n : i = n \/ i \in 1..n - 1 BY <1>0
  <2>8. n \in 1..n /\ \A i \in 1..n - 1 : i \in 1..n BY <1>0
  <2>9. /\ sorted[n] \in Seq(P) /\ Fifo(sorted[n])
        /\ \A x : x \in ToSet(sorted[n]) <=> x \in ToSet(q) \/ x = s[n]
    BY <2>1, <2>3, <2>4, <2>6, InsertSorts
  <2> QED BY <2>2, <2>7, <2>8, <2>9
<1>13. Len(s) \in M
  <2> HIDE DEF M
  <2> QED BY <1>0, <1>11, <1>12, LoopInvariant
<1>14. \A x : x \in ToSet(s) <=> \E i \in 1..Len(s) : s[i] = x BY <1>0 DEF ToSet
<1>15. Good(Len(s)) BY <1>13
<1>16. ToSet(sorted[Len(s)]) = ToSet(s) BY <1>14, <1>15
<1> QED BY <1>8, <1>15, <1>16

------------------------------------------------------------------------------
(* The inductive invariant *)

Added == {t \in Task : born[t] # 0}

(* The monotonic clock counts the tasks ever added, and only they move  *)
(* the wall clock forward.                                              *)
ClockCounts ==
  /\ now = Cardinality(Added)
  /\ wall <= Cardinality(Task) + now

(* What was never added is nowhere.                                     *)
UnaddedNowhere ==
  \A t \in Task : born[t] = 0 => tasks[t].status = "ABSENT" /\ stored[t] = 0

(* A task that is still to be restored is not in the map.               *)
RestoredOnce == \A t \in ToRestore : tasks[t].status = "ABSENT"

(* A task in a guest's hands has left PENDING, also if it is put back.  *)
HandedOutLeft == \A t \in Task : tasks[t].status \in {"ASSIGNED", "RUNNING"} => t \in left

(* The fresh tasks: pending, or to be restored as such, and never       *)
(* handed out.  No two of them have one dedup_key.  A restart makes     *)
(* handed out tasks pending again, but those have left.                 *)
Waiting == (InStatus("PENDING") \cup ToRestore) \ left
FreshDiffer ==
  \A t, u \in Waiting : DedupKey[t] = DedupKey[u] /\ DedupKey[t] # 0 => t = u

QueueInv ==
  /\ TypeOK /\ ClockCounts
  /\ UnaddedNowhere /\ RestoredOnce /\ HandedOutLeft
  /\ SliceMirrorsMap /\ FreshDiffer

LEMMA Bounds == ASSUME TaskQueueAssumption PROVE Cardinality(Task) \in Nat /\ Latest \in Nat
BY FS_CardinalityType DEF TaskQueueAssumption, Latest

LEMMA QueueInit == ASSUME TaskQueueAssumption PROVE Init => QueueInv
<1> SUFFICES ASSUME Init PROVE QueueInv
  OBVIOUS
<1> USE DEF Init
<1>1. Cardinality(Task) \in Nat
  BY FS_CardinalityType DEF TaskQueueAssumption
<1>2. \A t \in Task : tasks[t] = Nothing
  OBVIOUS
<1>3. TypeOK
  <2>1. Nothing \in Fields
    BY <1>1 DEF Nothing, Fields, NoStamp, Latest
  <2>2. tasks \in [Task -> Fields]
    BY <2>1
  <2>3. ordered \in Seq(Task)
    BY EmptySeq
  <2> QED
    BY <1>1, <2>2, <2>3 DEF TypeOK, Latest, TaskQueueAssumption
<1>4. ClockCounts
  <2>1. Added = {}
    BY DEF Added
  <2> QED
    BY <1>1, <2>1, FS_EmptySet DEF ClockCounts
<1>5. SliceMirrorsMap
  <2>1. ToSet(ordered) = {} /\ IsInjective(ordered)
    BY EmptySeq, LenProperties DEF ToSet, IsInjective
  <2>2. Present = {}
    BY <1>2 DEF Present, Nothing
  <2> QED
    BY <2>1, <2>2 DEF SliceMirrorsMap
<1>6. UnaddedNowhere /\ RestoredOnce /\ HandedOutLeft
  BY <1>2 DEF UnaddedNowhere, RestoredOnce, ToRestore, HandedOutLeft, Nothing
<1>7. FreshDiffer
  BY <1>2 DEF FreshDiffer, Waiting, InStatus, ToRestore, Nothing
<1> QED
  BY <1>3, <1>4, <1>5, <1>6, <1>7 DEF QueueInv

(* A task enters the map at the end of the slice.                       *)
LEMMA EnterMirrors ==
  ASSUME TypeOK, SliceMirrorsMap, NEW t \in Task, tasks[t].status = "ABSENT",
         NEW w \in 0..Latest, NEW m \in 0..Cardinality(Task), Enter(t, w, m)
  PROVE  /\ tasks' \in [Task -> Fields]
         /\ ordered' \in Seq(Task)
         /\ \A u \in Task : tasks'[u].status = IF u = t THEN "PENDING" ELSE tasks[u].status
         /\ SliceMirrorsMap'
<1> DEFINE new == [status |-> "PENDING", owner |-> NoGuest, wall |-> w, mono |-> m]
<1>1. new \in Fields /\ new.status = "PENDING"
  BY DEF Fields, Status, Unfinished
<1>2. tasks' = [tasks EXCEPT ![t] = new] /\ ordered' = Append(ordered, t)
  BY DEF Enter
<1> HIDE DEF new
<1>3. tasks \in [Task -> Fields] /\ ordered \in Seq(Task)
  BY DEF TypeOK
<1>4. \A u \in Task : tasks'[u] = IF u = t THEN new ELSE tasks[u]
  BY <1>2, <1>3
<1>5. \A u \in Task : tasks'[u].status = IF u = t THEN "PENDING" ELSE tasks[u].status
  BY <1>1, <1>4
<1>6. t \notin ToSet(ordered) /\ IsInjective(ordered)
  BY DEF SliceMirrorsMap, Present
<1>7. /\ ordered' \in Seq(Task) /\ IsInjective(ordered')
      /\ ToSet(ordered') = ToSet(ordered) \cup {t}
  <2>1. ordered \in Seq(Task)
    BY <1>3
  <2>2. IsInjective(ordered)
    BY <1>6
  <2>3. t \notin ToSet(ordered)
    BY <1>6
  <2>4. IsInjective(Append(ordered, t))
    BY <2>1, <2>2, <2>3, AppendAdds
  <2>5. Append(ordered, t) \in Seq(Task)
    BY <2>1, <2>2, <2>3, AppendAdds
  <2>6. \A x : x \in ToSet(Append(ordered, t)) <=> x \in ToSet(ordered) \/ x = t
    BY <2>1, <2>2, <2>3, AppendAdds
  <2> QED
    BY <1>2, <2>4, <2>5, <2>6
<1>8. Present' = Present \cup {t}
  BY <1>5 DEF Present
<1>9. SliceMirrorsMap'
  BY <1>7, <1>8 DEF SliceMirrorsMap
<1>10. tasks' \in [Task -> Fields]
  BY <1>1, <1>2, <1>3
<1> QED
  BY <1>5, <1>7, <1>9, <1>10

(* A new task: it is fresh, and its dedup_key that of no pending task.  *)
LEMMA AddKeeps ==
  ASSUME TaskQueueAssumption, QueueInv, NEW t \in Task, ToRestore = {}, AddLocked(t),
         \A u \in InStatus("PENDING") : DedupKey[t] = 0 \/ DedupKey[u] # DedupKey[t]
  PROVE  QueueInv'
<1> USE DEF QueueInv
<1>1. /\ born[t] = 0 /\ now' = now + 1 /\ wall' = wall + 1 /\ steps' = steps
      /\ Enter(t, wall', now') /\ born' = [born EXCEPT ![t] = now']
      /\ left' = left /\ stored' = stored
  BY DEF AddLocked
<1>2. /\ Cardinality(Task) \in Nat /\ now \in Nat /\ wall \in Nat
      /\ now = Cardinality(Added) /\ wall <= Cardinality(Task) + now
      /\ born \in [Task -> 0..Cardinality(Task)] /\ steps \in 0..ClockSteps
      /\ stored \in [Task -> 0..Latest] /\ left \subseteq Task
  BY FS_CardinalityType DEF TypeOK, ClockCounts, TaskQueueAssumption
<1>3. born'[t] = now' /\ \A u \in Task \ {t} : born'[u] = born[u]
  BY <1>1, <1>2
<1>4. Added' = Added \cup {t} /\ t \notin Added
  <2>1. now' # 0
    BY <1>1, <1>2
  <2> QED
    BY <1>1, <1>3, <2>1 DEF Added
<1>5. Cardinality(Added') = now'
  <2>1. IsFiniteSet(Added)
    BY FS_Subset DEF Added, TaskQueueAssumption
  <2>2. Cardinality(Added \cup {t}) = Cardinality(Added) + 1
    BY <1>4, <2>1, FS_AddElement
  <2> QED
    BY <1>1, <1>2, <1>4, <2>2
<1>6. now' \in 1..Cardinality(Task)
  <2>1. Added' \subseteq Task
    BY DEF Added
  <2>2. Cardinality(Added') <= Cardinality(Task)
    BY <2>1, FS_Subset DEF TaskQueueAssumption
  <2> QED
    BY <1>1, <1>2, <1>5, <2>2
<1>7. wall' \in 0..Latest /\ wall' <= Cardinality(Task) + now'
  BY <1>1, <1>2, <1>6 DEF Latest
<1>8. ClockCounts'
  BY <1>5, <1>7 DEF ClockCounts
<1>9. tasks[t].status = "ABSENT" /\ stored[t] = 0
  BY <1>1 DEF UnaddedNowhere
<1>10. /\ tasks' \in [Task -> Fields] /\ ordered' \in Seq(Task)
       /\ \A u \in Task : tasks'[u].status = IF u = t THEN "PENDING" ELSE tasks[u].status
       /\ SliceMirrorsMap'
  <2>1. now' \in 0..Cardinality(Task)
    BY <1>2, <1>6
  <2>2. PICK w \in 0..Latest : w = wall'
    BY <1>7
  <2>3. PICK m \in 0..Cardinality(Task) : m = now'
    BY <2>1
  <2>4. Enter(t, w, m)
    BY <1>1, <2>2, <2>3
  <2> QED
    BY <1>9, <2>4, EnterMirrors
<1>11. TypeOK'
  <2>1. born' \in [Task -> 0..Cardinality(Task)]
    <3>1. PICK m \in 0..Cardinality(Task) : m = now'
      BY <1>2, <1>6
    <3>2. [born EXCEPT ![t] = m] \in [Task -> 0..Cardinality(Task)]
      BY <1>2, <3>1
    <3> QED
      BY <1>1, <3>1, <3>2
  <2>2. now' \in 0..Cardinality(Task)
    BY <1>2, <1>6
  <2> QED
    BY <1>1, <1>2, <1>7, <1>10, <2>1, <2>2 DEF TypeOK
<1>12. UnaddedNowhere'
  <2>1. now' # 0
    BY <1>2, <1>6
  <2> QED
    BY <1>1, <1>3, <1>10, <2>1 DEF UnaddedNowhere
<1>13. RestoredOnce'
  BY <1>1 DEF ToRestore, RestoredOnce
<1>14. HandedOutLeft'
  BY <1>1, <1>10 DEF HandedOutLeft
<1>15. FreshDiffer'
  <2>1. Waiting' \subseteq Waiting \cup {t}
    BY <1>1, <1>10 DEF Waiting, InStatus, ToRestore
  <2>2. Waiting \subseteq InStatus("PENDING")
    BY DEF Waiting
  <2> SUFFICES ASSUME NEW u \in Waiting', NEW v \in Waiting',
                      DedupKey[u] = DedupKey[v], DedupKey[u] # 0
               PROVE  u = v
    BY DEF FreshDiffer
  <2>3. CASE u \in Waiting /\ v \in Waiting
    BY <2>3 DEF FreshDiffer
  <2>4. CASE u = t \/ v = t
    BY <2>1, <2>2, <2>4
  <2> QED
    BY <2>1, <2>3, <2>4
<1> QED
  BY <1>8, <1>10, <1>11, <1>12, <1>13, <1>14, <1>15

(* A restored task stays the fresh task it was, or the handed out one.  *)
LEMMA RestoreKeeps ==
  ASSUME TaskQueueAssumption, QueueInv, NEW t \in Task, Restore(t)
  PROVE  QueueInv'
<1> USE DEF QueueInv
<1>1. /\ stored[t] # 0 /\ Enter(t, stored[t], NoStamp)
      /\ stored' = [stored EXCEPT ![t] = 0]
      /\ wall' = wall /\ now' = now /\ steps' = steps /\ born' = born /\ left' = left
  BY DEF Restore, ToRestore, clock, history
<1>2. stored \in [Task -> 0..Latest] /\ now \in 0..Cardinality(Task)
  BY DEF TypeOK
<1>3. stored'[t] = 0 /\ \A u \in Task \ {t} : stored'[u] = stored[u]
  BY <1>1, <1>2
<1>4. tasks[t].status = "ABSENT"
  BY <1>1 DEF RestoredOnce, ToRestore
<1>5. /\ tasks' \in [Task -> Fields] /\ ordered' \in Seq(Task)
      /\ \A u \in Task : tasks'[u].status = IF u = t THEN "PENDING" ELSE tasks[u].status
      /\ SliceMirrorsMap'
  <2>1. stored[t] \in 0..Latest
    BY <1>2
  <2>2. NoStamp \in 0..Cardinality(Task)
    BY Bounds DEF NoStamp
  <2> QED
    BY <1>1, <1>4, <2>1, <2>2, EnterMirrors
<1>6. TypeOK'
  <2>1. stored' \in [Task -> 0..Latest]
    <3>1. 0 \in 0..Latest
      BY Bounds
    <3> QED
      BY <1>1, <1>2, <3>1
  <2> QED
    BY <1>1, <1>5, <2>1 DEF TypeOK
<1>7. ClockCounts'
  BY <1>1 DEF ClockCounts, Added
<1>8. UnaddedNowhere'
  BY <1>1, <1>3, <1>5 DEF UnaddedNowhere
<1>9. RestoredOnce'
  BY <1>3, <1>5 DEF RestoredOnce, ToRestore
<1>10. HandedOutLeft'
  BY <1>1, <1>5 DEF HandedOutLeft
<1>11. FreshDiffer'
  <2>1. Waiting' \subseteq Waiting
    BY <1>1, <1>3, <1>5 DEF Waiting, InStatus, ToRestore
  <2> QED
    BY <2>1 DEF FreshDiffer
<1> QED
  BY <1>5, <1>6, <1>7, <1>8, <1>9, <1>10, <1>11

(* A task that changes its status has left PENDING, before or now.      *)
LEMMA ChangeKeeps ==
  ASSUME QueueInv, NEW t \in Task, NEW from \in SUBSET Unfinished, NEW to \in Status,
         NEW owner \in Guest \cup {NoGuest}, Change(t, from, to, owner)
  PROVE  QueueInv'
<1> USE DEF QueueInv
<1> DEFINE new == [tasks[t] EXCEPT !.status = to, !.owner = owner]
<1>1. /\ tasks[t].status \in Unfinished
      /\ tasks' = [tasks EXCEPT ![t] = new]
      /\ left' = left \cup (IF tasks[t].status = "PENDING" THEN {t} ELSE {})
      /\ ordered' = ordered /\ stored' = stored
      /\ wall' = wall /\ now' = now /\ steps' = steps /\ born' = born
  BY DEF Change, clock
<1>2. tasks \in [Task -> Fields] /\ left \subseteq Task
  BY DEF TypeOK
<1>3. new \in Fields /\ new.status = to
  BY <1>2 DEF Fields
<1> HIDE DEF new
<1>4. \A u \in Task : tasks'[u] = IF u = t THEN new ELSE tasks[u]
  BY <1>1, <1>2
<1>5. \A u \in Task : tasks'[u].status = IF u = t THEN to ELSE tasks[u].status
  BY <1>3, <1>4
<1>6. t \in left' /\ left \subseteq left'
  BY <1>1 DEF HandedOutLeft, Unfinished
<1>7. TypeOK'
  <2>1. tasks' \in [Task -> Fields]
    BY <1>1, <1>2, <1>3
  <2>2. left' \subseteq Task
    BY <1>1, <1>2
  <2> QED
    BY <1>1, <2>1, <2>2 DEF TypeOK
<1>8. ClockCounts'
  BY <1>1 DEF ClockCounts, Added
<1>9. UnaddedNowhere'
  BY <1>1, <1>5 DEF UnaddedNowhere, Unfinished
<1>10. RestoredOnce'
  BY <1>1, <1>5 DEF RestoredOnce, ToRestore, Unfinished
<1>11. HandedOutLeft'
  BY <1>5, <1>6 DEF HandedOutLeft
<1>12. SliceMirrorsMap'
  <2>1. Present' = Present
    BY <1>1, <1>5 DEF Present, Unfinished, Status
  <2> QED
    BY <1>1, <2>1 DEF SliceMirrorsMap
<1>13. FreshDiffer'
  <2>1. Waiting' \subseteq Waiting
    BY <1>1, <1>5, <1>6 DEF Waiting, InStatus, ToRestore
  <2> QED
    BY <2>1 DEF FreshDiffer
<1> QED
  BY <1>7, <1>8, <1>9, <1>10, <1>11, <1>12, <1>13

(* A removed task leaves the map and the slice together.                *)
LEMMA RemoveKeeps ==
  ASSUME TaskQueueAssumption, QueueInv, NEW t \in Task, RemoveTask(t)
  PROVE  QueueInv'
<1> USE DEF QueueInv
<1>1. /\ t \in Present /\ tasks' = [tasks EXCEPT ![t] = Nothing]
      /\ ordered' = RemoveFirst(ordered, t) /\ stored' = stored
      /\ wall' = wall /\ now' = now /\ steps' = steps /\ born' = born /\ left' = left
  BY DEF RemoveTask, clock, history
<1>2. /\ tasks \in [Task -> Fields] /\ ordered \in Seq(Task)
      /\ now \in 0..Cardinality(Task) /\ wall \in 0..Latest
  BY DEF TypeOK
<1>3. Nothing \in Fields /\ Nothing.status = "ABSENT"
  BY <1>2, Bounds DEF Nothing, Fields, NoStamp
<1>4. \A u \in Task : tasks'[u].status = IF u = t THEN "ABSENT" ELSE tasks[u].status
  BY <1>1, <1>2, <1>3
<1>5. t \in ToSet(ordered) /\ IsInjective(ordered)
  BY <1>1 DEF SliceMirrorsMap
<1>6. /\ ordered' \in Seq(Task) /\ IsInjective(ordered')
      /\ ToSet(ordered') = ToSet(ordered) \ {t}
  BY <1>1, <1>2, <1>5, RemoveFirstRemoves
<1>7. TypeOK'
  <2>1. tasks' \in [Task -> Fields]
    BY <1>1, <1>2, <1>3
  <2> QED
    BY <1>1, <1>6, <2>1 DEF TypeOK
<1>8. ClockCounts'
  BY <1>1 DEF ClockCounts, Added
<1>9. UnaddedNowhere' /\ RestoredOnce' /\ HandedOutLeft'
  BY <1>1, <1>4 DEF UnaddedNowhere, RestoredOnce, ToRestore, HandedOutLeft
<1>10. SliceMirrorsMap'
  <2>1. Present' = Present \ {t}
    BY <1>4 DEF Present
  <2> QED
    BY <1>6, <2>1 DEF SliceMirrorsMap
<1>11. FreshDiffer'
  <2>1. Waiting' \subseteq Waiting
    BY <1>1, <1>4 DEF Waiting, InStatus, ToRestore
  <2> QED
    BY <2>1 DEF FreshDiffer
<1> QED
  BY <1>7, <1>8, <1>9, <1>10, <1>11

(* A restart: the fresh tasks that are to be restored were fresh before,*)
(* since the handed out ones have left.                                 *)
LEMMA RestartKeeps == ASSUME TaskQueueAssumption, QueueInv, Restart PROVE QueueInv'
<1> USE DEF QueueInv
<1>1. /\ stored' = [t \in Task |->
                      IF tasks[t].status \in Unfinished THEN tasks[t].wall ELSE stored[t]]
      /\ tasks' = [t \in Task |-> Nothing] /\ ordered' = <<>>
      /\ wall' = wall /\ now' = now /\ steps' = steps /\ born' = born /\ left' = left
  BY DEF Restart, clock, history
<1>2. /\ tasks \in [Task -> Fields] /\ stored \in [Task -> 0..Latest]
      /\ now \in 0..Cardinality(Task) /\ wall \in 0..Latest
  BY DEF TypeOK
<1>3. Nothing \in Fields /\ Nothing.status = "ABSENT"
  BY <1>2, Bounds DEF Nothing, Fields, NoStamp
<1>4. \A t \in Task : tasks'[t].status = "ABSENT"
  BY <1>1, <1>3
<1>5. \A t \in Task :
        stored'[t] = IF tasks[t].status \in Unfinished THEN tasks[t].wall ELSE stored[t]
  BY <1>1
<1>6. TypeOK'
  <2>1. tasks' \in [Task -> Fields]
    BY <1>1, <1>3
  <2>2. \A t \in Task : tasks[t].wall \in 0..Latest
    BY <1>2 DEF Fields
  <2>3. stored' \in [Task -> 0..Latest]
    BY <1>1, <1>2, <2>2
  <2>4. ordered' \in Seq(Task)
    BY <1>1, EmptySeq
  <2> QED
    BY <1>1, <2>1, <2>3, <2>4 DEF TypeOK
<1>7. ClockCounts'
  BY <1>1 DEF ClockCounts, Added
<1>8. UnaddedNowhere'
  BY <1>1, <1>4, <1>5 DEF UnaddedNowhere, Unfinished
<1>9. RestoredOnce' /\ HandedOutLeft'
  BY <1>4 DEF RestoredOnce, ToRestore, HandedOutLeft
<1>10. SliceMirrorsMap'
  <2>1. ToSet(ordered') = {} /\ IsInjective(ordered')
    BY <1>1, EmptySeq, LenProperties DEF ToSet, IsInjective
  <2>2. Present' = {}
    BY <1>4 DEF Present
  <2> QED
    BY <2>1, <2>2 DEF SliceMirrorsMap
<1>11. FreshDiffer'
  <2>1. Waiting' \subseteq Waiting
    <3> SUFFICES ASSUME NEW t \in Task, t \in Waiting' PROVE t \in Waiting
      BY DEF Waiting, InStatus, ToRestore
    <3>1. stored'[t] # 0 /\ t \notin left
      BY <1>1, <1>4 DEF Waiting, InStatus, ToRestore
    <3>2. tasks[t].status = "PENDING" \/ stored[t] # 0
      BY <1>5, <3>1 DEF HandedOutLeft, Unfinished
    <3> QED
      BY <3>1, <3>2 DEF Waiting, InStatus, ToRestore
  <2> QED
    BY <2>1 DEF FreshDiffer
<1> QED
  BY <1>6, <1>7, <1>8, <1>9, <1>10, <1>11

LEMMA ClockKeeps == ASSUME TaskQueueAssumption, QueueInv, ClockStepsBack PROVE QueueInv'
<1> USE DEF QueueInv
<1>1. /\ steps < ClockSteps /\ steps' = steps + 1 /\ wall' \in 0..(wall - 1)
      /\ tasks' = tasks /\ ordered' = ordered /\ stored' = stored /\ now' = now
      /\ born' = born /\ left' = left
  BY DEF ClockStepsBack, history
<1>2. /\ wall \in 0..Latest /\ steps \in 0..ClockSteps /\ ClockSteps \in Nat
      /\ now \in Nat /\ Cardinality(Task) \in Nat /\ Latest \in Nat
  BY FS_CardinalityType DEF TypeOK, TaskQueueAssumption, Latest
<1>3. wall' \in 0..Latest /\ wall' <= wall /\ steps' \in 0..ClockSteps
  BY <1>1, <1>2
<1>4. TypeOK'
  BY <1>1, <1>3 DEF TypeOK
<1>5. ClockCounts'
  BY <1>1, <1>2, <1>3 DEF ClockCounts, Added
<1>6. SliceMirrorsMap'
  BY <1>1 DEF SliceMirrorsMap, Present
<1>7. UnaddedNowhere' /\ RestoredOnce' /\ HandedOutLeft'
  BY <1>1 DEF UnaddedNowhere, RestoredOnce, ToRestore, HandedOutLeft
<1>8. FreshDiffer'
  BY <1>1 DEF FreshDiffer, Waiting, InStatus, ToRestore
<1> QED
  BY <1>4, <1>5, <1>6, <1>7, <1>8

LEMMA QueueStep == ASSUME TaskQueueAssumption PROVE QueueInv /\ [Next]_vars => QueueInv'
<1> SUFFICES ASSUME QueueInv, [Next]_vars PROVE QueueInv'
  OBVIOUS
<1>1. ASSUME NEW t \in Task, Add(t) PROVE QueueInv'
  BY <1>1, AddKeeps DEF Add
<1>2. ASSUME NEW t \in Task, AddOrDedup(t) PROVE QueueInv'
  BY <1>2, AddKeeps DEF AddOrDedup
<1>3. ASSUME NEW t \in Task, Restore(t) PROVE QueueInv'
  BY <1>3, RestoreKeeps
<1>4. ASSUME NEW t \in Task, RemoveTask(t) PROVE QueueInv'
  BY <1>4, RemoveKeeps
<1>5. ASSUME NEW t \in Task,
             \/ Start(t) \/ Complete(t) \/ Fail(t) \/ Cancel(t)
             \/ \E s \in Status : UpdateStatus(t, s)
             \/ \E g \in Guest : Assign(t, g)
      PROVE  QueueInv'
  <2>1. tasks[t].owner \in Guest \cup {NoGuest}
    BY DEF QueueInv, TypeOK, Fields
  <2>2. /\ {"PENDING"} \subseteq Unfinished /\ {"ASSIGNED"} \subseteq Unfinished
        /\ {"RUNNING", "ASSIGNED"} \subseteq Unfinished
        /\ {"PENDING", "ASSIGNED"} \subseteq Unfinished
        /\ {"ASSIGNED", "RUNNING", "COMPLETED", "FAILED", "CANCELLED"} \subseteq Status
    BY DEF Unfinished, Status
  <2>3. CASE Start(t)
    BY <2>1, <2>2, <2>3, ChangeKeeps DEF Start
  <2>4. CASE Complete(t)
    BY <2>1, <2>2, <2>4, ChangeKeeps DEF Complete
  <2>5. CASE Fail(t)
    BY <2>1, <2>2, <2>5, ChangeKeeps DEF Fail
  <2>6. CASE Cancel(t)
    BY <2>1, <2>2, <2>6, ChangeKeeps DEF Cancel
  <2>7. ASSUME NEW s \in Status, UpdateStatus(t, s) PROVE QueueInv'
    <3>1. PICK owner \in Guest \cup {NoGuest} :
            owner = IF s = "PENDING" THEN NoGuest ELSE tasks[t].owner
      BY <2>1
    <3>2. Change(t, Unfinished, s, owner)
      BY <2>7, <3>1 DEF UpdateStatus
    <3> QED
      BY <3>2, ChangeKeeps
  <2>8. ASSUME NEW g \in Guest, Assign(t, g) PROVE QueueInv'
    BY <2>2, <2>8, ChangeKeeps DEF Assign
  <2> QED
    BY <1>5, <2>3, <2>4, <2>5, <2>6, <2>7, <2>8
<1>6. CASE Restart
  BY <1>6, RestartKeeps
<1>7. CASE ClockStepsBack
  BY <1>7, ClockKeeps
<1>8. CASE UNCHANGED vars
  BY <1>8 DEF vars, clock, history, QueueInv, TypeOK, ClockCounts, Added, UnaddedNowhere,
     RestoredOnce, HandedOutLeft, SliceMirrorsMap, Present, FreshDiffer, Waiting,
     InStatus, ToRestore
<1> QED
  BY <1>1, <1>2, <1>3, <1>4, <1>5, <1>6, <1>7, <1>8 DEF Next

LEMMA QueueInvariant == ASSUME TaskQueueAssumption PROVE Spec => []QueueInv
<1> QED
  BY QueueInit, QueueStep, PTL DEF Spec

------------------------------------------------------------------------------
(* The order in which tasks were submitted, as their stamps tell it *)

(* The clock is not set back where restarts leave the wall reading only. *)
OrderAssumption == Restarts => ClockSteps = 0

(* No two tasks have one place.                                         *)
BornDiffer ==
  /\ \A t \in Task : born[t] <= now
  /\ \A t, u \in Added : born[t] = born[u] => t = u

(* A monotonic reading is the place; where it is missing all wall       *)
(* readings tell the place.                                             *)
StampsTell ==
  /\ ToRestore # {} => Restarts
  /\ \A t \in Present : tasks[t].mono = born[t] \/ (tasks[t].mono = NoStamp /\ Restarts)
  /\ ClockSteps = 0 => /\ wall = Cardinality(Task) + now
                       /\ \A t \in Present : tasks[t].wall = Cardinality(Task) + born[t]
                       /\ \A t \in ToRestore : stored[t] = Cardinality(Task) + born[t]

OrderInv == QueueInv /\ BornDiffer /\ StampsTell

LEMMA OrderInit == ASSUME TaskQueueAssumption, Init PROVE OrderInv
<1>1. QueueInv BY QueueInit
<1>2. Present = {} /\ ToRestore = {} /\ Added = {}
  BY DEF Init, Present, ToRestore, Added, Nothing
<1>3. now = 0 /\ wall = Cardinality(Task) /\ Cardinality(Task) \in Nat /\ \A t \in Task : born[t] = 0
  BY Bounds DEF Init
<1>4. BornDiffer BY <1>2, <1>3 DEF BornDiffer
<1>5. StampsTell BY <1>2, <1>3 DEF StampsTell
<1> QED BY <1>1, <1>4, <1>5 DEF OrderInv

(* Where no task gets or loses a stamp.                                 *)
LEMMA StampsStay ==
  ASSUME OrderInv, UNCHANGED <<now, wall, born>>,
         \A t \in Present' : t \in Present /\ tasks'[t].mono = tasks[t].mono
                                           /\ tasks'[t].wall = tasks[t].wall,
         \A t \in ToRestore' : t \in ToRestore /\ stored'[t] = stored[t]
  PROVE  BornDiffer' /\ StampsTell'
<1>1. BornDiffer' BY DEF OrderInv, BornDiffer, Added
<1>2. StampsTell' BY DEF OrderInv, StampsTell
<1> QED BY <1>1, <1>2

LEMMA OrderAdd ==
  ASSUME TaskQueueAssumption, OrderInv, NEW t \in Task, ToRestore = {}, AddLocked(t)
  PROVE  BornDiffer' /\ StampsTell'
<1>0. QueueInv /\ BornDiffer /\ StampsTell BY DEF OrderInv
<1>1. /\ now' = now + 1 /\ wall' = wall + 1 /\ stored' = stored /\ born[t] = 0
      /\ born' = [born EXCEPT ![t] = now'] /\ Enter(t, wall', now')
  BY DEF AddLocked
<1>2. now \in Nat /\ wall \in Nat /\ Cardinality(Task) \in Nat /\ \A u \in Task : born[u] \in Nat
  BY <1>0, Bounds DEF QueueInv, TypeOK
<1>3. born'[t] = now + 1 /\ \A u \in Task : u # t => born'[u] = born[u]
  BY <1>0, <1>1 DEF QueueInv, TypeOK
<1>4. /\ tasks'[t].mono = now + 1 /\ tasks'[t].wall = wall + 1
      /\ \A u \in Task : u # t => tasks'[u] = tasks[u]
  BY <1>0, <1>1 DEF Enter, QueueInv, TypeOK
<1>5. BornDiffer'
  <2>1. ASSUME NEW u \in Task PROVE born'[u] <= now'
    BY <1>0, <1>1, <1>2, <1>3 DEF BornDiffer
  <2>2. ASSUME NEW u \in Added', NEW v \in Added', born'[u] = born'[v] PROVE u = v
    <3>1. \A w \in Task : w # t => born'[w] # now + 1 BY <1>0, <1>2, <1>3 DEF BornDiffer
    <3>2. u \in Task /\ v \in Task BY DEF Added
    <3>3. u # t /\ v # t => u \in Added /\ v \in Added /\ born[u] = born[v]
      BY <1>3, <2>2, <3>2 DEF Added
    <3> QED BY <1>0, <1>3, <2>2, <3>1, <3>2, <3>3 DEF BornDiffer
  <2> QED BY <2>1, <2>2 DEF BornDiffer
<1>6. ToRestore' = {} BY <1>1 DEF ToRestore
<1>7. \A u \in Present' : u = t \/ (u \in Present /\ u \in Task /\ u # t)
  BY <1>4 DEF Present
<1>8. \A u \in Present' : tasks'[u].mono = born'[u] \/ (tasks'[u].mono = NoStamp /\ Restarts)
  BY <1>0, <1>3, <1>4, <1>7 DEF StampsTell
<1>9. ASSUME ClockSteps = 0 PROVE /\ wall' = Cardinality(Task) + now'
                                  /\ \A u \in Present' : tasks'[u].wall = Cardinality(Task) + born'[u]
  <2>1. wall = Cardinality(Task) + now BY <1>0, <1>9 DEF StampsTell
  <2>2. wall' = Cardinality(Task) + now' BY <1>1, <1>2, <2>1
  <2>3. tasks'[t].wall = Cardinality(Task) + born'[t] BY <1>2, <1>3, <1>4, <2>1
  <2>4. \A u \in Present : tasks[u].wall = Cardinality(Task) + born[u] BY <1>0, <1>9 DEF StampsTell
  <2> QED BY <1>3, <1>4, <1>7, <2>2, <2>3, <2>4
<1>10. StampsTell' BY <1>6, <1>8, <1>9 DEF StampsTell
<1> QED BY <1>5, <1>10

LEMMA OrderRestore ==
  ASSUME TaskQueueAssumption, OrderInv, NEW t \in Task, Restore(t)
  PROVE  BornDiffer' /\ StampsTell'
<1>0. QueueInv /\ BornDiffer /\ StampsTell BY DEF OrderInv
<1>1. /\ t \in ToRestore /\ UNCHANGED <<now, wall, born>> /\ Enter(t, stored[t], NoStamp)
      /\ stored' = [stored EXCEPT ![t] = 0]
  BY DEF Restore, clock, history
<1>2. /\ tasks'[t].mono = NoStamp /\ tasks'[t].wall = stored[t]
      /\ \A u \in Task : u # t => tasks'[u] = tasks[u] /\ stored'[u] = stored[u]
      /\ stored'[t] = 0
  BY <1>0, <1>1 DEF Enter, QueueInv, TypeOK
<1>3. Restarts BY <1>0, <1>1 DEF StampsTell
<1>4. \A u \in Present' : u = t \/ (u \in Present /\ tasks'[u] = tasks[u])
  BY <1>2 DEF Present
<1>5. \A u \in ToRestore' : u \in ToRestore /\ stored'[u] = stored[u]
  BY <1>2 DEF ToRestore
<1>6. BornDiffer' BY <1>0, <1>1 DEF BornDiffer, Added
<1>7. StampsTell' BY <1>0, <1>1, <1>2, <1>3, <1>4, <1>5 DEF StampsTell
<1> QED BY <1>6, <1>7

LEMMA OrderRestart ==
  ASSUME TaskQueueAssumption, OrderInv, Restart
  PROVE  BornDiffer' /\ StampsTell'
<1>0. QueueInv /\ BornDiffer /\ StampsTell BY DEF OrderInv
<1>1. /\ Restarts /\ UNCHANGED <<now, wall, born>> /\ tasks' = [t \in Task |-> Nothing]
      /\ stored' = [t \in Task |-> IF tasks[t].status \in Unfinished THEN tasks[t].wall ELSE stored[t]]
  BY DEF Restart, clock, history
<1>2. Present' = {} BY <1>1 DEF Present, Nothing
<1>3. \A u \in ToRestore' : \/ u \in Present /\ stored'[u] = tasks[u].wall
                            \/ u \in ToRestore /\ stored'[u] = stored[u]
  BY <1>1 DEF ToRestore, Present, Unfinished
<1>4. BornDiffer' BY <1>0, <1>1 DEF BornDiffer, Added
<1>5. StampsTell' BY <1>0, <1>1, <1>2, <1>3 DEF StampsTell
<1> QED BY <1>4, <1>5

LEMMA OrderStep == ASSUME TaskQueueAssumption, OrderInv, [Next]_vars PROVE OrderInv'
<1>0. QueueInv /\ BornDiffer /\ StampsTell BY DEF OrderInv
<1>1. QueueInv' BY <1>0, QueueStep
<1> SUFFICES BornDiffer' /\ StampsTell' BY <1>1 DEF OrderInv
<1>2. ASSUME NEW t \in Task, Add(t) \/ AddOrDedup(t) PROVE BornDiffer' /\ StampsTell'
  BY <1>2, OrderAdd DEF Add, AddOrDedup
<1>3. ASSUME NEW t \in Task, Restore(t) PROVE BornDiffer' /\ StampsTell'
  BY <1>3, OrderRestore
<1>4. ASSUME NEW t \in Task, RemoveTask(t) PROVE BornDiffer' /\ StampsTell'
  <2>1. /\ UNCHANGED <<now, wall, born, stored>>
        /\ tasks' = [tasks EXCEPT ![t] = Nothing]
    BY <1>4 DEF RemoveTask, clock, history
  <2>2. \A u \in Present' : u \in Present /\ tasks'[u] = tasks[u]
    BY <1>0, <2>1 DEF Present, Nothing, QueueInv, TypeOK
  <2>3. \A u \in ToRestore' : u \in ToRestore /\ stored'[u] = stored[u] BY <2>1 DEF ToRestore
  <2> QED BY <2>1, <2>2, <2>3, StampsStay
<1>5. ASSUME NEW t \in Task, NEW from, NEW s, NEW owner, "ABSENT" \notin from,
             Change(t, from, s, owner)
      PROVE  BornDiffer' /\ StampsTell'
  <2>1. /\ UNCHANGED <<now, wall, born, stored>> /\ tasks[t].status # "ABSENT"
        /\ tasks' = [tasks EXCEPT ![t].status = s, ![t].owner = owner]
    BY <1>5 DEF Change, clock
  <2>2. /\ tasks'[t].mono = tasks[t].mono /\ tasks'[t].wall = tasks[t].wall
        /\ \A u \in Task : u # t => tasks'[u] = tasks[u]
    BY <1>0, <2>1 DEF QueueInv, TypeOK, Fields
  <2>3. \A u \in Present' : u \in Present /\ tasks'[u].mono = tasks[u].mono
                                          /\ tasks'[u].wall = tasks[u].wall
    BY <2>1, <2>2 DEF Present
  <2>4. \A u \in ToRestore' : u \in ToRestore /\ stored'[u] = stored[u] BY <2>1 DEF ToRestore
  <2> QED BY <2>1, <2>3, <2>4, StampsStay
<1>6. ASSUME NEW t \in Task,
             \/ Start(t) \/ Complete(t) \/ Fail(t) \/ Cancel(t)
             \/ \E s \in Status : UpdateStatus(t, s)
             \/ \E g \in Guest : Assign(t, g)
      PROVE  BornDiffer' /\ StampsTell'
  BY <1>5, <1>6 DEF Start, Complete, Fail, Cancel, UpdateStatus, Assign, Unfinished
<1>7. CASE Restart BY <1>7, OrderRestart
<1>8. CASE ClockStepsBack
  <2>1. /\ UNCHANGED <<tasks, stored, now, born>> /\ ClockSteps # 0
    BY <1>0, <1>8 DEF ClockStepsBack, history, QueueInv, TypeOK, TaskQueueAssumption
  <2>2. BornDiffer' BY <1>0, <2>1 DEF BornDiffer, Added
  <2>3. StampsTell' BY <1>0, <2>1 DEF StampsTell, Present, ToRestore
  <2> QED BY <2>2, <2>3
<1>9. CASE UNCHANGED vars
  <2>1. UNCHANGED <<tasks, stored, now, wall, born>> BY <1>9 DEF vars, clock, history
  <2>2. BornDiffer' BY <1>0, <2>1 DEF BornDiffer, Added
  <2>3. StampsTell' BY <1>0, <2>1 DEF StampsTell, Present, ToRestore
  <2> QED BY <2>2, <2>3
<1> QED BY <1>2, <1>3, <1>4, <1>6, <1>7, <1>8, <1>9 DEF Next

(* So Less is priority and age, whatever was restored or put back.      *)
LEMMA LessIsOrder ==
  ASSUME TaskQueueAssumption, OrderAssumption, OrderInv
  PROVE  OrderIs(Present)
<1>0. QueueInv /\ BornDiffer /\ StampsTell BY DEF OrderInv
<1>1. ASSUME NEW t \in Present PROVE /\ PriorityValue(t) \in Nat /\ born[t] \in Nat /\ born[t] # 0
                                     /\ t \in Added
  <2>1. t \in Task /\ tasks[t].status # "ABSENT" BY DEF Present
  <2>2. born[t] # 0 BY <1>0, <2>1 DEF QueueInv, UnaddedNowhere
  <2>3. born[t] \in Nat BY <1>0, <2>1, Bounds DEF QueueInv, TypeOK
  <2>4. PriorityValue(t) \in Nat BY <2>1 DEF PriorityValue, TaskQueueAssumption
  <2> QED BY <2>1, <2>2, <2>3, <2>4 DEF Added
<1>2. ASSUME NEW t \in Present, NEW u \in Present PROVE Before(t, u) <=> born[t] < born[u]
  <2>1. born[t] \in Nat /\ born[u] \in Nat /\ born[t] # 0 /\ born[u] # 0 BY <1>1
  <2>2. CASE tasks[t].mono # NoStamp /\ tasks[u].mono # NoStamp
    <3>1. tasks[t].mono = born[t] /\ tasks[u].mono = born[u] BY <1>0, <2>2 DEF StampsTell
    <3> QED BY <2>2, <3>1 DEF Before
  <2>3. CASE tasks[t].mono = NoStamp \/ tasks[u].mono = NoStamp
    <3>1. Restarts BY <1>0, <2>1, <2>3 DEF StampsTell, NoStamp
    <3>2. /\ tasks[t].wall = Cardinality(Task) + born[t] /\ tasks[u].wall = Cardinality(Task) + born[u]
      BY <1>0, <3>1 DEF OrderAssumption, StampsTell
    <3>3. Cardinality(Task) \in Nat BY Bounds
    <3>4. tasks[t].wall < tasks[u].wall <=> born[t] < born[u] BY <2>1, <3>2, <3>3
    <3> QED BY <2>3, <3>4 DEF Before
  <2> QED BY <2>2, <2>3
<1>3. \A t, u \in Present : Less(t, u) <=> Earlier(t, u) BY <1>2 DEF Less, Earlier
<1>4. \A t, u \in Present : born[t] = born[u] => t = u BY <1>0, <1>1 DEF BornDiffer
<1> QED BY <1>1, <1>3, <1>4 DEF OrderIs

LEMMA OrderedFifo ==
  ASSUME TaskQueueAssumption, OrderAssumption, OrderInv
  PROVE  HandedOutFifo
<1>0. ordered \in Seq(Task) /\ IsInjective(ordered) /\ ToSet(ordered) = Present
  BY DEF OrderInv, QueueInv, TypeOK, SliceMirrorsMap
<1>1. OrderIs(Present) BY LessIsOrder
<1>2. ordered \in Seq(Present)
  <2>1. Len(ordered) \in Nat /\ DOMAIN ordered = 1..Len(ordered) BY <1>0, LenProperties
  <2>2. \A i \in 1..Len(ordered) : ordered[i] \in Present BY <1>0, <2>1 DEF ToSet
  <2>3. ordered = [i \in 1..Len(ordered) |-> ordered[i]] BY <1>0, <2>1, LenProperties
  <2>4. ordered \in [1..Len(ordered) -> Present] BY <2>2, <2>3
  <2> QED BY <2>1, <2>4, SeqDef
<1>3. /\ PendingTasks \in Seq(Present) /\ IsInjective(PendingTasks)
      /\ ToSet(PendingTasks) = InStatus("PENDING")
  <2>1. InStatus("PENDING") \subseteq Present BY DEF InStatus, Present
  <2>2. /\ PendingTasks \in Seq(Present) /\ IsInjective(PendingTasks)
        /\ ToSet(PendingTasks) = ToSet(ordered) \cap InStatus("PENDING")
    BY <1>0, <1>2, OnlyKeeps DEF PendingTasks
  <2> QED BY <1>0, <2>1, <2>2
<1>4. Fifo(GetPendingTasks) /\ ToSet(GetPendingTasks) = InStatus("PENDING")
  BY <1>1, <1>3, SortSorts DEF GetPendingTasks
<1>5. ASSUME NEW required \in SUBSET Tag PROVE Fifo(NextPendingTaskForTags(required))
  <2> DEFINE keep == {t \in Task : MatchesTags(t, required)}
             s == Only(keep, PendingTasks)
  <2>1. s \in Seq(Present) /\ IsInjective(s)
    <3> HIDE DEF keep
    <3> QED BY <1>3, OnlyKeeps
  <2>2. NextPendingTaskForTags(required) = SortPending(s) BY DEF NextPendingTaskForTags
  <2> HIDE DEF s
  <2> QED BY <1>1, <2>1, <2>2, SortSorts
<1> QED BY <1>4, <1>5 DEF HandedOutFifo

------------------------------------------------------------------------------
(* Theorems *)

(* Types, and with them the bounds of both clocks: the monotonic clock  *)
(* never counts more than the tasks there are.                          *)
THEOREM QueueTypeCorrect == ASSUME TaskQueueAssumption PROVE Spec => []TypeOK
<1>1. QueueInv => TypeOK
  BY DEF QueueInv
<1> QED
  BY <1>1, QueueInvariant, PTL

(* The map and the slice of pkg/queue/queue.go have the same tasks, each*)
(* once, through every submission, removal and restart.                 *)
THEOREM SliceFollowsMap == ASSUME TaskQueueAssumption PROVE Spec => []SliceMirrorsMap
<1>1. QueueInv => SliceMirrorsMap
  BY DEF QueueInv
<1> QED
  BY <1>1, QueueInvariant, PTL

(* AddOrDedup: of the pending tasks with one dedup_key at most one was  *)
(* never handed out, restored tasks included.                           *)
THEOREM FreshIsUnique == ASSUME TaskQueueAssumption PROVE Spec => []OneFreshPerKey
<1>1. QueueInv => OneFreshPerKey
  <2> SUFFICES ASSUME QueueInv, NEW t \in InStatus("PENDING"), NEW u \in InStatus("PENDING"),
                      t # u, DedupKey[t] = DedupKey[u], DedupKey[t] # 0
               PROVE  {t, u} \cap left # {}
    BY DEF OneFreshPerKey
  <2>1. ~(t \in Waiting /\ u \in Waiting)
    BY DEF QueueInv, FreshDiffer
  <2> QED
    BY <2>1 DEF Waiting
<1> QED
  BY <1>1, QueueInvariant, PTL
(* sortPendingByPriority hands the tasks out by priority and, within    *)
(* one, in the order of their submission, whatever was put back,        *)
(* removed, restored in another order, or created before the clock was  *)
(* set back; only restarts and a clock that is set back do not go       *)
(* together.                                                            *)
THEOREM FifoCorrect ==
  ASSUME TaskQueueAssumption, OrderAssumption PROVE Spec => []HandedOutFifo
<1>1. Init => OrderInv BY OrderInit
<1>2. OrderInv => HandedOutFifo BY OrderedFifo
<1> QED BY <1>1, <1>2, OrderStep, PTL DEF Spec
===============================================================================
