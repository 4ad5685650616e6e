------------------------------- MODULE LogProofs -------------------------------
(***************************************************************************)
(* Proofs about the task logs: what LogAccumulator keeps in memory, on     *)
(* disk and in the browsers, and what a reader of LogStore is handed.      *)
(***************************************************************************)
EXTENDS LogAccumulator, SequenceTheorems, WellFoundedInduction, TLAPS

(* LogStore, whose tasks and variables have names of their own here.       *)
CONSTANTS StoreTask, FirstDate, LastDate, MaxEntries, Legacy, Crashes
VARIABLES today, number, stream, exists, append, logged, download, answer
Store == INSTANCE LogStore WITH Task <- StoreTask, file <- stream

-------------------------------------------------------------------------------
(* Induction over the numbers for a set rather than a predicate. *)
LEMMA SetInduction ==
  ASSUME NEW S, 0 \in S, \A n \in Nat : n \in S => n + 1 \in S
  PROVE  Nat \subseteq S
<1>1. IsWellFoundedOn(OpToRel(<, Nat), Nat)  BY NatLessThanWellFounded
<1> DEFINE T == Nat \ S
<1>2. SUFFICES ASSUME T # {} PROVE FALSE  OBVIOUS
<1>3. PICK x \in T : \A y \in T : ~(<<y, x>> \in OpToRel(<, Nat))
  <2> HIDE DEF T
  <2>1. T \subseteq Nat BY DEF T
  <2> QED BY <1>1, <1>2, <2>1, WFMin
<1>4. \A y \in T : ~(y < x)  BY <1>3 DEF OpToRel
<1>5. x # 0 /\ x - 1 \in Nat /\ x - 1 < x  OBVIOUS
<1>6. x - 1 \in S  BY <1>4, <1>5
<1> QED BY <1>5, <1>6

(* f[i] is the concatenation of the first i of the sequences s, for the i  *)
(* up to n.                                                                *)
Flattens(f, s, n) ==
  \A i \in 1..n : f[i] = IF i = 1 THEN s[i] ELSE f[i - 1] \o s[i]

LEMMA FlattenExists ==
  ASSUME NEW X, NEW s \in Seq(Seq(X))
  PROVE  \E f \in [1..Len(s) -> Seq(X)] : Flattens(f, s, Len(s))
<1> DEFINE S == {n \in Nat : n <= Len(s) => \E f \in [1..n -> Seq(X)] : Flattens(f, s, n)}
<1>1. 0 \in S
  <2>1. [i \in 1..0 |-> <<>>] \in [1..0 -> Seq(X)] OBVIOUS
  <2>2. Flattens([i \in 1..0 |-> <<>>], s, 0) BY DEF Flattens
  <2> QED BY <2>1, <2>2
<1>2. ASSUME NEW n \in Nat, n \in S PROVE n + 1 \in S
  <2> SUFFICES ASSUME n + 1 <= Len(s)
               PROVE  \E f \in [1..n + 1 -> Seq(X)] : Flattens(f, s, n + 1)
    OBVIOUS
  <2>0. Len(s) \in Nat /\ n <= Len(s) /\ n + 1 \in 1..Len(s) BY LenProperties
  <2>1. PICK f \in [1..n -> Seq(X)] : Flattens(f, s, n) BY <1>2, <2>0
  <2>2. s[n + 1] \in Seq(X) BY <2>0, ElementOfSeq
  <2> DEFINE last == IF n = 0 THEN s[n + 1] ELSE f[n] \o s[n + 1]
             g == [i \in 1..n + 1 |-> IF i <= n THEN f[i] ELSE last]
  <2>3. last \in Seq(X)
    <3>1. CASE n = 0 BY <2>2, <3>1
    <3>2. CASE n # 0
      <4>1. f[n] \in Seq(X) BY <3>2
      <4> QED BY <2>2, <3>2, <4>1, ConcatProperties
    <3> QED BY <3>1, <3>2
  <2>4. g \in [1..n + 1 -> Seq(X)]
    <3> HIDE DEF last
    <3> QED BY <2>3
  <2>5. ASSUME NEW i \in 1..n + 1 PROVE g[i] = IF i = 1 THEN s[i] ELSE g[i - 1] \o s[i]
    <3>1. CASE i <= n
      <4>0. i \in 1..n BY <3>1
      <4>1. f[i] = IF i = 1 THEN s[i] ELSE f[i - 1] \o s[i] BY <2>1, <4>0, Zenon DEF Flattens
      <4>2. g[i] = f[i] BY <3>1
      <4>3. i # 1 => g[i - 1] = f[i - 1] BY <3>1
      <4> QED BY <4>1, <4>2, <4>3
    <3>2. CASE i = n + 1
      <4>1. g[i] = last BY <3>2
      <4>2. n # 0 => g[i - 1] = f[n] BY <3>2
      <4> QED BY <3>2, <4>1, <4>2
    <3> QED BY <3>1, <3>2
  <2> QED
    <3> HIDE DEF g
    <3>1. Flattens(g, s, n + 1) BY <2>5 DEF Flattens
    <3> QED BY <2>4, <3>1
<1>3. Nat \subseteq S
  <2> HIDE DEF S
  <2> QED BY <1>1, <1>2, SetInduction
<1>4. Len(s) \in Nat BY LenProperties
<1>5. Len(s) \in S
  <2> HIDE DEF S
  <2> QED BY <1>3, <1>4
<1> QED BY <1>4, <1>5

LEMMA FlattensUnique ==
  ASSUME NEW s, NEW n \in Nat, NEW f, NEW g, Flattens(f, s, n), Flattens(g, s, n)
  PROVE  \A i \in 1..n : f[i] = g[i]
<1> DEFINE S == {i \in Nat : i \in 1..n => f[i] = g[i]}
<1>1. 0 \in S OBVIOUS
<1>2. ASSUME NEW i \in Nat, i \in S PROVE i + 1 \in S
  <2> SUFFICES ASSUME i + 1 \in 1..n PROVE f[i + 1] = g[i + 1] OBVIOUS
  <2> DEFINE m == i + 1
  <2>0. m \in 1..n /\ m - 1 = i OBVIOUS
  <2> HIDE DEF m
  <2>1. ASSUME NEW h, Flattens(h, s, n) PROVE h[m] = IF m = 1 THEN s[m] ELSE h[m - 1] \o s[m]
    BY <2>0, <2>1 DEF Flattens
  <2>2. m # 1 => f[m - 1] = g[m - 1]
    <3> SUFFICES ASSUME m # 1 PROVE f[i] = g[i] BY <2>0
    <3>1. i \in 1..n BY <2>0
    <3> QED BY <1>2, <3>1
  <2>3. f[m] = g[m]
    <3> HIDE DEF S
    <3> QED BY <2>1, <2>2
  <2> QED BY <2>3 DEF m
<1>3. Nat \subseteq S
  <2> HIDE DEF S
  <2> QED BY <1>1, <1>2, SetInduction
<1> QED BY <1>3

LEMMA FlattenIs ==
  ASSUME NEW X, NEW s \in Seq(Seq(X)), s # <<>>
  PROVE  \E f \in [1..Len(s) -> Seq(X)] : Flattens(f, s, Len(s)) /\ FlattenSeq(s) = f[Len(s)]
<1> DEFINE Fix(f) == f = [i \in 1..Len(s) |-> IF i = 1 THEN s[i] ELSE f[i - 1] \o s[i]]
           c == CHOOSE f : Fix(f)
<1>0. Len(s) \in Nat /\ Len(s) # 0 BY LenProperties, EmptySeq
<1>1. PICK f \in [1..Len(s) -> Seq(X)] : Flattens(f, s, Len(s)) BY FlattenExists
<1>2. Fix(f) BY <1>1 DEF Flattens
<1>3. Fix(c)
  <2> HIDE DEF Fix
  <2> QED BY <1>2
<1>4. FlattenSeq(s) = c[Len(s)] BY <1>0 DEF FlattenSeq
<1> HIDE DEF c
<1>5. Flattens(c, s, Len(s)) BY <1>3 DEF Flattens
<1>6. c[Len(s)] = f[Len(s)]
  <2> HIDE DEF Fix
  <2> QED BY <1>0, <1>1, <1>5, FlattensUnique
<1> QED BY <1>1, <1>4, <1>6

LEMMA FlattenEmpty == FlattenSeq(<<>>) = <<>>
  BY DEF FlattenSeq

LEMMA FlattenType ==
  ASSUME NEW X, NEW s \in Seq(Seq(X))
  PROVE  FlattenSeq(s) \in Seq(X)
<1>1. CASE s = <<>>
  <2>1. <<>> \in Seq(X) BY EmptySeq
  <2> QED BY <1>1, <2>1, FlattenEmpty
<1>2. CASE s # <<>>
  <2>1. Len(s) \in 1..Len(s) BY <1>2, LenProperties, EmptySeq
  <2>2. PICK f \in [1..Len(s) -> Seq(X)] : FlattenSeq(s) = f[Len(s)] BY <1>2, FlattenIs
  <2> QED BY <2>1, <2>2
<1> QED BY <1>1, <1>2

LEMMA FlattenAppend ==
  ASSUME NEW X, NEW s \in Seq(Seq(X)), NEW x \in Seq(X)
  PROVE  FlattenSeq(Append(s, x)) = FlattenSeq(s) \o x
<1> DEFINE t == Append(s, x)
           n == Len(s)
<1>1. /\ t \in Seq(Seq(X)) /\ t # <<>> /\ Len(t) = n + 1
      /\ \A i \in 1..n : t[i] = s[i]
      /\ t[n + 1] = x
  BY AppendProperties
<1>2. n \in Nat BY LenProperties
<1> HIDE DEF t, n
<1>3. PICK g \in [1..Len(t) -> Seq(X)] : Flattens(g, t, Len(t)) /\ FlattenSeq(t) = g[Len(t)]
  BY <1>1, FlattenIs
<1>4. CASE s = <<>>
  <2>1. n = 0 /\ FlattenSeq(s) = <<>> BY <1>4, FlattenEmpty, EmptySeq DEF n
  <2>2. g[1] = t[1] BY <1>1, <1>3, <2>1 DEF Flattens
  <2>3. FlattenSeq(t) = x BY <1>1, <1>3, <2>1, <2>2
  <2> QED BY <2>1, <2>3, ConcatEmptySeq DEF t
<1>5. CASE s # <<>>
  <2>0. n \in Nat \ {0} BY <1>5, EmptySeq DEF n
  <2>1. PICK f \in [1..n -> Seq(X)] : Flattens(f, s, n) /\ FlattenSeq(s) = f[n]
    BY <1>5, FlattenIs DEF n
  <2>2. g[n] = f[n]
    <3>0. \A i \in 1..n : i \in 1..Len(t) BY <1>1, <1>2
    <3>1. \A i \in 1..n : g[i] = IF i = 1 THEN t[i] ELSE g[i - 1] \o t[i]
      BY <1>3, <3>0, Zenon DEF Flattens
    <3>2. Flattens(g, s, n) BY <1>1, <3>1, Zenon DEF Flattens
    <3> QED BY <2>0, <2>1, <3>2, FlattensUnique
  <2>3. g[n + 1] = g[n] \o x
    <3> DEFINE m == n + 1
    <3>1. m \in 1..Len(t) /\ m # 1 /\ m - 1 = n /\ t[m] = x BY <1>1, <2>0
    <3> HIDE DEF m
    <3>2. g[m] = g[m - 1] \o t[m] BY <1>3, <3>1 DEF Flattens
    <3> QED BY <3>1, <3>2 DEF m
  <2> QED BY <1>1, <1>3, <2>1, <2>2, <2>3 DEF t
<1> QED BY <1>4, <1>5

LEMMA FlattenRegroup ==
  ASSUME NEW X, NEW s, NEW v, NEW u, NEW w, NEW x \in Seq(X),
         FlattenSeq(s) \in Seq(X), FlattenSeq(v) \in Seq(X),
         FlattenSeq(w) = FlattenSeq(s) \o FlattenSeq(v), FlattenSeq(u) = FlattenSeq(v) \o x
  PROVE  FlattenSeq(w) \o x = FlattenSeq(s) \o FlattenSeq(u)
BY SMTT(30)

SeqSeq(X) == Seq(Seq(X))

LEMMA FlattenConcat ==
  ASSUME NEW X, NEW s \in SeqSeq(X), NEW t \in SeqSeq(X)
  PROVE  FlattenSeq(s \o t) = FlattenSeq(s) \o FlattenSeq(t)
<1> DEFINE S == {n \in Nat : \A u \in SeqSeq(X) : Len(u) = n =>
                   FlattenSeq(s \o u) = FlattenSeq(s) \o FlattenSeq(u)}
<1>1. 0 \in S
  <2> SUFFICES ASSUME NEW u \in SeqSeq(X), Len(u) = 0
               PROVE  FlattenSeq(s \o u) = FlattenSeq(s) \o FlattenSeq(u)
    OBVIOUS
  <2>1. u = <<>> BY EmptySeq DEF SeqSeq
  <2>2. s \o u = s BY <2>1, ConcatEmptySeq DEF SeqSeq
  <2>3. FlattenSeq(s) \o FlattenSeq(u) = FlattenSeq(s)
    BY <2>1, FlattenEmpty, FlattenType, ConcatEmptySeq DEF SeqSeq
  <2> QED BY <2>2, <2>3
<1>2. ASSUME NEW n \in Nat, n \in S PROVE n + 1 \in S
  <2> SUFFICES ASSUME NEW u \in SeqSeq(X), Len(u) = n + 1
               PROVE  FlattenSeq(s \o u) = FlattenSeq(s) \o FlattenSeq(u)
    OBVIOUS
  <2>1. PICK v \in SeqSeq(X), x \in Seq(X) : u = Append(v, x)
    <3>1. u # <<>> BY EmptySeq DEF SeqSeq
    <3> QED BY <3>1, SequenceEmptyOrAppend DEF SeqSeq
  <2>2. Len(v) = n BY <2>1, AppendProperties, LenProperties DEF SeqSeq
  <2> DEFINE w == s \o v
  <2>3. FlattenSeq(w) = FlattenSeq(s) \o FlattenSeq(v) BY <1>2, <2>2
  <2>4. w \in SeqSeq(X) BY ConcatProperties DEF SeqSeq
  <2>5. s \o u = Append(w, x)
    <3>1. u = v \o <<x>> BY <2>1, AppendIsConcat DEF SeqSeq
    <3>2. <<x>> \in SeqSeq(X) BY DEF SeqSeq
    <3>3. s \o u = w \o <<x>> BY <3>1, <3>2, ConcatAssociative, SMTT(30) DEF SeqSeq
    <3> QED BY <2>4, <3>3, AppendIsConcat DEF SeqSeq
  <2>6. FlattenSeq(s) \in Seq(X) /\ FlattenSeq(v) \in Seq(X) BY FlattenType DEF SeqSeq
  <2> HIDE DEF w, S
  <2>7. FlattenSeq(s \o u) = FlattenSeq(w) \o x BY <2>4, <2>5, FlattenAppend DEF SeqSeq
  <2>8. FlattenSeq(u) = FlattenSeq(v) \o x BY <2>1, FlattenAppend DEF SeqSeq
  <2>9. FlattenSeq(w) \o x = FlattenSeq(s) \o FlattenSeq(u)
    BY <2>3, <2>6, <2>8, FlattenRegroup, SMTT(30)
  <2> QED BY <2>7, <2>9
<1>3. Nat \subseteq S
  <2> HIDE DEF S
  <2> QED BY <1>1, <1>2, SetInduction
<1> QED BY <1>3, LenProperties DEF SeqSeq
-------------------------------------------------------------------------------
Lines(log) == [i \in DOMAIN log |-> log[i].lines]

LEMMA LinesType ==
  ASSUME NEW log \in Seq(Entry)
  PROVE  /\ Lines(log) \in Seq(Seq(Line))
         /\ Len(Lines(log)) = Len(log)
         /\ \A i \in 1..Len(log) : Lines(log)[i] = log[i].lines
         /\ LinesOf(log) = FlattenSeq(Lines(log))
         /\ LinesOf(log) \in Seq(Line)
<1>1. Len(log) \in Nat /\ DOMAIN log = 1..Len(log) /\ log \in [1..Len(log) -> Entry]
  BY LenProperties
<1>2. \A i \in 1..Len(log) : log[i].lines \in Seq(Line) BY <1>1 DEF Entry
<1>3. Lines(log) \in [1..Len(log) -> Seq(Line)] BY <1>1, <1>2 DEF Lines
<1>4. Lines(log) \in Seq(Seq(Line)) BY <1>1, <1>3, SeqDef
<1>5. Len(Lines(log)) = Len(log) BY <1>1, <1>3, <1>4, LenProperties
<1>6. LinesOf(log) = FlattenSeq(Lines(log)) BY DEF LinesOf, Lines
<1>7. \A i \in 1..Len(log) : Lines(log)[i] = log[i].lines BY <1>1 DEF Lines
<1>8. LinesOf(log) \in Seq(Line) BY <1>4, <1>6, FlattenType
<1> QED BY <1>4, <1>5, <1>6, <1>7, <1>8

LEMMA LinesConcat ==
  ASSUME NEW log \in Seq(Entry), NEW more \in Seq(Entry)
  PROVE  LinesOf(log \o more) = LinesOf(log) \o LinesOf(more)
<1> DEFINE A == Lines(log)
           B == Lines(more)
           all == log \o more
<1>1. /\ A \in Seq(Seq(Line)) /\ Len(A) = Len(log) /\ LinesOf(log) = FlattenSeq(A)
      /\ \A i \in 1..Len(log) : A[i] = log[i].lines
  BY LinesType
<1>2. /\ B \in Seq(Seq(Line)) /\ Len(B) = Len(more) /\ LinesOf(more) = FlattenSeq(B)
      /\ \A i \in 1..Len(more) : B[i] = more[i].lines
  BY LinesType
<1>3. /\ all \in Seq(Entry) /\ Len(all) = Len(log) + Len(more)
      /\ \A i \in 1..Len(log) + Len(more) :
           all[i] = IF i <= Len(log) THEN log[i] ELSE more[i - Len(log)]
  BY ConcatProperties
<1>4. /\ Lines(all) \in Seq(Seq(Line)) /\ Len(Lines(all)) = Len(all) /\
           LinesOf(all) = FlattenSeq(Lines(all))
      /\ \A i \in 1..Len(all) : Lines(all)[i] = all[i].lines
  BY <1>3, LinesType
<1>5. /\ A \o B \in Seq(Seq(Line)) /\ Len(A \o B) = Len(A) + Len(B)
      /\ \A i \in 1..Len(A) + Len(B) : (A \o B)[i] = IF i <= Len(A) THEN A[i] ELSE B[i - Len(A)]
  <2> HIDE DEF A, B, all
  <2> DEFINE LL == Seq(Line)
  <2>1. A \in Seq(LL) /\ B \in Seq(LL) BY <1>1, <1>2
  <2> HIDE DEF LL
  <2>2. /\ A \o B \in Seq(LL) /\ Len(A \o B) = Len(A) + Len(B)
        /\ \A i \in 1..Len(A) + Len(B) : (A \o B)[i] = IF i <= Len(A) THEN A[i] ELSE B[i - Len(A)]
    BY <2>1, ConcatProperties
  <2> QED BY <2>2 DEF LL
<1>6. Len(log) \in Nat /\ Len(more) \in Nat BY LenProperties
<1> HIDE DEF A, B, all
<1>7. ASSUME NEW i \in 1..Len(all) PROVE Lines(all)[i] = (A \o B)[i]
  <2>1. CASE i <= Len(log)
    <3>1. i \in 1..Len(log) BY <2>1, <1>3, <1>6
    <3>2. Lines(all)[i] = log[i].lines BY <1>3, <1>4, <2>1, <3>1, <1>6
    <3>3. (A \o B)[i] = A[i] BY <1>1, <1>2, <1>3, <1>5, <1>6, <3>1
    <3> QED BY <1>1, <3>1, <3>2, <3>3
  <2>2. CASE i > Len(log)
    <3>1. i - Len(log) \in 1..Len(more) BY <2>2, <1>3, <1>6
    <3>2. Lines(all)[i] = more[i - Len(log)].lines BY <1>3, <1>4, <2>2, <1>6
    <3>3. (A \o B)[i] = B[i - Len(log)] BY <1>1, <1>2, <1>3, <1>5, <1>6, <2>2
    <3> QED BY <1>2, <3>1, <3>2, <3>3
  <2>3. i <= Len(log) \/ i > Len(log) BY <1>6
  <2> QED BY <2>1, <2>2, <2>3, Zenon
<1>8. Lines(all) = A \o B
  <2>1. Len(Lines(all)) = Len(A \o B) BY <1>1, <1>2, <1>3, <1>4, <1>5
  <2> QED BY <1>4, <1>5, <1>7, <2>1, SeqEqual
<1>9. FlattenSeq(A \o B) = FlattenSeq(A) \o FlattenSeq(B)
  BY <1>1, <1>2, FlattenConcat DEF SeqSeq
<1> QED BY <1>1, <1>2, <1>4, <1>8, <1>9 DEF all

LEMMA LinesOfFew ==
  ASSUME NEW e \in Entry
  PROVE  LinesOf(<<>>) = <<>> /\ LinesOf(<<e>>) = e.lines
<1>1. Lines(<<>>) = <<>> BY DEF Lines
<1>2. Lines(<<e>>) = <<e.lines>> BY DEF Lines
<1>3. e.lines \in Seq(Line) BY DEF Entry
<1>4. Append(<<>>, e.lines) = <<e.lines>> OBVIOUS
<1>5. FlattenSeq(<<e.lines>>) = <<>> \o e.lines
  <2>1. <<>> \in Seq(Seq(Line)) BY EmptySeq
  <2> QED BY <1>3, <1>4, <2>1, FlattenAppend, FlattenEmpty
<1>6. FlattenSeq(<<e.lines>>) = e.lines BY <1>3, <1>5, ConcatEmptySeq
<1> QED BY <1>1, <1>2, <1>6, FlattenEmpty DEF LinesOf, Lines
-------------------------------------------------------------------------------
Typed ==
  /\ sent \in 0..MaxLines /\ up \in BOOLEAN
  /\ over \subseteq Task /\ quiet \subseteq Task
  /\ fed \in [Task -> Seq(Line)] /\ buffer \in [Task -> Seq(Line)]
  /\ memory \in [Task -> Seq(Entry)] /\ disk \in [Task -> Seq(Entry)]
  /\ shown \in [Task -> Seq(Entry)]

LineEntry(n, kind) ==
  [lines |-> <<n>>, level |-> IF kind \in Prefixed THEN "tool" ELSE kind, fields |-> "none"]
TextEntry(t) == [lines |-> buffer[t], level |-> "text", fields |-> "none"]

(* What the emit closure passes on of what Feed emits. *)
Passed(t, n, kind) ==
  [i \in DOMAIN Emitted(t, n, kind) |-> Stamped(Emitted(t, n, kind)[i], kind)]

LEMMA StampedType ==
  ASSUME NEW e \in Entry, NEW kind \in Kind
  PROVE  Stamped(e, kind) \in Entry /\ Stamped(e, kind).lines = e.lines
  BY DEF Stamped, Entry, Kind, Prefixed, ParsesToolLine

LEMMA FlushedType ==
  ASSUME LogAssumption, Typed, NEW t \in Task
  PROVE  Flushed(t) \in Seq(Entry) /\ LinesOf(Flushed(t)) = buffer[t]
<1>1. buffer[t] \in Seq(Line) BY DEF Typed
<1>2. TextEntry(t) \in Entry /\ TextEntry(t).lines = buffer[t]
  BY <1>1 DEF TextEntry, Entry, Kind, Prefixed
<1>3. CASE buffer[t] = <<>>
  <2>1. Flushed(t) = <<>> BY <1>3 DEF Flushed
  <2>2. <<>> \in Seq(Entry) BY EmptySeq
  <2>3. LinesOf(<<>>) = <<>> BY <1>2, LinesOfFew
  <2> QED BY <1>3, <2>1, <2>2, <2>3
<1>4. CASE buffer[t] # <<>>
  <2>1. Flushed(t) = <<TextEntry(t)>> BY <1>4 DEF Flushed, TextEntry
  <2>2. <<TextEntry(t)>> \in Seq(Entry)
    <3> HIDE DEF TextEntry
    <3> QED BY <1>2
  <2> QED BY <1>2, <2>1, <2>2, LinesOfFew
<1> QED BY <1>3, <1>4

(* The lines of what a task has collected, and the line that arrives, are  *)
(* those of what is passed on and what is then collected.                  *)
LEMMA EmittedLines ==
  ASSUME LogAssumption, Typed, NEW t \in Task, NEW n \in Line, NEW kind \in Kind
  PROVE  /\ Emitted(t, n, kind) \in Seq(Entry)
         /\ kind = "text" => Emitted(t, n, kind) = IF t \in quiet THEN Flushed(t) ELSE <<>>
         /\ kind # "text" => /\ LinesOf(Emitted(t, n, kind)) = buffer[t] \o <<n>>
                             /\ Emitted(t, n, kind) = Flushed(t) \o <<LineEntry(n, kind)>>
<1>1. Flushed(t) \in Seq(Entry) /\ LinesOf(Flushed(t)) = buffer[t] BY FlushedType
<1>2. <<>> \in Seq(Entry) BY EmptySeq
<1>3. CASE kind = "text" BY <1>1, <1>2, <1>3 DEF Emitted
<1>4. CASE kind # "text"
  <2>1. LineEntry(n, kind) \in Entry /\ LineEntry(n, kind).lines = <<n>>
    BY <1>4 DEF LineEntry, Entry, Kind, Prefixed
  <2>2. Emitted(t, n, kind) = Flushed(t) \o <<LineEntry(n, kind)>>
    BY <1>4 DEF Emitted, LineEntry
  <2> DEFINE e == LineEntry(n, kind)
  <2>3. e \in Entry BY <2>1
  <2> HIDE DEF e
  <2>4. <<e>> \in Seq(Entry) BY <2>3
  <2>5. LinesOf(<<e>>) = e.lines BY <2>3, LinesOfFew
  <2>6. Flushed(t) \o <<e>> \in Seq(Entry) BY <1>1, <2>4, ConcatProperties
  <2>7. LinesOf(Flushed(t) \o <<e>>) = LinesOf(Flushed(t)) \o LinesOf(<<e>>)
    BY <1>1, <2>4, LinesConcat
  <2> QED BY <1>1, <1>4, <2>1, <2>2, <2>5, <2>6, <2>7 DEF e
<1> QED BY <1>3, <1>4

LEMMA PassedLines ==
  ASSUME LogAssumption, Typed, NEW t \in Task, NEW n \in Line, NEW kind \in Kind
  PROVE  /\ Passed(t, n, kind) \in Seq(Entry)
         /\ Len(Passed(t, n, kind)) = Len(Emitted(t, n, kind))
         /\ \A i \in 1..Len(Emitted(t, n, kind)) :
              Passed(t, n, kind)[i].lines = Emitted(t, n, kind)[i].lines
         /\ LinesOf(Passed(t, n, kind)) = LinesOf(Emitted(t, n, kind))
<1> DEFINE out == Emitted(t, n, kind)
           passed == Passed(t, n, kind)
<1>1. out \in Seq(Entry) BY EmittedLines
<1>2. Len(out) \in Nat /\ DOMAIN out = 1..Len(out) BY <1>1, LenProperties
<1>3. passed = [i \in 1..Len(out) |-> Stamped(out[i], kind)] BY <1>2 DEF Passed
<1> HIDE DEF out, passed
<1>4. \A i \in 1..Len(out) : out[i] \in Entry BY <1>1, ElementOfSeq
<1>5. \A i \in 1..Len(out) : Stamped(out[i], kind) \in Entry /\ Stamped(out[i],
        kind).lines = out[i].lines
  BY <1>4, StampedType
<1>6. passed \in [1..Len(out) -> Entry] BY <1>3, <1>5
<1>7. passed \in Seq(Entry) /\ Len(passed) = Len(out)
  BY <1>2, <1>6, SeqDef, LenProperties
<1>8. \A i \in 1..Len(out) : passed[i].lines = out[i].lines BY <1>3, <1>5
<1>9. LinesOf(passed) = LinesOf(out)
  <2>1. DOMAIN passed = DOMAIN out BY <1>2, <1>3
  <2>2. [i \in DOMAIN passed |-> passed[i].lines] = [i \in DOMAIN out |-> out[i].lines]
    BY <1>2, <1>8, <2>1
  <2> QED BY <2>2 DEF LinesOf
<1> QED BY <1>7, <1>8, <1>9 DEF out, passed

(* The text of t that is collected once line n has been fed. *)
Collected(t, n, kind) ==
  IF kind # "text" THEN <<>> ELSE IF t \in quiet THEN <<n>> ELSE Append(buffer[t], n)

LEMMA FeedLines ==
  ASSUME LogAssumption, Typed, NEW t \in Task, NEW n \in Line, NEW kind \in Kind,
         NEW log \in Seq(Entry)
  PROVE  /\ log \o Passed(t, n, kind) \in Seq(Entry)
         /\ Collected(t, n, kind) \in Seq(Line)
         /\ LinesOf(log \o Passed(t, n, kind)) \o Collected(t, n, kind)
              = Append(LinesOf(log) \o buffer[t], n)
<1> DEFINE p == Passed(t, n, kind)
           out == Emitted(t, n, kind)
           c == Collected(t, n, kind)
           l == LinesOf(log)
           b == buffer[t]
<1>1. b \in Seq(Line) /\ l \in Seq(Line) /\ <<>> \in Seq(Line) /\ <<n>> \in Seq(Line)
  BY LinesType, EmptySeq DEF Typed
<1>2. p \in Seq(Entry) /\ LinesOf(p) = LinesOf(out) BY PassedLines
<1>3. LinesOf(log \o p) = l \o LinesOf(out) /\ log \o p \in Seq(Entry)
  <2> HIDE DEF p, out
  <2> QED BY <1>2, LinesConcat, ConcatProperties
<1>4. kind # "text" => LinesOf(out) = b \o <<n>> BY EmittedLines
<1>5. kind = "text" => out = IF t \in quiet THEN Flushed(t) ELSE <<>> BY EmittedLines
<1>6. LinesOf(Flushed(t)) = b BY FlushedType
<1>7. LinesOf(<<>>) = <<>> BY FlattenEmpty DEF LinesOf
<1>8. c = IF kind # "text" THEN <<>> ELSE IF t \in quiet THEN <<n>> ELSE Append(b, n)
  BY DEF Collected
<1> HIDE DEF p, out, c, l, b
<1>9. c \in Seq(Line) BY <1>1, <1>8, AppendProperties
<1>10. (l \o LinesOf(out)) \o c = Append(l \o b, n)
  <2>1. CASE kind # "text"
    <3>1. (l \o (b \o <<n>>)) \o <<>> = Append(l \o b, n) BY <1>1
    <3> QED BY <1>4, <1>8, <2>1, <3>1
  <2>2. CASE kind = "text" /\ t \in quiet
    <3>1. (l \o b) \o <<n>> = Append(l \o b, n) BY <1>1
    <3> QED BY <1>5, <1>6, <1>8, <2>2, <3>1
  <2>3. CASE kind = "text" /\ t \notin quiet
    <3>1. (l \o <<>>) \o Append(b, n) = Append(l \o b, n) BY <1>1
    <3> QED BY <1>5, <1>7, <1>8, <2>3, <3>1
  <2> QED BY <2>1, <2>2, <2>3
<1> QED BY <1>3, <1>9, <1>10 DEF p, c, l, b

LogInv == Typed /\ InOrder

LEMMA FeedInv ==
  ASSUME LogAssumption, LogInv, NEW t \in Task, NEW kind \in Kind, Feed(t, kind)
  PROVE  LogInv' /\ Len(Emitted(t, sent + 1, kind)) \in Nat
<1> DEFINE n == sent + 1
           p == Passed(t, n, kind)
           c == Collected(t, n, kind)
<1>0. n \in Line BY DEF Feed, LogInv, Typed, Line, LogAssumption
<1> HIDE DEF n
<1>a. Typed BY DEF LogInv
<1>1. /\ sent' = n /\ fed' = [fed EXCEPT ![t] = Append(fed[t], n)]
      /\ over' \in SUBSET Task /\ quiet' = quiet \ {t} /\ up' = up
      /\ buffer' = [buffer EXCEPT ![t] = c]
      /\ memory' = [memory EXCEPT ![t] = memory[t] \o p]
      /\ disk' = [disk EXCEPT ![t] = disk[t] \o p]
      /\ shown' = [shown EXCEPT ![t] = shown[t] \o p]
  BY <1>a DEF Feed, Passed, Collected, Typed, n
<1>2. /\ memory[t] \in Seq(Entry) /\ disk[t] \in Seq(Entry) /\ shown[t] \in Seq(Entry)
      /\ fed[t] \in Seq(Line)
  BY <1>a DEF Typed
<1>3. \A log \in Seq(Entry) : /\ log \o p \in Seq(Entry)
                              /\ c \in Seq(Line)
                              /\ LinesOf(log \o p) \o c = Append(LinesOf(log) \o buffer[t], n)
  BY <1>0, <1>a, FeedLines
<1> HIDE DEF p, c
<1>4. Append(fed[t], n) \in Seq(Line) BY <1>0, <1>2, AppendProperties
<1>5. n \in 0..MaxLines BY <1>0 DEF Line
<1>6. Typed' BY <1>a, <1>1, <1>2, <1>3, <1>4, <1>5 DEF Typed
<1>7. InOrder'
  <2> SUFFICES ASSUME up', NEW u \in Task PROVE LinesOf(memory'[u]) \o buffer'[u] = fed'[u]
    BY DEF InOrder
  <2>1. LinesOf(memory[u]) \o buffer[u] = fed[u] BY <1>1 DEF LogInv, InOrder
  <2>2. CASE u # t BY <1>1, <1>a, <2>1, <2>2 DEF Typed
  <2>3. CASE u = t
    <3>1. memory'[u] = memory[t] \o p /\ buffer'[u] = c /\ fed'[u] = Append(fed[t], n)
      BY <1>1, <1>a, <2>3 DEF Typed
    <3> QED BY <1>2, <1>3, <2>1, <2>3, <3>1
  <2> QED BY <2>2, <2>3
<1>8. Len(Emitted(t, n, kind)) \in Nat BY <1>0, <1>a, EmittedLines, LenProperties
<1> QED BY <1>6, <1>7, <1>8 DEF LogInv, n

LEMMA FlushInv ==
  ASSUME LogAssumption, LogInv, Flush
  PROVE  InOrder' /\ memory' \in [Task -> Seq(Entry)] /\ buffer' \in [Task -> Seq(Line)]
<1>a. Typed BY DEF LogInv
<1>1. ASSUME NEW u \in Task
      PROVE  /\ memory'[u] \in Seq(Entry) /\ memory'[u] = memory[u] \o Flushed(u)
             /\ LinesOf(memory'[u]) = LinesOf(memory[u]) \o buffer[u]
  <2>1. memory'[u] = memory[u] \o Flushed(u) BY DEF Flush
  <2>2. Flushed(u) \in Seq(Entry) /\ LinesOf(Flushed(u)) = buffer[u] BY <1>a, FlushedType
  <2>3. memory[u] \in Seq(Entry) BY <1>a DEF Typed
  <2> QED BY <2>1, <2>2, <2>3, ConcatProperties, LinesConcat
<1>2. memory' \in [Task -> Seq(Entry)]
  <2>1. memory' = [u \in Task |-> memory'[u]] BY DEF Flush
  <2> QED BY <1>1, <2>1
<1>3. buffer' \in [Task -> Seq(Line)]
  <2>1. <<>> \in Seq(Line) BY EmptySeq
  <2> QED BY <2>1 DEF Flush
<1>4. InOrder'
  <2> SUFFICES ASSUME up', NEW u \in Task PROVE LinesOf(memory'[u]) \o buffer'[u] = fed'[u]
    BY DEF InOrder
  <2>1. LinesOf(memory[u]) \o buffer[u] = fed[u] BY DEF Flush, LogInv, InOrder
  <2>2. buffer'[u] = <<>> /\ fed' = fed BY DEF Flush
  <2>3. LinesOf(memory'[u]) \in Seq(Line) BY <1>1, LinesType
  <2>4. LinesOf(memory'[u]) \o <<>> = LinesOf(memory'[u]) BY <2>3, ConcatEmptySeq
  <2> QED BY <1>1, <2>1, <2>2, <2>4
<1> QED BY <1>2, <1>3, <1>4
-------------------------------------------------------------------------------
LEMMA ConcatPrefix ==
  ASSUME NEW X, NEW s \in Seq(X), NEW t \in Seq(X)
  PROVE  IsPrefix(s, s \o t)
<1>1. Len(s) \in Nat /\ Len(t) \in Nat /\ Len(s \o t) = Len(s) + Len(t)
  BY LenProperties, ConcatProperties
<1>2. SubSeq(s \o t, 1, Len(s)) = SubSeq(s, 1, Len(s))
  <2>1. CASE Len(s) = 0 BY <2>1, SubSeqEmpty
  <2>2. CASE Len(s) # 0 BY <1>1, <2>2, SubSeqOfConcat1
  <2> QED BY <2>1, <2>2
<1> QED BY <1>1, <1>2 DEF IsPrefix

(* A sequence falls into two parts anywhere. *)
LEMMA Splits ==
  ASSUME NEW X, NEW s \in Seq(X), NEW k \in 0..Len(s)
  PROVE  /\ SubSeq(s, 1, k) \in Seq(X) /\ SubSeq(s, k + 1, Len(s)) \in Seq(X)
         /\ SubSeq(s, 1, k) \o SubSeq(s, k + 1, Len(s)) = s
<1>1. Len(s) \in Nat /\ \A i \in 1..Len(s) : s[i] \in X BY LenProperties, ElementOfSeq
<1>2. SubSeq(s, 1, k) \in Seq(X) /\ SubSeq(s, k + 1, Len(s)) \in Seq(X)
  <2>1. \A i \in 1..k : s[i] \in X BY <1>1
  <2>2. \A i \in k + 1..Len(s) : s[i] \in X BY <1>1
  <2> QED BY <1>1, <2>1, <2>2, SubSeqProperties
<1>3. SubSeq(s, 1, k) \o SubSeq(s, k + 1, Len(s)) = SubSeq(s, 1, Len(s))
  <2>1. 1 \in 1..Len(s) + 1 /\ k \in 1 - 1..Len(s) /\ Len(s) \in k..Len(s) BY <1>1
  <2> QED BY <2>1, ConcatAdjacentSubSeq
<1> QED BY <1>2, <1>3, SubSeqFull

(* What reached the disk before it refused an entry. *)
LEMMA FatalLines ==
  ASSUME LogAssumption, Typed, NEW t \in Task, NEW n \in Line, NEW kind \in Kind,
         NEW k \in 0..Len(Passed(t, n, kind)) - 1, NEW log \in Seq(Entry)
  PROVE  /\ log \o SubSeq(Passed(t, n, kind), 1, k) \in Seq(Entry)
         /\ IsPrefix(LinesOf(log \o SubSeq(Passed(t, n, kind), 1, k)),
                     Append(LinesOf(log) \o buffer[t], n))
<1> DEFINE p == Passed(t, n, kind)
           a == SubSeq(p, 1, k)
           b == SubSeq(p, k + 1, Len(p))
           c == Collected(t, n, kind)
           x == LinesOf(log \o a)
           y == LinesOf(b)
<1>1. p \in Seq(Entry) BY PassedLines
<1>2. LinesOf(log \o p) \o c = Append(LinesOf(log) \o buffer[t], n) /\ c \in Seq(Line)
  BY FeedLines
<1>3. k \in 0..Len(p) - 1 OBVIOUS
<1> HIDE DEF p, c
<1>4. Len(p) \in Nat /\ k \in 0..Len(p) BY <1>1, <1>3, LenProperties
<1>5. a \in Seq(Entry) /\ b \in Seq(Entry) /\ a \o b = p BY <1>1, <1>4, Splits
<1> HIDE DEF a, b
<1>6. log \o a \in Seq(Entry) /\ x \in Seq(Line) /\ y \in Seq(Line)
  BY <1>5, ConcatProperties, LinesType
<1>7. log \o p = (log \o a) \o b
  <2>1. a \in Seq(Entry) /\ b \in Seq(Entry) BY <1>5
  <2>2. (log \o a) \o b = log \o (a \o b)
    <3> HIDE DEF x, y
    <3> QED BY <2>1, SMTT(30)
  <2> QED BY <1>5, <2>2
<1>8. LinesOf(log \o p) = x \o y
  <2>1. \A s, u \in Seq(Entry) : LinesOf(s \o u) = LinesOf(s) \o LinesOf(u) BY LinesConcat
  <2>2. LinesOf((log \o a) \o b) = x \o y BY <1>5, <1>6, <2>1, Zenon
  <2> QED BY <1>7, <2>2
<1> HIDE DEF x, y
<1>9. LinesOf(log \o p) \o c = x \o (y \o c)
  <2>1. x \in Seq(Line) /\ y \in Seq(Line) /\ c \in Seq(Line) BY <1>2, <1>6
  <2>2. (x \o y) \o c = x \o (y \o c) BY <2>1, SMTT(30)
  <2> QED BY <1>8, <2>2
<1>10. IsPrefix(x, x \o (y \o c)) BY <1>2, <1>6, ConcatProperties, ConcatPrefix
<1> QED BY <1>2, <1>6, <1>9, <1>10 DEF a, p, x

LEMMA FatalInv ==
  ASSUME LogAssumption, LogInv, NEW t \in Task, NEW kind \in Kind, FeedFatally(t, kind)
  PROVE  /\ LogInv' /\ fed' = [fed EXCEPT ![t] = Append(fed[t], sent + 1)]
         /\ \E k \in 0..Len(Passed(t, sent + 1, kind)) - 1 :
              disk' = [disk EXCEPT ![t] = disk[t] \o SubSeq(Passed(t, sent + 1, kind), 1, k)]
<1> DEFINE n == sent + 1
           p == Passed(t, n, kind)
<1>0. n \in Line BY DEF FeedFatally, LogInv, Typed, Line, LogAssumption
<1> HIDE DEF n
<1>a. Typed BY DEF LogInv
<1>1. /\ sent' = n /\ fed' = [fed EXCEPT ![t] = Append(fed[t], n)]
      /\ up' = FALSE /\ UNCHANGED <<over, buffer, quiet, memory, shown>>
      /\ \E k \in 0..Len(p) - 1 : disk' = [disk EXCEPT ![t] = disk[t] \o SubSeq(p, 1, k)]
  BY <1>a DEF FeedFatally, Passed, Typed, n
<1>2. disk[t] \in Seq(Entry) /\ fed[t] \in Seq(Line) BY <1>a DEF Typed
<1>3. \A k \in 0..Len(p) - 1 : disk[t] \o SubSeq(p, 1, k) \in Seq(Entry)
  BY <1>0, <1>a, <1>2, FatalLines
<1> HIDE DEF p
<1>4. Append(fed[t], n) \in Seq(Line) BY <1>0, <1>2, AppendProperties
<1>5. n \in 0..MaxLines BY <1>0 DEF Line
<1>6. disk' \in [Task -> Seq(Entry)] BY <1>a, <1>1, <1>3 DEF Typed
<1>7. Typed' BY <1>a, <1>1, <1>4, <1>5, <1>6 DEF Typed
<1>8. InOrder' BY <1>1 DEF InOrder
<1> QED BY <1>1, <1>7, <1>8 DEF LogInv, n, p

LEMMA LogInit == ASSUME LogAssumption, Init PROVE LogInv
<1>1. <<>> \in Seq(Line) /\ <<>> \in Seq(Entry) BY EmptySeq
<1>2. 0 \in 0..MaxLines BY DEF LogAssumption
<1>3. Typed BY <1>1, <1>2 DEF Init, Typed
<1>4. InOrder
  <2> SUFFICES ASSUME NEW t \in Task PROVE LinesOf(memory[t]) \o buffer[t] = fed[t]
    BY DEF InOrder
  <2>1. memory[t] = <<>> /\ buffer[t] = <<>> /\ fed[t] = <<>> BY DEF Init
  <2>2. LinesOf(<<>>) = <<>> BY FlattenEmpty DEF LinesOf
  <2>3. <<>> \o <<>> = <<>> OBVIOUS
  <2> QED BY <2>1, <2>2, <2>3
<1> QED BY <1>3, <1>4 DEF LogInv

LEMMA LogStep == ASSUME LogAssumption, LogInv, [Next]_vars PROVE LogInv'
<1>1. ASSUME NEW t \in Task, NEW kind \in Kind, Feed(t, kind) PROVE LogInv' BY <1>1, FeedInv
<1>2. ASSUME NEW t \in Task, NEW kind \in Kind, FeedFatally(t, kind) PROVE LogInv'
  BY <1>2, FatalInv
<1>3. ASSUME NEW t \in Task, HandleResult(t) PROVE LogInv'
  <2>1. InOrder' /\ memory' \in [Task -> Seq(Entry)] /\ buffer' \in [Task -> Seq(Line)]
    BY <1>3, FlushInv DEF HandleResult
  <2>2. ASSUME NEW u \in Task PROVE shown[u] \o Flushed(u) \in Seq(Entry)
    <3>1. Flushed(u) \in Seq(Entry) BY FlushedType DEF LogInv
    <3>2. shown[u] \in Seq(Entry) BY DEF LogInv, Typed
    <3> QED BY <3>1, <3>2, ConcatProperties
  <2>3. shown' \in [Task -> Seq(Entry)] BY <1>3, <2>2 DEF HandleResult
  <2>4. Typed' BY <1>3, <2>1, <2>3 DEF HandleResult, Flush, LogInv, Typed
  <2> QED BY <2>1, <2>4 DEF LogInv
<1>4. CASE HandleCancelled
  <2>1. InOrder' /\ memory' \in [Task -> Seq(Entry)] /\ buffer' \in [Task -> Seq(Line)]
    BY <1>4, FlushInv DEF HandleCancelled
  <2>2. Typed' BY <1>4, <2>1 DEF HandleCancelled, Flush, LogInv, Typed
  <2> QED BY <2>1, <2>2 DEF LogInv
<1>5. CASE TimePasses \/ UNCHANGED vars
  <2>1. UNCHANGED <<sent, fed, over, buffer, memory, disk, shown, up>> /\ quiet' \subseteq Task
    BY <1>5 DEF TimePasses, vars, LogInv, Typed
  <2> QED BY <2>1 DEF LogInv, Typed, InOrder
<1> QED BY <1>1, <1>2, <1>3, <1>4, <1>5 DEF Next

(* Memory and the text still collected are, for every task, exactly what   *)
(* the guest sent: flushes on a change of level, by later text, by the     *)
(* timer and at the end of any task lose, repeat and reorder nothing.      *)
THEOREM MemoryInOrder == ASSUME LogAssumption PROVE Spec => []InOrder
<1>1. LogInv => InOrder BY DEF LogInv
<1> QED BY <1>1, LogInit, LogStep, PTL DEF Spec
-------------------------------------------------------------------------------
(* Cancellations aside, browsers see what is stored. *)
ShownInv == LogInv /\ ShownIsStored

LEMMA ShownStep ==
  ASSUME LogAssumption, ~Cancels, ShownInv, [Next]_vars
  PROVE  ShownInv'
<1>1. LogInv' BY LogStep DEF ShownInv
<1>2. ShownIsStored'
  <2>0. LogInv /\ ShownIsStored BY DEF ShownInv
  <2>1. ASSUME NEW t \in Task, NEW kind \in Kind, Feed(t, kind) PROVE ShownIsStored'
    BY <2>0, <2>1 DEF Feed, ShownIsStored
  <2>2. ASSUME NEW t \in Task, NEW kind \in Kind, FeedFatally(t, kind) PROVE ShownIsStored'
    BY <2>2 DEF FeedFatally, ShownIsStored
  <2>3. ASSUME NEW t \in Task, HandleResult(t) PROVE ShownIsStored'
    BY <2>0, <2>3 DEF HandleResult, Flush, ShownIsStored
  <2>4. CASE HandleCancelled BY <2>4 DEF HandleCancelled
  <2>5. CASE TimePasses \/ UNCHANGED vars BY <2>0, <2>5 DEF TimePasses, vars, ShownIsStored
  <2> QED BY <2>1, <2>2, <2>3, <2>4, <2>5 DEF Next
<1> QED BY <1>1, <1>2 DEF ShownInv

(* Where nothing is cancelled, what browsers were shown of a task is what  *)
(* memory has, after every step.                                           *)
THEOREM ShownStored == ASSUME LogAssumption, ~Cancels PROVE Spec => []ShownIsStored
<1>1. Init => ShownInv BY LogInit DEF ShownInv, ShownIsStored, Init
<1>2. ShownInv => ShownIsStored BY DEF ShownInv
<1> QED BY <1>1, <1>2, ShownStep, PTL DEF Spec

(* Of a task nobody flushes but its own result: the disk has what memory   *)
(* has, and nothing is collected when the task is over.                    *)
AloneAssumption == ~Cancels /\ \A t, u \in Task : t = u

DiskInv ==
  /\ LogInv
  /\ up => disk = memory
  /\ \A t \in over : buffer[t] = <<>>
  /\ ~up => \A t \in Task : IsPrefix(LinesOf(disk[t]), fed[t])

LEMMA DiskStep ==
  ASSUME LogAssumption, AloneAssumption, DiskInv, [Next]_vars
  PROVE  DiskInv'
<1>0. LogInv /\ Typed BY DEF DiskInv, LogInv
<1>1. LogInv' BY <1>0, LogStep
<1>2. ASSUME NEW t \in Task, NEW kind \in Kind, Feed(t, kind) PROVE DiskInv'
  <2>1. up /\ up' /\ disk' = memory' BY <1>2 DEF Feed, DiskInv
  <2>2. t \notin over /\ over' \in {over} \cup IF kind = "system" THEN {over \cup {t}} ELSE {}
    BY <1>2 DEF Feed
  <2>3. over = {} /\ (over' = {} \/ kind = "system")
    BY <1>0, <2>2 DEF AloneAssumption, Typed
  <2>4. kind = "system" => buffer'[t] = <<>>
    BY <1>0, <1>2 DEF Feed, Typed
  <2>5. \A u \in over' : u \in Task BY <1>1 DEF LogInv, Typed
  <2>6. \A u \in over' : buffer'[u] = <<>> BY <2>3, <2>4, <2>5 DEF AloneAssumption
  <2> QED BY <1>1, <2>1, <2>6 DEF DiskInv
<1>3. ASSUME NEW t \in Task, NEW kind \in Kind, FeedFatally(t, kind) PROVE DiskInv'
  <2> DEFINE n == sent + 1
  <2>0. n \in Line /\ up /\ ~up' /\ over' = over /\ buffer' = buffer
    BY <1>0, <1>3 DEF FeedFatally, Typed, Line, LogAssumption
  <2>1. PICK k \in 0..Len(Passed(t, n, kind)) - 1 :
          disk' = [disk EXCEPT ![t] = disk[t] \o SubSeq(Passed(t, n, kind), 1, k)]
    BY <1>0, <1>3, FatalInv
  <2>2. fed' = [fed EXCEPT ![t] = Append(fed[t], n)] BY <1>0, <1>3, FatalInv
  <2> DEFINE a == SubSeq(Passed(t, n, kind), 1, k)
  <2>3. disk[t] \in Seq(Entry) /\ disk[t] = memory[t] BY <1>0, <2>0 DEF DiskInv, Typed
  <2> HIDE DEF n
  <2>4. IsPrefix(LinesOf(disk[t] \o a), Append(LinesOf(disk[t]) \o buffer[t], n))
    BY <1>0, <2>0, <2>1, <2>3, FatalLines
  <2> HIDE DEF a
  <2>5. LinesOf(disk[t]) \o buffer[t] = fed[t] BY <1>0, <2>0, <2>3 DEF LogInv, InOrder
  <2>6. disk'[t] = disk[t] \o a /\ fed'[t] = Append(fed[t], n)
    BY <1>0, <2>1, <2>2 DEF Typed, a
  <2>7. IsPrefix(LinesOf(disk'[t]), fed'[t]) BY <2>4, <2>5, <2>6
  <2>8. \A u \in Task : u = t BY DEF AloneAssumption
  <2>9. \A u \in Task : IsPrefix(LinesOf(disk'[u]), fed'[u]) BY <2>7, <2>8
  <2> QED BY <1>1, <2>0, <2>9 DEF DiskInv
<1>4. ASSUME NEW t \in Task, HandleResult(t) PROVE DiskInv'
  <2>1. up /\ up' = up /\ over' = over /\ disk' = disk /\ t \in over
    BY <1>4 DEF HandleResult, Flush
  <2>2. \A u \in Task : u = t /\ buffer[u] = <<>> BY <2>1 DEF AloneAssumption, DiskInv
  <2>3. \A u \in Task : Flushed(u) = <<>> BY <2>2 DEF Flushed
  <2>4. ASSUME NEW u \in Task PROVE memory[u] \o Flushed(u) = memory[u]
    <3>1. memory[u] \in Seq(Entry) BY <1>0 DEF Typed
    <3>2. memory[u] \o <<>> = memory[u] BY <3>1, ConcatEmptySeq
    <3> QED BY <2>3, <3>2
  <2>5. memory' = memory BY <1>0, <1>4, <2>4 DEF HandleResult, Flush, Typed
  <2>6. \A u \in over' : buffer'[u] = <<>> BY <1>0, <1>4, <2>1 DEF HandleResult, Flush, Typed
  <2> QED BY <1>1, <2>1, <2>5, <2>6 DEF DiskInv
<1>5. CASE HandleCancelled BY <1>5 DEF HandleCancelled, AloneAssumption
<1>6. CASE TimePasses \/ UNCHANGED vars
  <2>1. UNCHANGED <<fed, over, buffer, memory, disk, up>> BY <1>6 DEF TimePasses, vars
  <2> QED BY <1>1, <2>1 DEF DiskInv
<1> QED BY <1>2, <1>3, <1>4, <1>5, <1>6 DEF Next

(* Of a task alone on its server the disk has everything the guest sent    *)
(* but the text still collected, and a beginning of it when the process    *)
(* has ended half way.                                                     *)
THEOREM DiskKeeps == ASSUME LogAssumption, AloneAssumption PROVE Spec => []DiskKeepsTrace
<1>1. Init => DiskInv
  <2> SUFFICES ASSUME Init PROVE DiskInv OBVIOUS
  <2> QED BY LogInit DEF DiskInv, Init
<1>2. DiskInv => DiskKeepsTrace
  <2> SUFFICES ASSUME DiskInv, NEW t \in Task
               PROVE  IF up THEN LinesOf(disk[t]) \o buffer[t] = fed[t]
                            ELSE IsPrefix(LinesOf(disk[t]), fed[t])
    BY DEF DiskKeepsTrace
  <2> QED BY DEF DiskInv, LogInv, InOrder
<1> QED BY <1>1, <1>2, DiskStep, PTL DEF Spec
-------------------------------------------------------------------------------
(* less is log without some of its entries, all of them text: f tells      *)
(* where the entries of less are in log.                                   *)
Embeds(f, less, log) ==
  /\ f \in [1..Len(less) -> 1..Len(log)]
  /\ \A i, j \in 1..Len(less) : i < j => f[i] < f[j]
  /\ \A i \in 1..Len(less) : less[i] = log[f[i]]
  /\ \A j \in 1..Len(log) : (\A i \in 1..Len(less) : f[i] # j) => log[j].level = "text"

LacksTextOnly(less, log) == \E f \in [1..Len(less) -> 1..Len(log)] : Embeds(f, less, log)

LEMMA LacksAppend ==
  ASSUME NEW less \in Seq(Entry), NEW log \in Seq(Entry), NEW more \in Seq(Entry),
         LacksTextOnly(less, log)
  PROVE  LacksTextOnly(less \o more, log \o more)
<1> DEFINE a == Len(less)
           b == Len(log)
           c == Len(more)
<1>1. a \in Nat /\ b \in Nat /\ c \in Nat BY LenProperties
<1>2. PICK f \in [1..a -> 1..b] : Embeds(f, less, log) BY DEF LacksTextOnly
<1>3. /\ Len(less \o more) = a + c /\ Len(log \o more) = b + c
      /\ \A i \in 1..a + c : (less \o more)[i] = IF i <= a THEN less[i] ELSE more[i - a]
      /\ \A i \in 1..b + c : (log \o more)[i] = IF i <= b THEN log[i] ELSE more[i - b]
  BY ConcatProperties
<1>4. /\ \A i, j \in 1..a : i < j => f[i] < f[j]
      /\ \A i \in 1..a : less[i] = log[f[i]]
      /\ \A j \in 1..b : (\A i \in 1..a : f[i] # j) => log[j].level = "text"
  BY <1>2 DEF Embeds
<1> DEFINE x == less \o more
           y == log \o more
           g == [i \in 1..a + c |-> IF i <= a THEN f[i] ELSE i - a + b]
<1> HIDE DEF a, b, c, x, y
<1>5. \A i \in 1..a + c : /\ i \in 1..a => g[i] = f[i] /\ f[i] \in 1..b
                          /\ i \notin 1..a => g[i] = i - a + b /\ g[i] \in b + 1..b + c
  BY <1>1, <1>2
<1>6. g \in [1..a + c -> 1..b + c] BY <1>1, <1>2
<1> HIDE DEF g
<1>7. \A i, j \in 1..a + c : i < j => g[i] < g[j]
  <2> SUFFICES ASSUME NEW i \in 1..a + c, NEW j \in 1..a + c, i < j PROVE g[i] < g[j] OBVIOUS
  <2>1. CASE j \in 1..a
    <3>1. i \in 1..a BY <1>1, <2>1
    <3> QED BY <1>4, <1>5, <2>1, <3>1
  <2>2. CASE j \notin 1..a /\ i \in 1..a
    <3>1. g[i] \in 1..b /\ g[j] \in b + 1..b + c BY <1>5, <2>2
    <3> QED BY <1>1, <3>1
  <2>3. CASE j \notin 1..a /\ i \notin 1..a
    <3>1. g[i] = i - a + b /\ g[j] = j - a + b BY <1>5, <2>3
    <3> QED BY <1>1, <3>1
  <2> QED BY <2>1, <2>2, <2>3
<1>8. \A i \in 1..a + c : x[i] = y[g[i]]
  <2> SUFFICES ASSUME NEW i \in 1..a + c PROVE x[i] = y[g[i]] OBVIOUS
  <2>0. x[i] = (IF i <= a THEN less[i] ELSE more[i - a])
        /\ \A k \in 1..b + c : y[k] = IF k <= b THEN log[k] ELSE more[k - b]
    BY <1>3 DEF x, y
  <2>1. CASE i \in 1..a
    <3>1. g[i] = f[i] /\ f[i] \in 1..b /\ f[i] \in 1..b + c BY <1>1, <1>5, <2>1
    <3>2. x[i] = less[i] /\ y[f[i]] = log[f[i]] BY <1>1, <2>0, <2>1, <3>1
    <3> QED BY <1>4, <2>1, <3>1, <3>2
  <2>2. CASE i \notin 1..a
    <3>1. g[i] = i - a + b /\ g[i] \in 1..b + c /\ ~(g[i] <= b) /\ ~(i <= a) /\ g[i] - b = i - a
      BY <1>1, <1>5, <2>2
    <3> QED BY <2>0, <3>1
  <2> QED BY <2>1, <2>2
<1>9. \A j \in 1..b + c : (\A i \in 1..a + c : g[i] # j) => y[j].level = "text"
  <2> SUFFICES ASSUME NEW j \in 1..b + c, \A i \in 1..a + c : g[i] # j PROVE y[j].level = "text"
    OBVIOUS
  <2>1. j \in 1..b
    <3> SUFFICES ASSUME j \notin 1..b PROVE FALSE OBVIOUS
    <3>1. j - b + a \in 1..a + c /\ j - b + a \notin 1..a BY <1>1
    <3>2. g[j - b + a] = (j - b + a) - a + b BY <1>5, <3>1
    <3>3. (j - b + a) - a + b = j BY <1>1
    <3> QED BY <3>1, <3>2, <3>3
  <2>2. \A i \in 1..a : f[i] # j
    <3> SUFFICES ASSUME NEW i \in 1..a PROVE f[i] # j OBVIOUS
    <3>1. i \in 1..a + c BY <1>1
    <3> QED BY <1>5, <3>1
  <2>3. y[j] = log[j]
    <3>1. j <= b BY <1>1, <2>1
    <3> QED BY <1>3, <3>1 DEF y
  <2> QED BY <1>4, <2>1, <2>2, <2>3
<1>10. Len(x) = a + c /\ Len(y) = b + c BY <1>3 DEF x, y
<1>11. Embeds(g, x, y) /\ g \in [1..Len(x) -> 1..Len(y)]
  BY <1>6, <1>7, <1>8, <1>9, <1>10 DEF Embeds
<1>12. LacksTextOnly(x, y) BY <1>11 DEF LacksTextOnly
<1> QED BY <1>12 DEF x, y

LEMMA LacksMore ==
  ASSUME NEW less \in Seq(Entry), NEW log \in Seq(Entry), NEW more \in Seq(Entry),
         LacksTextOnly(less, log), \A i \in 1..Len(more) : more[i].level = "text"
  PROVE  LacksTextOnly(less, log \o more)
<1> DEFINE a == Len(less)
           b == Len(log)
           c == Len(more)
           y == log \o more
<1>1. a \in Nat /\ b \in Nat /\ c \in Nat BY LenProperties
<1>2. PICK f \in [1..a -> 1..b] : Embeds(f, less, log) BY Zenon DEF LacksTextOnly
<1>3. Len(y) = b + c /\ \A i \in 1..b + c : y[i] = IF i <= b THEN log[i] ELSE more[i - b]
  BY ConcatProperties
<1>4. /\ \A i, j \in 1..a : i < j => f[i] < f[j]
      /\ \A i \in 1..a : less[i] = log[f[i]]
      /\ \A j \in 1..b : (\A i \in 1..a : f[i] # j) => log[j].level = "text"
  BY <1>2 DEF Embeds
<1>5. \A i \in 1..c : more[i].level = "text" OBVIOUS
<1> HIDE DEF a, b, c, y
<1>6. f \in [1..a -> 1..Len(y)] BY <1>1, <1>2, <1>3
<1>7. \A i \in 1..a : less[i] = y[f[i]]
  <2> SUFFICES ASSUME NEW i \in 1..a PROVE less[i] = y[f[i]] OBVIOUS
  <2>1. f[i] \in 1..b BY <1>2
  <2>2. f[i] \in 1..b + c /\ f[i] <= b BY <1>1, <2>1
  <2> QED BY <1>3, <1>4, <2>2
<1>8. \A j \in 1..Len(y) : (\A i \in 1..a : f[i] # j) => y[j].level = "text"
  <2> SUFFICES ASSUME NEW j \in 1..b + c, \A i \in 1..a : f[i] # j PROVE y[j].level = "text"
    BY <1>3
  <2>1. CASE j \in 1..b
    <3>1. y[j] = log[j]
      <4>1. j <= b BY <1>1, <2>1
      <4> QED BY <1>3, <4>1
    <3> QED BY <1>4, <2>1, <3>1
  <2>2. CASE j \notin 1..b
    <3>1. ~(j <= b) /\ j - b \in 1..c BY <1>1, <2>2
    <3>2. y[j] = more[j - b] BY <1>3, <3>1
    <3> QED BY <1>5, <3>1, <3>2
  <2> QED BY <2>1, <2>2
<1> QED BY <1>4, <1>6, <1>7, <1>8 DEF LacksTextOnly, Embeds, a, y

(* Whatever the tasks, their results and cancellations: entries the disk   *)
(* lacks are text (handleGuestResult stores what FlushAll passes on in     *)
(* memory only), and it has the others, all of them, in order, once.       *)
DiskLacksTextOnly == up => \A t \in Task : LacksTextOnly(disk[t], memory[t])

LacksInv == LogInv /\ DiskLacksTextOnly

LEMMA LacksStep == ASSUME LogAssumption, LacksInv, [Next]_vars PROVE LacksInv'
<1>0. LogInv /\ Typed /\ DiskLacksTextOnly BY DEF LacksInv, LogInv
<1>1. LogInv' BY <1>0, LogStep
<1> SUFFICES DiskLacksTextOnly' BY <1>1 DEF LacksInv
<1>2. ASSUME NEW t \in Task, NEW kind \in Kind, Feed(t, kind) PROVE DiskLacksTextOnly'
  <2> DEFINE p == Passed(t, sent + 1, kind)
  <2>1. sent + 1 \in Line BY <1>0, <1>2 DEF Feed, Typed, Line, LogAssumption
  <2>2. p \in Seq(Entry) BY <1>0, <2>1, PassedLines
  <2>3. /\ up /\ memory' = [memory EXCEPT ![t] = memory[t] \o p]
        /\ disk' = [disk EXCEPT ![t] = disk[t] \o p]
    BY <1>0, <1>2 DEF Feed, Passed, Typed
  <2> HIDE DEF p
  <2> SUFFICES ASSUME NEW u \in Task PROVE LacksTextOnly(disk'[u], memory'[u])
    BY DEF DiskLacksTextOnly
  <2>4. LacksTextOnly(disk[u], memory[u]) BY <1>0, <2>3 DEF DiskLacksTextOnly
  <2>5. memory[u] \in Seq(Entry) /\ disk[u] \in Seq(Entry) BY <1>0 DEF Typed
  <2>6. CASE u = t
    <3>1. memory'[u] = memory[u] \o p /\ disk'[u] = disk[u] \o p BY <1>0, <2>3, <2>6 DEF Typed
    <3> QED BY <2>2, <2>4, <2>5, <3>1, LacksAppend
  <2>7. CASE u # t
    <3>1. memory'[u] = memory[u] /\ disk'[u] = disk[u] BY <1>0, <2>3, <2>7 DEF Typed
    <3> QED BY <2>4, <3>1
  <2> QED BY <2>6, <2>7
<1>3. ASSUME NEW t \in Task, NEW kind \in Kind, FeedFatally(t, kind) PROVE DiskLacksTextOnly'
  BY <1>3 DEF FeedFatally, DiskLacksTextOnly
<1>4. ASSUME Flush PROVE DiskLacksTextOnly'
  <2> SUFFICES ASSUME up', NEW u \in Task PROVE LacksTextOnly(disk'[u], memory'[u])
    BY DEF DiskLacksTextOnly
  <2>1. memory'[u] = memory[u] \o Flushed(u) /\ disk' = disk /\ up BY <1>4 DEF Flush
  <2>2. Flushed(u) \in Seq(Entry) BY <1>0, FlushedType
  <2>3. \A i \in 1..Len(Flushed(u)) : Flushed(u)[i].level = "text"
    <3>1. CASE buffer[u] = <<>>
      <4>1. Flushed(u) = <<>> BY <3>1 DEF Flushed
      <4> QED BY <4>1
    <3>2. CASE buffer[u] # <<>>
      <4>1. Flushed(u) = <<TextEntry(u)>> BY <3>2 DEF Flushed, TextEntry
      <4>2. TextEntry(u).level = "text" BY DEF TextEntry
      <4> HIDE DEF TextEntry
      <4> QED BY <4>1, <4>2
    <3> QED BY <3>1, <3>2
  <2>4. LacksTextOnly(disk[u], memory[u]) BY <1>0, <2>1 DEF DiskLacksTextOnly
  <2>5. memory[u] \in Seq(Entry) /\ disk[u] \in Seq(Entry) BY <1>0 DEF Typed
  <2>6. LacksTextOnly(disk[u], memory[u] \o Flushed(u))
    <3> HIDE DEF Flushed
    <3> QED BY <2>2, <2>3, <2>4, <2>5, LacksMore
  <2> QED BY <2>1, <2>6
<1>5. ASSUME NEW t \in Task, HandleResult(t) PROVE DiskLacksTextOnly'
  BY <1>4, <1>5 DEF HandleResult
<1>6. CASE HandleCancelled BY <1>4, <1>6 DEF HandleCancelled
<1>7. CASE TimePasses \/ UNCHANGED vars
  <2>1. UNCHANGED <<memory, disk, up>> BY <1>7 DEF TimePasses, vars
  <2> QED BY <1>0, <2>1 DEF DiskLacksTextOnly
<1> QED BY <1>2, <1>3, <1>5, <1>6, <1>7 DEF Next

(* For any tasks, results and cancellations, the disk lacks no entry of    *)
(* memory but text, and no entry is on it twice or out of order.           *)
THEOREM DiskLacksText == ASSUME LogAssumption PROVE Spec => []DiskLacksTextOnly
<1>1. Init => LacksInv
  <2> SUFFICES ASSUME Init, NEW t \in Task PROVE LacksTextOnly(disk[t], memory[t])
    BY LogInit DEF LacksInv, DiskLacksTextOnly
  <2>1. disk[t] = <<>> /\ memory[t] = <<>> BY DEF Init
  <2> DEFINE f == [i \in 1..0 |-> 1]
  <2>2. Len(<<>>) = 0 /\ 1..0 = {} OBVIOUS
  <2>3. f \in [1..Len(<<>>) -> 1..Len(<<>>)] BY <2>2
  <2> HIDE DEF f
  <2>4. Embeds(f, <<>>, <<>>) BY <2>2, <2>3 DEF Embeds
  <2>5. LacksTextOnly(<<>>, <<>>) BY <2>3, <2>4 DEF LacksTextOnly
  <2> QED BY <2>1, <2>5
<1>2. LacksInv => DiskLacksTextOnly BY DEF LacksInv
<1> QED BY <1>1, <1>2, LacksStep, PTL DEF Spec
-------------------------------------------------------------------------------
USE DEF Store!Place, Store!Date

(* Sequences of numbers that increase *)

Increasing(s) == \A i, j \in 1..Len(s) : i < j => s[i] < s[j]
Has(s, x) == \E i \in 1..Len(s) : s[i] = x
Before(s, t) == \A x, y \in Nat : Has(s, x) /\ Has(t, y) => x < y

LEMMA ConcatIs ==
  ASSUME NEW s \in Seq(Nat), NEW t \in Seq(Nat)
  PROVE  /\ s \o t \in Seq(Nat) /\ Len(s) \in Nat /\ Len(t) \in Nat
         /\ Len(s \o t) = Len(s) + Len(t)
         /\ \A i \in 1..Len(s) : (s \o t)[i] = s[i] /\ s[i] \in Nat
         /\ \A i \in 1..Len(t) : (s \o t)[Len(s) + i] = t[i] /\ t[i] \in Nat
<1>1. s \o t \in Seq(Nat) /\ Len(s) \in Nat /\ Len(t) \in Nat /\ Len(s \o t) = Len(s) + Len(t)
  BY ConcatProperties, LenProperties
<1>2. \A i \in 1..Len(s) + Len(t) : (s \o t)[i] = IF i <= Len(s) THEN s[i] ELSE t[i - Len(s)]
  BY ConcatProperties
<1>3. ASSUME NEW i \in 1..Len(s) PROVE (s \o t)[i] = s[i] /\ s[i] \in Nat
  <2>1. i \in 1..Len(s) + Len(t) /\ i <= Len(s) BY <1>1
  <2> QED BY <1>2, <2>1, ElementOfSeq
<1>4. ASSUME NEW i \in 1..Len(t) PROVE (s \o t)[Len(s) + i] = t[i] /\ t[i] \in Nat
  <2> DEFINE j == Len(s) + i
  <2>1. j \in 1..Len(s) + Len(t) /\ ~(j <= Len(s)) /\ j - Len(s) = i BY <1>1
  <2> HIDE DEF j
  <2>2. (s \o t)[j] = t[i] BY <1>2, <2>1
  <2> QED BY <2>2, ElementOfSeq DEF j
<1> QED BY <1>1, <1>3, <1>4

LEMMA ConcatHas ==
  ASSUME NEW s \in Seq(Nat), NEW t \in Seq(Nat)
  PROVE  \A x : Has(s \o t, x) <=> Has(s, x) \/ Has(t, x)
<1> DEFINE u == s \o t
<1>1. /\ Len(s) \in Nat /\ Len(t) \in Nat /\ Len(u) = Len(s) + Len(t)
      /\ \A i \in 1..Len(s) : u[i] = s[i]
      /\ \A i \in 1..Len(t) : u[Len(s) + i] = t[i]
  BY ConcatIs
<1> HIDE DEF u
<1>2. ASSUME NEW x, Has(u, x) PROVE Has(s, x) \/ Has(t, x)
  <2>1. PICK i \in 1..Len(u) : u[i] = x BY <1>2 DEF Has
  <2>2. CASE i <= Len(s)
    <3>1. i \in 1..Len(s) BY <1>1, <2>2
    <3> QED BY <1>1, <2>1, <3>1 DEF Has
  <2>3. CASE ~(i <= Len(s))
    <3> DEFINE k == i - Len(s)
    <3>1. k \in 1..Len(t) /\ Len(s) + k = i BY <1>1, <2>3
    <3> HIDE DEF k
    <3>2. u[Len(s) + k] = t[k] BY <1>1, <3>1
    <3>3. t[k] = x BY <2>1, <3>1, <3>2
    <3> QED BY <3>1, <3>3 DEF Has
  <2> QED BY <2>2, <2>3
<1>3. ASSUME NEW x, Has(s, x) PROVE Has(u, x)
  <2>1. PICK i \in 1..Len(s) : s[i] = x BY <1>3 DEF Has
  <2>2. i \in 1..Len(u) /\ u[i] = x BY <1>1, <2>1
  <2> QED BY <2>2 DEF Has
<1>4. ASSUME NEW x, Has(t, x) PROVE Has(u, x)
  <2>1. PICK i \in 1..Len(t) : t[i] = x BY <1>4 DEF Has
  <2>2. Len(s) + i \in 1..Len(u) /\ u[Len(s) + i] = x BY <1>1, <2>1
  <2> QED BY <2>2 DEF Has
<1> QED BY <1>2, <1>3, <1>4 DEF u

LEMMA ConcatIncreasing ==
  ASSUME NEW s \in Seq(Nat), NEW t \in Seq(Nat), Increasing(s), Increasing(t), Before(s, t)
  PROVE  Increasing(s \o t)
<1> DEFINE u == s \o t
<1>1. /\ Len(s) \in Nat /\ Len(t) \in Nat /\ Len(u) = Len(s) + Len(t)
      /\ \A i \in 1..Len(s) : u[i] = s[i] /\ s[i] \in Nat
      /\ \A i \in 1..Len(t) : u[Len(s) + i] = t[i] /\ t[i] \in Nat
  BY ConcatIs
<1> HIDE DEF u
<1>2. SUFFICES ASSUME NEW i \in 1..Len(u), NEW j \in 1..Len(u), i < j PROVE u[i] < u[j]
  BY DEF Increasing, u
<1>3. CASE j <= Len(s)
  <2>1. i \in 1..Len(s) /\ j \in 1..Len(s) BY <1>1, <1>2, <1>3
  <2>2. s[i] < s[j] BY <1>2, <2>1 DEF Increasing
  <2> QED BY <1>1, <2>1, <2>2
<1>4. CASE i > Len(s)
  <2> DEFINE k == i - Len(s)
             l == j - Len(s)
  <2>1. k \in 1..Len(t) /\ l \in 1..Len(t) /\ k < l /\ Len(s) + k = i /\ Len(s) + l = j
    BY <1>1, <1>2, <1>4
  <2> HIDE DEF k, l
  <2>2. t[k] < t[l] BY <2>1 DEF Increasing
  <2>3. u[Len(s) + k] = t[k] /\ u[Len(s) + l] = t[l] BY <1>1, <2>1
  <2> QED BY <2>1, <2>2, <2>3
<1>5. CASE i <= Len(s) /\ j > Len(s)
  <2> DEFINE l == j - Len(s)
  <2>1. i \in 1..Len(s) /\ l \in 1..Len(t) /\ Len(s) + l = j BY <1>1, <1>2, <1>5
  <2> HIDE DEF l
  <2>2. u[Len(s) + l] = t[l] /\ t[l] \in Nat /\ s[i] \in Nat /\ u[i] = s[i] BY <1>1, <2>1
  <2>3. Has(s, s[i]) /\ Has(t, t[l]) BY <2>1 DEF Has
  <2>4. s[i] < t[l] BY <2>2, <2>3 DEF Before
  <2> QED BY <2>1, <2>2, <2>4
<1> QED BY <1>1, <1>3, <1>4, <1>5

LEMMA AppendIncreasing ==
  ASSUME NEW s \in Seq(Nat), NEW x \in Nat, Increasing(s), \A y \in Nat : Has(s, y) => y < x
  PROVE  /\ Append(s, x) \in Seq(Nat) /\ Increasing(Append(s, x))
         /\ \A y : Has(Append(s, x), y) <=> Has(s, y) \/ y = x
<1> DEFINE t == <<x>>
<1>1. t \in Seq(Nat) /\ Len(t) = 1 /\ t[1] = x OBVIOUS
<1>2. Append(s, x) = s \o t BY AppendIsConcat
<1> HIDE DEF t
<1>3. Increasing(t) BY <1>1 DEF Increasing
<1>4. \A y : Has(t, y) <=> y = x BY <1>1 DEF Has
<1>5. Before(s, t) BY <1>4 DEF Before
<1>6. Increasing(s \o t) BY <1>1, <1>3, <1>5, ConcatIncreasing
<1>7. \A y : Has(s \o t, y) <=> Has(s, y) \/ Has(t, y) BY <1>1, ConcatHas
<1>8. s \o t \in Seq(Nat) BY <1>1, ConcatIs
<1> QED BY <1>2, <1>4, <1>6, <1>7, <1>8

(* The first element of a sequence that increases, and the others.         *)
LEMMA HeadTail ==
  ASSUME NEW s \in Seq(Nat), Increasing(s), s # <<>>
  PROVE  /\ Head(s) \in Nat /\ Has(s, Head(s))
         /\ Tail(s) \in Seq(Nat) /\ Increasing(Tail(s))
         /\ \A x : Has(s, x) <=> x = Head(s) \/ Has(Tail(s), x)
         /\ \A x : Has(Tail(s), x) => Head(s) < x
<1> DEFINE t == Tail(s)
<1>1. /\ Len(s) \in Nat \ {0} /\ t \in Seq(Nat) /\ Len(t) = Len(s) - 1
      /\ \A i \in 1..Len(t) : t[i] = s[i + 1]
      /\ Head(s) = s[1] /\ s[1] \in Nat
  BY HeadTailProperties, EmptySeq, ElementOfSeq, LenProperties
<1> HIDE DEF t
<1>2. ASSUME NEW i \in 1..Len(t), NEW j \in 1..Len(t), i < j PROVE t[i] < t[j]
  <2>1. i + 1 \in 1..Len(s) /\ j + 1 \in 1..Len(s) /\ i + 1 < j + 1 BY <1>1, <1>2
  <2>2. s[i + 1] < s[j + 1] BY <2>1 DEF Increasing
  <2> QED BY <1>1, <2>2
<1>3. Increasing(t) BY <1>2 DEF Increasing
<1>4. ASSUME NEW x, Has(t, x) PROVE Head(s) < x /\ Has(s, x)
  <2>1. PICK i \in 1..Len(t) : t[i] = x BY <1>4 DEF Has
  <2>2. i + 1 \in 1..Len(s) /\ 1 \in 1..Len(s) /\ 1 < i + 1 BY <1>1
  <2>3. s[1] < s[i + 1] BY <2>2 DEF Increasing
  <2>4. s[i + 1] = x BY <1>1, <2>1
  <2>5. Has(s, x) BY <2>2, <2>4 DEF Has
  <2> QED BY <1>1, <2>3, <2>4, <2>5
<1>5. ASSUME NEW x, Has(s, x) PROVE x = Head(s) \/ Has(t, x)
  <2>1. PICK i \in 1..Len(s) : s[i] = x BY <1>5 DEF Has
  <2>2. CASE i = 1 BY <1>1, <2>1, <2>2
  <2>3. CASE i # 1
    <3> DEFINE k == i - 1
    <3>1. k \in 1..Len(t) /\ k + 1 = i BY <1>1, <2>3
    <3> HIDE DEF k
    <3>2. t[k] = s[k + 1] BY <1>1, <3>1
    <3> QED BY <2>1, <3>1, <3>2 DEF Has
  <2> QED BY <2>2, <2>3
<1>6. Has(s, Head(s))
  <2>1. 1 \in 1..Len(s) BY <1>1
  <2> QED BY <1>1, <2>1 DEF Has
<1> QED BY <1>1, <1>3, <1>4, <1>5, <1>6 DEF t

(* Of two sequences that increase, one that has what the other has and     *)
(* otherwise only greater numbers begins with it.                          *)
LEMMA PrefixIs ==
  ASSUME NEW s \in Seq(Nat), NEW u \in Seq(Nat), Increasing(s), Increasing(u),
         \A x : Has(s, x) => Has(u, x),
         \A x \in Nat : Has(u, x) => Has(s, x) \/ \A y \in Nat : Has(s, y) => y < x
  PROVE  Store!IsPrefix(s, u)
<1>0. /\ Len(s) \in Nat /\ Len(u) \in Nat
      /\ \A i \in 1..Len(s) : s[i] \in Nat
      /\ \A i \in 1..Len(u) : u[i] \in Nat
  BY LenProperties, ElementOfSeq
<1> DEFINE Same(n) == n <= Len(u) /\ \A i \in 1..n : s[i] = u[i]
           S == {n \in Nat : n <= Len(s) => Same(n)}
<1>1. 0 \in S BY <1>0
<1>2. ASSUME NEW n \in Nat, n \in S PROVE n + 1 \in S
  <2> SUFFICES ASSUME n + 1 <= Len(s) PROVE Same(n + 1) OBVIOUS
  <2> DEFINE m == n + 1
  <2>0. m \in 1..Len(s) /\ m \in Nat /\ n < m /\ n <= Len(s) /\ \A i \in 1..m : i \in 1..n \/ i = m
    BY <1>0
  <2>1. n <= Len(u) /\ \A i \in 1..n : s[i] = u[i] BY <1>2, <2>0
  <2>0a. \A k \in Nat : k > n <=> k >= m OBVIOUS
  <2> HIDE DEF m, S, Same
  <2>2. Has(s, s[m]) BY <2>0 DEF Has
  <2>3. PICK k \in 1..Len(u) : u[k] = s[m] BY <2>2 DEF Has
  <2>4. k > n
    <3> SUFFICES ASSUME k <= n PROVE FALSE BY <1>0
    <3>1. k \in 1..n /\ k \in 1..Len(s) /\ k < m BY <1>0, <2>0
    <3>2. s[k] < s[m] BY <2>0, <3>1 DEF Increasing
    <3>3. s[k] = u[k] BY <2>1, <3>1
    <3> QED BY <1>0, <2>3, <3>1, <3>2, <3>3
  <2>5. m \in 1..Len(u) /\ m <= k
    <3>1. k \in Nat /\ k <= Len(u) BY <1>0
    <3>2. k >= m BY <2>0a, <2>4, <3>1
    <3>3. 1 <= m BY <2>0
    <3> QED BY <1>0, <2>0, <3>1, <3>2, <3>3
  <2>6. u[m] <= s[m]
    <3>1. CASE m = k BY <1>0, <2>3, <3>1
    <3>2. CASE m < k
      <4>1. u[m] < u[k] BY <2>5, <3>2 DEF Increasing
      <4>2. u[m] \in Nat /\ u[k] \in Nat BY <1>0, <2>5
      <4> QED BY <2>3, <4>1, <4>2
    <3>3. m = k \/ m < k BY <2>5
    <3> QED BY <3>1, <3>2, <3>3
  <2>7. Has(u, u[m]) /\ u[m] \in Nat /\ s[m] \in Nat BY <1>0, <2>0, <2>5 DEF Has
  <2>8. Has(s, u[m])
    <3>1. ~(s[m] < u[m]) BY <2>6, <2>7
    <3> QED BY <2>2, <2>7, <3>1
  <2>9. PICK l \in 1..Len(s) : s[l] = u[m] BY <2>8 DEF Has
  <2>10. l > n
    <3> SUFFICES ASSUME l <= n PROVE FALSE BY <1>0
    <3>1. l \in 1..n /\ l \in 1..Len(u) /\ l < m BY <1>0, <2>0, <2>1
    <3>2. u[l] < u[m] BY <2>5, <3>1 DEF Increasing
    <3>3. s[l] = u[l] BY <2>1, <3>1
    <3> QED BY <1>0, <2>9, <3>1, <3>2, <3>3
  <2>11. s[m] <= s[l]
    <3>1. CASE m = l BY <1>0, <2>7, <3>1
    <3>2. CASE m < l
      <4>1. s[m] < s[l] BY <2>0, <3>2 DEF Increasing
      <4>2. s[l] \in Nat BY <1>0
      <4> QED BY <2>7, <4>1, <4>2
    <3>3. m <= l BY <1>0, <2>0a, <2>10
    <3> QED BY <1>0, <2>0, <3>1, <3>2, <3>3
  <2>12. u[m] = s[m] BY <2>6, <2>7, <2>9, <2>11
  <2>13. m <= Len(u) BY <1>0, <2>5
  <2>14. \A i \in 1..m : s[i] = u[i] BY <2>0, <2>1, <2>12
  <2> QED BY <2>13, <2>14 DEF Same, m
<1>3. Nat \subseteq S
  <2> HIDE DEF S
  <2> QED BY <1>1, <1>2, SetInduction
<1>4. Len(s) <= Len(u) /\ \A i \in 1..Len(s) : s[i] = u[i] BY <1>0, <1>3
<1>5. ASSUME NEW v \in Seq(Nat), \A i \in 1..Len(s) : v[i] = s[i], Len(s) <= Len(v)
      PROVE  SubSeq(v, 1, Len(s)) = s
  <2> DEFINE w == SubSeq(v, 1, Len(s))
  <2>1. \A i \in 1..Len(s) : v[i] \in Nat BY <1>0, <1>5
  <2>2. /\ w \in Seq(Nat) /\ Len(w) = Len(s) /\ \A i \in 1..Len(s) : w[i] = v[i]
    <3>1. 1 \in Int /\ Len(s) \in Int BY <1>0
    <3>2. /\ w \in Seq(Nat)
          /\ Len(w) = IF 1 <= Len(s) THEN Len(s) - 1 + 1 ELSE 0
          /\ \A i \in 1..Len(s) - 1 + 1 : w[i] = v[1 + i - 1]
      BY <2>1, <3>1, SubSeqProperties
    <3> HIDE DEF w
    <3> QED BY <1>0, <3>2
  <2> HIDE DEF w
  <2>3. \A i \in 1..Len(s) : w[i] = s[i] BY <1>5, <2>2
  <2>4. w = s BY <2>2, <2>3, SeqEqual
  <2> QED BY <2>4 DEF w
<1>6. SubSeq(s, 1, Len(s)) = s BY <1>0, <1>5
<1>7. SubSeq(u, 1, Len(s)) = s BY <1>4, <1>5
<1> QED BY <1>4, <1>6, <1>7 DEF Store!IsPrefix
-------------------------------------------------------------------------------
(* The concatenation of sequences that follow one another.                 *)
LEMMA FlattenIncreasing ==
  ASSUME NEW s \in Seq(Seq(Nat)),
         \A i \in 1..Len(s) : Increasing(s[i]),
         \A i, j \in 1..Len(s) : i < j => Before(s[i], s[j])
  PROVE  /\ FlattenSeq(s) \in Seq(Nat) /\ Increasing(FlattenSeq(s))
         /\ \A x : Has(FlattenSeq(s), x) <=> \E i \in 1..Len(s) : Has(s[i], x)
<1> DEFINE T == Seq(Nat)
<1>0. Len(s) \in Nat /\ \A i \in 1..Len(s) : s[i] \in T
  <2> HIDE DEF T
  <2>1. s \in Seq(T) BY DEF T
  <2> QED BY <2>1, LenProperties, ElementOfSeq
<1>1. CASE s = <<>>
  <2>1. FlattenSeq(s) = <<>> /\ Len(s) = 0 /\ Len(<<>>) = 0 /\ <<>> \in Seq(Nat)
    BY <1>1, FlattenEmpty, EmptySeq
  <2> QED BY <2>1 DEF Increasing, Has
<1>2. CASE s # <<>>
  <2>1. PICK f \in [1..Len(s) -> Seq(Nat)] : Flattens(f, s, Len(s)) /\ FlattenSeq(s) = f[Len(s)]
    BY <1>2, FlattenIs
  <2> DEFINE Good(n) == /\ Increasing(f[n])
                        /\ \A x : Has(f[n], x) <=> \E i \in 1..n : Has(s[i], x)
             S == {n \in Nat : n \in 1..Len(s) => Good(n)}
  <2>2. 0 \in S OBVIOUS
  <2>3. ASSUME NEW n \in Nat, n \in S PROVE n + 1 \in S
    <3> SUFFICES ASSUME n + 1 \in 1..Len(s) PROVE Good(n + 1) OBVIOUS
    <3> DEFINE m == n + 1
    <3>1. m \in 1..Len(s) /\ m - 1 = n /\ m \in Nat /\ (n = 0 <=> m = 1) /\ (n # 0 =>
            n \in 1..Len(s))
          /\ (\A i : i \in 1..m <=> i \in 1..n \/ i = m) /\ n < m
      BY <1>0
    <3>2. n # 0 => Good(n) BY <2>3, <3>1
    <3> HIDE DEF m, S, Good
    <3>3. f[m] = IF m = 1 THEN s[m] ELSE f[m - 1] \o s[m] BY <2>1, <3>1 DEF Flattens
    <3>4. s[m] \in Seq(Nat) /\ Increasing(s[m]) BY <1>0, <3>1
    <3>5. CASE n = 0
      <4>1. f[m] = s[m] BY <3>1, <3>3, <3>5
      <4>2. \A i \in 1..m : i = m BY <3>1, <3>5
      <4>3. m \in 1..m BY <3>1
      <4>4. \A x : Has(f[m], x) <=> \E i \in 1..m : Has(s[i], x) BY <4>1, <4>2, <4>3
      <4> QED BY <3>4, <4>1, <4>4 DEF Good, m
    <3>6. CASE n # 0
      <4>1. f[m] = f[n] \o s[m] BY <3>1, <3>3, <3>6
      <4>2. Increasing(f[n]) /\ \A x : Has(f[n], x) <=> \E i \in 1..n : Has(s[i], x)
        BY <3>2, <3>6 DEF Good
      <4>3. f[n] \in Seq(Nat) BY <2>1, <3>1, <3>6
      <4>4. Before(f[n], s[m])
        <5> SUFFICES ASSUME NEW x \in Nat, NEW y \in Nat, Has(f[n], x), Has(s[m], y) PROVE x < y
          BY DEF Before
        <5>1. PICK i \in 1..n : Has(s[i], x) BY <4>2
        <5>2. i \in 1..Len(s) /\ i < m BY <1>0, <3>1
        <5>3. Before(s[i], s[m]) BY <3>1, <5>2
        <5> QED BY <5>1, <5>3 DEF Before
      <4>5. Increasing(f[n] \o s[m]) BY <3>4, <4>2, <4>3, <4>4, ConcatIncreasing
      <4>6. \A x : Has(f[n] \o s[m], x) <=> Has(f[n], x) \/ Has(s[m], x)
        BY <3>4, <4>3, ConcatHas
      <4>7. \A x : Has(f[m], x) <=> \E i \in 1..m : Has(s[i], x) BY <3>1, <4>1, <4>2, <4>6
      <4> QED BY <4>1, <4>5, <4>7 DEF Good, m
    <3> QED BY <3>5, <3>6
  <2>4. Nat \subseteq S
    <3> HIDE DEF S
    <3> QED BY <2>2, <2>3, SetInduction
  <2>5. Len(s) \in 1..Len(s) BY <1>0, <1>2, EmptySeq
  <2>6. Good(Len(s)) BY <1>0, <2>4, <2>5
  <2> QED BY <2>1, <2>5, <2>6
<1> QED BY <1>1, <1>2

(* f[d] lists those of the first d dates that are in dates. *)
UpTo(f, dates, n) ==
  /\ f[0] = <<>>
  /\ \A d \in 1..n : f[d] = IF d \in dates THEN Append(f[d - 1], d) ELSE f[d - 1]

Lists(s, dates, n) ==
  s \in Seq(Nat) /\ Increasing(s) /\ \A d : Has(s, d) <=> d \in dates /\ d \in 1..n

LEMMA ListsNext ==
  ASSUME NEW s, NEW dates, NEW n \in Nat, Lists(s, dates, n), NEW m, m = n + 1
  PROVE  Lists(IF m \in dates THEN Append(s, m) ELSE s, dates, m)
<1>1. m \in Nat /\ (\A d : d \in 1..m <=> d \in 1..n \/ d = m) BY SMT
<1>2. CASE m \in dates
  <2>1. \A y \in Nat : Has(s, y) => y < m BY DEF Lists
  <2>2. s \in Seq(Nat) /\ Increasing(s) BY DEF Lists
  <2>3. /\ Append(s, m) \in Seq(Nat) /\ Increasing(Append(s, m))
        /\ \A y : Has(Append(s, m), y) <=> Has(s, y) \/ y = m
    BY <1>1, <2>1, <2>2, AppendIncreasing
  <2>4. \A d : Has(Append(s, m), d) <=> d \in dates /\ d \in 1..m
    BY <1>1, <1>2, <2>3 DEF Lists
  <2>5. Lists(Append(s, m), dates, m) BY <2>3, <2>4 DEF Lists
  <2> QED BY <1>2, <2>5
<1>3. CASE m \notin dates BY <1>1, <1>3 DEF Lists
<1> QED BY <1>2, <1>3

LEMMA UpToExists ==
  ASSUME NEW dates, NEW n \in Nat
  PROVE  \E f \in [0..n -> Seq(Nat)] : UpTo(f, dates, n)
<1> DEFINE S == {k \in Nat : \E f \in [0..k -> Seq(Nat)] : UpTo(f, dates, k)}
<1>1. 0 \in S
  <2> DEFINE f == [d \in 0..0 |-> <<>>]
  <2>1. f \in [0..0 -> Seq(Nat)] /\ f[0] = <<>> OBVIOUS
  <2>2. UpTo(f, dates, 0) BY DEF UpTo
  <2> HIDE DEF f
  <2> QED BY <2>1, <2>2
<1>2. ASSUME NEW k \in Nat, k \in S PROVE k + 1 \in S
  <2>1. PICK f \in [0..k -> Seq(Nat)] : UpTo(f, dates, k) BY <1>2
  <2> DEFINE last == IF k + 1 \in dates THEN Append(f[k], k + 1) ELSE f[k]
             g == [d \in 0..k + 1 |-> IF d <= k THEN f[d] ELSE last]
  <2>2. f[k] \in Seq(Nat) /\ k + 1 \in Nat BY <2>1
  <2>3. last \in Seq(Nat) BY <2>2, AppendProperties
  <2>4. g \in [0..k + 1 -> Seq(Nat)]
    <3> HIDE DEF last
    <3> QED BY <2>1, <2>3
  <2>5. g[0] = <<>> BY <2>1 DEF UpTo
  <2>6. ASSUME NEW d \in 1..k + 1
        PROVE  g[d] = IF d \in dates THEN Append(g[d - 1], d) ELSE g[d - 1]
    <3>1. CASE d <= k
      <4>1. d \in 1..k /\ g[d] = f[d] /\ g[d - 1] = f[d - 1] BY <3>1
      <4> QED BY <2>1, <4>1 DEF UpTo
    <3>2. CASE d = k + 1
      <4>1. g[d] = last /\ g[d - 1] = f[k] BY <3>2
      <4> QED BY <3>2, <4>1
    <3> QED BY <3>1, <3>2
  <2> HIDE DEF g
  <2>7. UpTo(g, dates, k + 1) BY <2>5, <2>6 DEF UpTo
  <2> QED BY <2>4, <2>7
<1>3. Nat \subseteq S
  <2> HIDE DEF S
  <2> QED BY <1>1, <1>2, SetInduction
<1> QED BY <1>3

LEMMA UpToLists ==
  ASSUME NEW dates, NEW n \in Nat, NEW f, UpTo(f, dates, n)
  PROVE  Lists(f[n], dates, n)
<1> DEFINE S == {k \in Nat : k <= n => Lists(f[k], dates, k)}
<1>1. 0 \in S
  <2>1. f[0] = <<>> /\ Len(<<>>) = 0 /\ <<>> \in Seq(Nat) BY EmptySeq DEF UpTo
  <2>2. Lists(f[0], dates, 0) BY <2>1 DEF Lists, Increasing, Has
  <2> QED BY <2>2
<1>2. ASSUME NEW k \in Nat, k \in S PROVE k + 1 \in S
  <2> SUFFICES ASSUME k + 1 <= n PROVE Lists(f[k + 1], dates, k + 1) OBVIOUS
  <2> DEFINE m == k + 1
  <2>1. m \in 1..n /\ m = k + 1 /\ m - 1 = k OBVIOUS
  <2>2. Lists(f[k], dates, k) BY <1>2
  <2> HIDE DEF m, S
  <2>3. f[m] = IF m \in dates THEN Append(f[m - 1], m) ELSE f[m - 1] BY <2>1 DEF UpTo
  <2>4. Lists(IF m \in dates THEN Append(f[k], m) ELSE f[k], dates, m) BY <2>1, <2>2, ListsNext
  <2>5. Lists(f[m], dates, m) BY <2>1, <2>3, <2>4
  <2> QED BY <2>5 DEF m
<1>3. Nat \subseteq S
  <2> HIDE DEF S
  <2> QED BY <1>1, <1>2, SetInduction
<1> QED BY <1>3

LEMMA SortedLists ==
  ASSUME LastDate \in Nat, NEW dates
  PROVE  Lists(Store!Sorted(dates), dates, LastDate)
<1> DEFINE Fix(f) == f = [d \in 0..LastDate |-> IF d = 0 THEN <<>>
                            ELSE IF d \in dates THEN Append(f[d - 1], d) ELSE f[d - 1]]
           c == CHOOSE f : Fix(f)
<1>1. PICK f \in [0..LastDate -> Seq(Nat)] : UpTo(f, dates, LastDate) BY UpToExists
<1>2. Fix(f)
  <2> DEFINE g == [d \in 0..LastDate |-> IF d = 0 THEN <<>>
                     ELSE IF d \in dates THEN Append(f[d - 1], d) ELSE f[d - 1]]
  <2>1. ASSUME NEW d \in 0..LastDate PROVE f[d] = g[d]
    <3>1. CASE d = 0 BY <1>1, <3>1 DEF UpTo
    <3>2. CASE d # 0
      <4>1. d \in 1..LastDate BY <3>2
      <4> QED BY <1>1, <3>2, <4>1 DEF UpTo
    <3> QED BY <3>1, <3>2
  <2>2. f = [d \in 0..LastDate |-> f[d]] BY <1>1
  <2>3. g = [d \in 0..LastDate |-> g[d]] OBVIOUS
  <2> HIDE DEF g
  <2>4. f = g BY <2>1, <2>2, <2>3, Zenon
  <2> QED BY <2>4 DEF g
<1>3. Fix(c)
  <2> HIDE DEF Fix
  <2> QED BY <1>2
<1>4. Store!Sorted(dates) = c[LastDate] BY DEF Store!Sorted
<1> HIDE DEF c
<1>5. UpTo(c, dates, LastDate)
  <2>1. ASSUME NEW d \in 0..LastDate
        PROVE  c[d] = IF d = 0 THEN <<>>
                      ELSE IF d \in dates THEN Append(c[d - 1], d) ELSE c[d - 1]
    BY <1>3, <2>1, Zenon
  <2>2. c[0] = <<>> BY <2>1
  <2>3. ASSUME NEW d \in 1..LastDate
        PROVE  c[d] = IF d \in dates THEN Append(c[d - 1], d) ELSE c[d - 1]
    <3>1. d \in 0..LastDate /\ d # 0 OBVIOUS
    <3> HIDE DEF Fix
    <3> QED BY <2>1, <3>1, Zenon
  <2> QED BY <2>2, <2>3 DEF UpTo
<1>6. Lists(c[LastDate], dates, LastDate)
  <2> HIDE DEF Fix
  <2> QED BY <1>5, UpToLists
<1> QED BY <1>4, <1>6
-------------------------------------------------------------------------------
(* The invariant of the store. *)

Stream == [n : Nat, whole : BOOLEAN]

StoreTyped ==
  /\ today \in Store!Date /\ today >= FirstDate /\ number \in Nat
  /\ stream \in [Store!Place -> Seq(Stream)] /\ exists \subseteq Store!Place
  /\ append \in [at : {"idle", "open", "write", "close"},
      place : Store!Place \cup {Store!Nobody.place}, n : Nat]
  /\ logged \in [Store!Place -> Seq(Nat)]
  /\ download \in [at : {"idle", "list", "look", "read"}, task : StoreTask \cup {Store!Idle.task},
                   dates : Seq(Nat), found : Seq(Nat), out : Seq(Nat), due : Seq(Nat)]
  /\ answer \in [of : {"nothing", "trace", "entries"}, ok : BOOLEAN,
                 got : Seq(Nat), due : Seq(Nat)]

(* Append has written a entry to this stream and not finished it. *)
Unfinished(p) == append.at = "close" /\ p = append.place

(* How many of its streams are not being written. *)
Past(p) == IF Unfinished(p) THEN Len(stream[p]) - 1 ELSE Len(stream[p])

(* Unless a crash has spoilt it, a stream has what was logged, with the      *)
(* entry that is being written behind it.                                 *)
FilesOK ==
  /\ \A p \in Legacy : p \notin exists /\ logged[p] = <<0>>
  /\ \A p \in Store!Place \ Legacy : logged[p] # <<>> => p \in exists
  /\ \A p \in Store!Place : Unfinished(p) =>
       Len(stream[p]) # 0 /\ stream[p][Len(stream[p])] = [n |-> append.n, whole |-> FALSE]
  /\ \A p \in Store!Place \ Legacy : (\A i \in 1..Past(p) : stream[p][i].whole) =>
       Len(logged[p]) = Past(p) /\ \A i \in 1..Past(p) : logged[p][i] = stream[p][i].n

(* Append is at the newest entry, and at the newest date of those that     *)
(* have entries.                                                           *)
AppendOK ==
  /\ append.at # "idle" =>
       /\ append.place \in Store!Place /\ append.n = number
       /\ FirstDate <= append.place[1] /\ append.place[1] <= today
  /\ append.at \in {"write", "close"} => append.place \in exists
  /\ \A p \in Store!Place, x \in Nat : Has(logged[p], x) =>
       /\ p[1] <= today /\ x <= number
       /\ append.at # "idle" => p[1] <= append.place[1] /\ x < number

OrderOK ==
  /\ \A p \in Store!Place : Increasing(logged[p])
  /\ \A p, q \in Store!Place : p[2] = q[2] /\ p[1] < q[1] => Before(logged[p], logged[q])

StoreInv == StoreTyped /\ FilesOK /\ AppendOK /\ OrderOK


LEMMA HasSome ==
  ASSUME NEW s \in Seq(Nat)
  PROVE  /\ s # <<>> <=> \E x \in Nat : Has(s, x)
         /\ \A x : Has(s, x) => x \in Nat
<1>1. Len(s) \in Nat /\ \A i \in 1..Len(s) : s[i] \in Nat BY LenProperties, ElementOfSeq
<1>2. s # <<>> => 1 \in 1..Len(s) BY <1>1, EmptySeq
<1>3. s # <<>> => Has(s, s[1]) /\ s[1] \in Nat BY <1>1, <1>2 DEF Has
<1>4. s = <<>> => Len(s) = 0 BY EmptySeq
<1> QED BY <1>1, <1>3, <1>4 DEF Has

LEMMA StoreInit == ASSUME Store!LogStoreAssumption, Store!Init PROVE StoreInv
<1> USE DEF Store!LogStoreAssumption
<1>0. <<>> \in Seq(Nat) /\ <<0>> \in Seq(Nat) /\ <<>> \in Seq(Stream)
      /\ Len(<<>>) = 0 /\ Len(<<0>>) = 1 /\ <<0>>[1] = 0
  BY EmptySeq
<1>a. Legacy \subseteq Store!Place /\ \A p \in Legacy : p[1] < FirstDate OBVIOUS
<1>1. StoreTyped
  <2>1. append = Store!Nobody /\ download = Store!Idle /\ answer = Store!Unasked /\
          exists = {} /\ number = 0 /\ today = FirstDate
    BY DEF Store!Init
  <2>2. stream \in [Store!Place -> Seq(Stream)] /\ logged \in [Store!Place -> Seq(Nat)]
    BY <1>0 DEF Store!Init
  <2>3. append \in [at : {"idle", "open", "write", "close"},
      place : Store!Place \cup {Store!Nobody.place}, n : Nat]
    BY <2>1 DEF Store!Nobody
  <2>4. download \in [at : {"idle", "list", "look", "read"},
          task : StoreTask \cup {Store!Idle.task},
                   dates : Seq(Nat), found : Seq(Nat), out : Seq(Nat), due : Seq(Nat)]
    BY <1>0, <2>1 DEF Store!Idle
  <2>5. answer \in [of : {"nothing", "trace", "entries"}, ok : BOOLEAN, got : Seq(Nat),
          due : Seq(Nat)]
    BY <1>0, <2>1 DEF Store!Unasked
  <2> QED BY <2>1, <2>2, <2>3, <2>4, <2>5 DEF StoreTyped
<1>2. append.at = "idle" BY DEF Store!Init, Store!Nobody
<1>3. \A p \in Store!Place : logged[p] = IF p \in Legacy THEN <<0>> ELSE <<>> BY DEF Store!Init
<1>4. \A p \in Store!Place : stream[p] = <<>> BY DEF Store!Init
<1>5. \A x : ~Has(<<>>, x) /\ (Has(<<0>>, x) => x = 0) BY <1>0 DEF Has
<1>6. FilesOK
  <2>1. exists = {} BY DEF Store!Init
  <2>2. \A p \in Store!Place : ~Unfinished(p) /\ Past(p) = 0
    BY <1>0, <1>2, <1>4 DEF Unfinished, Past
  <2> QED BY <1>0, <1>a, <1>3, <2>1, <2>2 DEF FilesOK
<1>7. AppendOK
  <2>1. \A p \in Store!Place, x \in Nat : Has(logged[p], x) => p \in Legacy /\ x = 0
    BY <1>3, <1>5
  <2>2. today = FirstDate /\ number = 0 BY DEF Store!Init
  <2>3. \A p \in Legacy : p[1] <= today BY <1>a, <2>2
  <2> QED BY <1>2, <2>1, <2>2, <2>3 DEF AppendOK
<1>8. OrderOK
  <2>1. Increasing(<<>>) /\ Increasing(<<0>>) BY <1>0 DEF Increasing
  <2>2. ASSUME NEW p \in Store!Place, NEW q \in Store!Place, p[2] = q[2], p[1] < q[1]
        PROVE  Before(logged[p], logged[q])
    <3>1. p \notin Legacy \/ q \notin Legacy BY <1>a, <2>2
    <3>2. logged[p] = <<>> \/ logged[q] = <<>> BY <1>3, <3>1
    <3> QED BY <1>5, <3>2 DEF Before
  <2> QED BY <1>3, <2>1, <2>2 DEF OrderOK
<1> QED BY <1>1, <1>6, <1>7, <1>8 DEF StoreInv

(* Closing a entry adds the newest entry to the log of its place. *)
LEMMA CloseLogs ==
  ASSUME Store!LogStoreAssumption, StoreInv, Store!Close
  PROVE  /\ append.place \in Store!Place /\ append.n = number
         /\ logged' \in [Store!Place -> Seq(Nat)]
         /\ \A p \in Store!Place : Increasing(logged'[p])
         /\ \A p \in Store!Place : \A x : Has(logged'[p], x) <=>
              Has(logged[p], x) \/ (p = append.place /\ x = number)
         /\ \A p \in Store!Place : p # append.place => logged'[p] = logged[p]
         /\ logged'[append.place] = Append(logged[append.place], number)
<1> USE DEF StoreInv
<1>1. append.place \in Store!Place /\ append.n = number /\ append.at = "close"
  BY DEF Store!Close, AppendOK
<1>2. logged' = [logged EXCEPT ![append.place] = Append(logged[append.place], number)]
  BY <1>1 DEF Store!Close
<1>3. logged \in [Store!Place -> Seq(Nat)] /\ number \in Nat BY DEF StoreTyped
<1> DEFINE l == logged[append.place]
<1>4. l \in Seq(Nat) /\ Increasing(l) BY <1>1, <1>3 DEF OrderOK
<1>5. \A y \in Nat : Has(l, y) => y < number BY <1>1 DEF AppendOK
<1>6. \A p \in Store!Place : logged'[p] = IF p = append.place THEN Append(l, number) ELSE logged[p]
  BY <1>2, <1>3
<1> HIDE DEF l
<1>7. /\ Append(l, number) \in Seq(Nat) /\ Increasing(Append(l, number))
      /\ \A y : Has(Append(l, number), y) <=> Has(l, y) \/ y = number
  BY <1>3, <1>4, <1>5, AppendIncreasing
<1>8. logged' \in [Store!Place -> Seq(Nat)]
  <2>1. logged' = [p \in Store!Place |-> logged'[p]] BY <1>2, <1>3
  <2>2. \A p \in Store!Place : logged'[p] \in Seq(Nat) BY <1>3, <1>6, <1>7
  <2> QED BY <2>1, <2>2
<1>9. \A p \in Store!Place : Increasing(logged'[p]) BY <1>6, <1>7 DEF OrderOK
<1>10. \A p \in Store!Place : \A x : Has(logged'[p], x) <=> Has(logged[p], x) \/
         (p = append.place /\ x = number)
  BY <1>6, <1>7 DEF l
<1>11. \A p \in Store!Place : p # append.place => logged'[p] = logged[p] BY <1>6
<1>12. logged'[append.place] = Append(logged[append.place], number) BY <1>1, <1>6 DEF l
<1> QED BY <1>1, <1>8, <1>9, <1>10, <1>11, <1>12
-------------------------------------------------------------------------------

LEMMA FilesKept ==
  ASSUME Store!LogStoreAssumption, FilesOK, UNCHANGED <<stream, exists, logged>>,
         \A p \in Store!Place : Unfinished(p)' => Unfinished(p) /\ append'.n = append.n,
         \A p \in Store!Place : Past(p)' = Past(p)
  PROVE  FilesOK'
<1>1. /\ \A p \in Legacy : p \notin exists' /\ logged'[p] = <<0>>
      /\ \A p \in Store!Place \ Legacy : logged'[p] # <<>> => p \in exists'
  BY DEF FilesOK
<1>2. ASSUME NEW p \in Store!Place, Unfinished(p)'
      PROVE  Len(stream'[p]) # 0 /\ stream'[p][Len(stream'[p])] = [n |-> append'.n, whole |-> FALSE]
  BY <1>2 DEF FilesOK
<1>3. ASSUME NEW p \in Store!Place \ Legacy, \A i \in 1..Past(p)' : stream'[p][i].whole
      PROVE  Len(logged'[p]) = Past(p)' /\ \A i \in 1..Past(p)' : logged'[p][i] = stream'[p][i].n
  <2>1. Past(p)' = Past(p) /\ stream' = stream /\ logged' = logged OBVIOUS
  <2>2. \A i \in 1..Past(p) : stream[p][i].whole BY <1>3, <2>1
  <2>3. Len(logged[p]) = Past(p) /\ \A i \in 1..Past(p) : logged[p][i] = stream[p][i].n
    BY <2>2 DEF FilesOK
  <2> QED BY <2>1, <2>3
<1> QED BY <1>1, <1>2, <1>3 DEF FilesOK

LEMMA StoreBegin ==
  ASSUME Store!LogStoreAssumption, StoreInv, NEW t \in StoreTask, Store!Begin(t) PROVE StoreInv'
<1> USE DEF Store!LogStoreAssumption, StoreInv
<1>1. /\ append.at = "idle" /\ number' = number + 1
      /\ append' = [at |-> "open", place |-> <<today, t>>, n |-> number + 1]
      /\ UNCHANGED <<today, stream, exists, logged, download, answer>>
  BY DEF Store!Begin
<1>2. /\ append'.at = "open" /\ append'.place = <<today, t>> /\ append'.n = number + 1
      /\ <<today, t>> \in Store!Place /\ <<today, t>>[1] = today
  BY <1>1 DEF StoreTyped
<1>3. StoreTyped' BY <1>1, <1>2 DEF StoreTyped
<1>4. FilesOK'
  <2>1. \A p \in Store!Place : ~Unfinished(p) /\ ~Unfinished(p)' BY <1>1, <1>2 DEF Unfinished
  <2>2. \A p \in Store!Place : Past(p)' = Past(p) BY <1>1, <2>1 DEF Past
  <2> QED BY <1>1, <2>1, <2>2, FilesKept
<1>5. AppendOK'
  <2>1. \A p \in Store!Place, x \in Nat : Has(logged[p], x) => p[1] <= today /\ x < number + 1
    <3> SUFFICES ASSUME NEW p \in Store!Place, NEW x \in Nat, Has(logged[p], x)
                 PROVE  p[1] <= today /\ x < number + 1
      OBVIOUS
    <3>1. p[1] <= today /\ x <= number BY DEF AppendOK
    <3> QED BY <3>1 DEF StoreTyped
  <2>2. FirstDate <= today /\ today <= today BY DEF StoreTyped
  <2>3. \A p \in Store!Place, x \in Nat : Has(logged[p], x) => x <= number + 1
    BY <2>1 DEF StoreTyped
  <2> QED BY <1>1, <1>2, <2>1, <2>2, <2>3 DEF AppendOK
<1>6. OrderOK' BY <1>1 DEF OrderOK
<1> QED BY <1>3, <1>4, <1>5, <1>6

LEMMA StoreOpen ==
  ASSUME Store!LogStoreAssumption, StoreInv, Store!Open PROVE StoreInv'
<1> USE DEF StoreInv
<1>1. /\ append.at = "open" /\ exists' = exists \cup {append.place}
      /\ append' = [append EXCEPT !.at = "write"]
      /\ UNCHANGED <<today, number, stream, logged, download, answer>>
  BY DEF Store!Open
<1>2. append'.at = "write" /\ append'.place = append.place /\ append'.n = append.n /\
        append.place \in Store!Place
      /\ append.place[1] >= FirstDate
  BY <1>1 DEF StoreTyped, AppendOK
<1>3. StoreTyped'
  <2>1. append' \in [at : {"idle", "open", "write", "close"},
      place : Store!Place \cup {Store!Nobody.place}, n : Nat]
    BY <1>1 DEF StoreTyped
  <2> QED BY <1>1, <1>2, <2>1 DEF StoreTyped
<1>4. FilesOK'
  <2>1. \A p \in Store!Place : ~Unfinished(p) /\ ~Unfinished(p)' BY <1>1, <1>2 DEF Unfinished
  <2>2. \A p \in Store!Place : Past(p)' = Past(p) BY <1>1, <2>1 DEF Past
  <2>3. \A p \in Legacy : p[1] < FirstDate /\ p[1] \in Nat /\ FirstDate \in Nat
    BY DEF Store!LogStoreAssumption
  <2>4. append.place \notin Legacy BY <1>2, <2>3
  <2> QED BY <1>1, <2>1, <2>2, <2>4 DEF FilesOK
<1>5. AppendOK' BY <1>1, <1>2 DEF AppendOK
<1>6. OrderOK' BY <1>1 DEF OrderOK
<1> QED BY <1>3, <1>4, <1>5, <1>6

LEMMA StoreWrite ==
  ASSUME Store!LogStoreAssumption, StoreInv, Store!Write PROVE StoreInv'
<1> USE DEF StoreInv
<1> DEFINE here == append.place
           entry == [n |-> append.n, whole |-> FALSE]
<1>1. /\ append.at = "write" /\ stream' = [stream EXCEPT ![here] = Append(stream[here], entry)]
      /\ append' = [append EXCEPT !.at = "close"]
      /\ UNCHANGED <<today, number, exists, logged, download, answer>>
  BY DEF Store!Write
<1>2. append'.at = "close" /\ append'.place = here /\ append'.n = append.n /\ here \in Store!Place
  BY <1>1 DEF StoreTyped, AppendOK
<1>3. entry \in Stream /\ stream[here] \in Seq(Stream) BY <1>2 DEF StoreTyped, Stream
<1> HIDE DEF here, entry
<1> DEFINE more == Append(stream[here], entry)
<1>4. /\ more \in Seq(Stream) /\ Len(stream[here]) \in Nat /\ Len(more) = Len(stream[here]) + 1
      /\ more[Len(stream[here]) + 1] = entry
      /\ \A i \in 1..Len(stream[here]) : more[i] = stream[here][i]
  BY <1>3, AppendProperties, LenProperties
<1> HIDE DEF more
<1>5. \A p \in Store!Place : stream'[p] = IF p = here THEN more ELSE stream[p]
  BY <1>1 DEF StoreTyped, more
<1>6. StoreTyped'
  <2>1. append' \in [at : {"idle", "open", "write", "close"},
      place : Store!Place \cup {Store!Nobody.place}, n : Nat]
    BY <1>1 DEF StoreTyped
  <2>2. stream' \in [Store!Place -> Seq(Stream)]
    <3>1. stream' = [p \in Store!Place |-> stream'[p]] BY <1>1 DEF StoreTyped
    <3>2. \A p \in Store!Place : stream'[p] \in Seq(Stream) BY <1>4, <1>5 DEF StoreTyped
    <3> QED BY <3>1, <3>2
  <2> QED BY <1>1, <2>1, <2>2 DEF StoreTyped
<1>7. FilesOK'
  <2>1. \A p \in Store!Place : ~Unfinished(p) /\ (Unfinished(p)' <=> p = here)
    BY <1>1, <1>2 DEF Unfinished
  <2>2. \A p \in Store!Place : Past(p)' = Past(p)
    <3> SUFFICES ASSUME NEW p \in Store!Place PROVE Past(p)' = Past(p) OBVIOUS
    <3>1. CASE p = here
      <4>1. Past(p)' = Len(more) - 1 BY <1>2, <1>5, <2>1, <3>1 DEF Past
      <4>2. Past(p) = Len(stream[here]) BY <2>1, <3>1 DEF Past
      <4> QED BY <1>4, <4>1, <4>2
    <3>2. CASE p # here BY <1>5, <2>1, <3>2 DEF Past
    <3> QED BY <3>1, <3>2
  <2>3. Past(here) = Len(stream[here]) BY <1>2, <2>1 DEF Past
  <2>4. \A p \in Store!Place : Unfinished(p)' =>
          Len(stream'[p]) # 0 /\ stream'[p][Len(stream'[p])] = [n |-> append'.n, whole |-> FALSE]
    BY <1>2, <1>4, <1>5, <2>1 DEF entry
  <2>5. \A p \in Store!Place : \A i \in 1..Past(p) : stream'[p][i] = stream[p][i]
    BY <1>4, <1>5, <2>3
  <2>6. UNCHANGED <<exists, logged>> BY <1>1
  <2>7. \A p \in Store!Place \ Legacy : (\A i \in 1..Past(p)' : stream'[p][i].whole) =>
       Len(logged'[p]) = Past(p)' /\ \A i \in 1..Past(p)' : logged'[p][i] = stream'[p][i].n
    BY <2>2, <2>5, <2>6 DEF FilesOK
  <2>8. /\ \A p \in Legacy : p \notin exists' /\ logged'[p] = <<0>>
        /\ \A p \in Store!Place \ Legacy : logged'[p] # <<>> => p \in exists'
    BY <2>6 DEF FilesOK
  <2> QED BY <2>4, <2>7, <2>8 DEF FilesOK
<1>8. AppendOK'
  <2>1. here \in exists BY <1>1 DEF AppendOK, here
  <2> QED BY <1>1, <1>2, <2>1 DEF AppendOK, here
<1>9. OrderOK' BY <1>1 DEF OrderOK
<1> QED BY <1>6, <1>7, <1>8, <1>9

LEMMA StoreClose ==
  ASSUME Store!LogStoreAssumption, StoreInv, Store!Close PROVE StoreInv'
<1> USE DEF StoreInv
<1> DEFINE here == append.place
           entry == [n |-> append.n, whole |-> TRUE]
<1>1. /\ append.at = "close"
      /\ stream' = [stream EXCEPT ![here] = Store!ReplaceAt(stream[here], Len(stream[here]), entry)]
      /\ append' = Store!Nobody
      /\ UNCHANGED <<today, number, exists, download, answer>>
  BY DEF Store!Close
<1>2. /\ here \in Store!Place /\ append.n = number
      /\ logged' \in [Store!Place -> Seq(Nat)]
      /\ \A p \in Store!Place : Increasing(logged'[p])
      /\ \A p \in Store!Place : \A x : Has(logged'[p], x) <=> Has(logged[p], x) \/
           (p = here /\ x = number)
      /\ \A p \in Store!Place : p # here => logged'[p] = logged[p]
      /\ logged'[here] = Append(logged[here], number)
  BY CloseLogs
<1>3. append'.at = "idle" /\ append' = Store!Nobody BY <1>1 DEF Store!Nobody
<1>4. entry \in Stream /\ entry.whole /\ entry.n = number /\ stream[here] \in Seq(Stream) /\
        number \in Nat
  BY <1>2 DEF StoreTyped, Stream
<1>5. Len(stream[here]) # 0 BY <1>1, <1>2 DEF FilesOK, Unfinished
<1> HIDE DEF here, entry
<1> DEFINE new == Store!ReplaceAt(stream[here], Len(stream[here]), entry)
           len == Len(stream[here])
<1>6. /\ new \in Seq(Stream) /\ len \in Nat \ {0} /\ Len(new) = len
      /\ new[len] = entry /\ \A i \in 1..len - 1 : new[i] = stream[here][i]
  <2>1. len \in Nat \ {0} /\ stream[here] \in [1..len -> Stream] BY <1>4, <1>5, LenProperties
  <2>2. new = [stream[here] EXCEPT ![len] = entry] BY DEF Store!ReplaceAt
  <2> HIDE DEF new, len
  <2>3. new \in [1..len -> Stream] BY <1>4, <2>1, <2>2
  <2>4. new \in Seq(Stream) /\ Len(new) = len BY <2>1, <2>3, LenProperties, SeqDef
  <2> QED BY <2>1, <2>2, <2>4
<1> HIDE DEF new, len
<1>7. \A p \in Store!Place : stream'[p] = IF p = here THEN new ELSE stream[p]
  BY <1>1 DEF StoreTyped, new
<1>8. StoreTyped'
  <2>1. append' \in [at : {"idle", "open", "write", "close"},
      place : Store!Place \cup {Store!Nobody.place}, n : Nat]
    BY <1>3 DEF Store!Nobody
  <2>2. stream' \in [Store!Place -> Seq(Stream)]
    <3>1. stream' = [p \in Store!Place |-> stream'[p]] BY <1>1 DEF StoreTyped
    <3>2. \A p \in Store!Place : stream'[p] \in Seq(Stream) BY <1>6, <1>7 DEF StoreTyped
    <3> QED BY <3>1, <3>2
  <2> QED BY <1>1, <1>2, <2>1, <2>2 DEF StoreTyped
<1>9. FilesOK'
  <2>1. \A p \in Store!Place : (Unfinished(p) <=> p = here) /\ ~Unfinished(p)'
    BY <1>1, <1>3 DEF Unfinished, here
  <2>2. here \in exists /\ here \notin Legacy
    <3>1. here \in exists BY <1>1 DEF AppendOK, here
    <3> QED BY <3>1 DEF FilesOK
  <2>3. exists' = exists BY <1>1
  <2>4. /\ \A p \in Legacy : p \notin exists' /\ logged'[p] = <<0>>
        /\ \A p \in Store!Place \ Legacy : logged'[p] # <<>> => p \in exists'
    <3>1. Legacy \subseteq Store!Place BY DEF Store!LogStoreAssumption
    <3> QED BY <1>2, <2>2, <2>3, <3>1 DEF FilesOK
  <2>5. ASSUME NEW p \in Store!Place \ Legacy, \A i \in 1..Past(p)' : stream'[p][i].whole
        PROVE  Len(logged'[p]) = Past(p)' /\ \A i \in 1..Past(p)' : logged'[p][i] = stream'[p][i].n
    <3>1. CASE p # here
      <4>1. Past(p)' = Past(p) /\ stream'[p] = stream[p] /\ logged'[p] = logged[p]
        BY <1>2, <1>7, <2>1, <3>1 DEF Past
      <4> QED BY <2>5, <4>1 DEF FilesOK
    <3>2. CASE p = here
      <4>1. Past(p)' = len BY <1>6, <1>7, <2>1, <3>2 DEF Past
      <4>2. Past(p) = len - 1 BY <2>1, <3>2 DEF Past, len
      <4>3. \A i \in 1..len - 1 : stream[p][i].whole
        <5> SUFFICES ASSUME NEW i \in 1..len - 1 PROVE stream[p][i].whole OBVIOUS
        <5>1. i \in 1..len BY <1>6
        <5>2. stream'[p][i].whole BY <2>5, <4>1, <5>1
        <5>3. stream'[p][i] = stream[p][i] BY <1>6, <1>7, <3>2
        <5> QED BY <5>2, <5>3
      <4>4. Len(logged[p]) = len - 1 /\ \A i \in 1..len - 1 : logged[p][i] = stream[p][i].n
        BY <4>2, <4>3 DEF FilesOK
      <4>5. logged[p] \in Seq(Nat) BY DEF StoreTyped
      <4>6. /\ Len(logged'[p]) = len /\ logged'[p][len] = number
            /\ \A i \in 1..len - 1 : logged'[p][i] = logged[p][i]
        <5>1. logged'[p] = Append(logged[p], number) BY <1>2, <3>2
        <5>2. /\ Len(Append(logged[p], number)) = Len(logged[p]) + 1
              /\ Append(logged[p], number)[Len(logged[p]) + 1] = number
              /\ \A i \in 1..Len(logged[p]) : Append(logged[p], number)[i] = logged[p][i]
          BY <1>4, <4>5, AppendProperties
        <5>3. Len(logged[p]) + 1 = len BY <1>6, <4>4
        <5> QED BY <4>4, <5>1, <5>2, <5>3
      <4>7. ASSUME NEW i \in 1..len PROVE logged'[p][i] = stream'[p][i].n
        <5>1. CASE i = len BY <1>4, <1>6, <1>7, <3>2, <4>6, <5>1
        <5>2. CASE i # len
          <6>1. i \in 1..len - 1 BY <1>6, <5>2
          <6>2. logged'[p][i] = logged[p][i] /\ logged[p][i] = stream[p][i].n
            BY <4>4, <4>6, <6>1
          <6>3. stream'[p][i] = stream[p][i] BY <1>6, <1>7, <3>2, <6>1
          <6> QED BY <6>2, <6>3
        <5> QED BY <5>1, <5>2
      <4> QED BY <4>1, <4>6, <4>7
    <3> QED BY <3>1, <3>2
  <2> QED BY <2>1, <2>4, <2>5 DEF FilesOK
<1>10. AppendOK'
  <2>1. here[1] <= today /\ number <= number BY <1>1, <1>4 DEF AppendOK, here
  <2>2. \A p \in Store!Place, x \in Nat : Has(logged'[p], x) => p[1] <= today /\ x <= number
    BY <1>2, <2>1 DEF AppendOK
  <2> QED BY <1>1, <1>3, <2>2 DEF AppendOK
<1>11. OrderOK'
  <2> SUFFICES ASSUME NEW p \in Store!Place, NEW q \in Store!Place, p[2] = q[2], p[1] < q[1]
               PROVE  Before(logged'[p], logged'[q])
    BY <1>2 DEF OrderOK
  <2>1. \A r \in Store!Place, x \in Nat : Has(logged[r], x) => r[1] <= here[1] /\ x < number
    BY <1>1 DEF AppendOK, here
  <2>2. Before(logged[p], logged[q]) BY DEF OrderOK
  <2> SUFFICES ASSUME NEW x \in Nat, NEW y \in Nat, Has(logged'[p], x), Has(logged'[q], y)
               PROVE  x < y
    BY DEF Before
  <2>3. Has(logged[p], x) \/ (p = here /\ x = number) BY <1>2
  <2>4. Has(logged[q], y) \/ (q = here /\ y = number) BY <1>2
  <2>5. CASE Has(logged[p], x) /\ Has(logged[q], y) BY <2>2, <2>5 DEF Before
  <2>6. CASE Has(logged[p], x) /\ y = number BY <2>1, <2>6
  <2>7. CASE p = here /\ Has(logged[q], y)
    <3>1. q[1] <= here[1] BY <2>1, <2>7
    <3>2. q[1] \in Nat /\ here[1] \in Nat BY <1>2
    <3> QED BY <2>7, <3>1, <3>2
  <2>8. CASE p = here /\ q = here
    <3>1. here[1] \in Nat BY <1>2
    <3> QED BY <2>8, <3>1
  <2> QED BY <2>3, <2>4, <2>5, <2>6, <2>7, <2>8
<1> QED BY <1>8, <1>9, <1>10, <1>11

LEMMA StoreStep ==
  ASSUME Store!LogStoreAssumption, StoreInv, Store!Next,
         download' \in [at : {"idle", "list", "look", "read"},
           task : StoreTask \cup {Store!Idle.task},
                        dates : Seq(Nat), found : Seq(Nat), out : Seq(Nat), due : Seq(Nat)],
         answer' \in [of : {"nothing", "trace", "entries"}, ok : BOOLEAN, got : Seq(Nat),
           due : Seq(Nat)]
  PROVE  StoreInv'
<1>1. CASE Store!Midnight
  <2>1. today' = today + 1 /\ today' \in Store!Date /\ today' >= FirstDate /\ today \in Nat
    BY <1>1 DEF Store!Midnight, StoreInv, StoreTyped, Store!LogStoreAssumption
  <2>2. UNCHANGED <<number, stream, exists, append, logged, download, answer>>
    BY <1>1 DEF Store!Midnight
  <2>3. StoreTyped' BY <2>1, <2>2 DEF StoreInv, StoreTyped
  <2>4. FilesOK'
    <3>1. \A p \in Store!Place : (Unfinished(p)' <=> Unfinished(p)) /\ Past(p)' = Past(p)
      BY <2>2 DEF Past, Unfinished
    <3> QED BY <2>2, <3>1, FilesKept DEF StoreInv
  <2>5. AppendOK'
    <3>1. \A d \in Nat : d <= today => d <= today' BY <2>1
    <3>2. \A p \in Store!Place : p[1] \in Nat BY DEF Store!LogStoreAssumption
    <3>3. append.at # "idle" => append.place[1] <= today' BY <3>1, <3>2 DEF StoreInv, AppendOK
    <3>4. \A p \in Store!Place, x \in Nat : Has(logged[p], x) => p[1] <= today'
      BY <3>1, <3>2 DEF StoreInv, AppendOK
    <3> QED BY <2>2, <3>3, <3>4 DEF StoreInv, AppendOK
  <2>6. OrderOK' BY <2>2 DEF StoreInv, OrderOK
  <2> QED BY <2>3, <2>4, <2>5, <2>6 DEF StoreInv
<1>2. CASE Store!Crash
  <2>1. append' = Store!Nobody /\ append'.at = "idle" /\ UNCHANGED <<today, number, stream,
          exists, logged>>
    BY <1>2 DEF Store!Crash, Store!Nobody
  <2>2. StoreTyped'
    <3>1. append' \in [at : {"idle", "open", "write", "close"},
      place : Store!Place \cup {Store!Nobody.place}, n : Nat]
      BY <2>1 DEF Store!Nobody
    <3> QED BY <2>1, <3>1 DEF StoreInv, StoreTyped
  <2>3. FilesOK'
    <3>1. \A p \in Store!Place : ~Unfinished(p)' /\ Past(p)' = Len(stream[p])
      BY <2>1 DEF Unfinished, Past
    <3>2. ASSUME NEW p \in Store!Place \ Legacy, \A i \in 1..Len(stream[p]) : stream[p][i].whole
          PROVE  Len(logged[p]) = Len(stream[p]) /\
            \A i \in 1..Len(stream[p]) : logged[p][i] = stream[p][i].n
      <4>1. ~Unfinished(p)
        <5> SUFFICES ASSUME Unfinished(p) PROVE FALSE OBVIOUS
        <5>1. Len(stream[p]) \in Nat BY LenProperties DEF StoreInv, StoreTyped
        <5>2. Len(stream[p]) # 0 /\ ~stream[p][Len(stream[p])].whole BY DEF StoreInv, FilesOK
        <5> QED BY <3>2, <5>1, <5>2
      <4>2. Past(p) = Len(stream[p]) BY <4>1 DEF Past
      <4>3. \A i \in 1..Past(p) : stream[p][i].whole BY <3>2, <4>2
      <4>4. Len(logged[p]) = Past(p) /\ \A i \in 1..Past(p) : logged[p][i] = stream[p][i].n
        BY <4>3 DEF StoreInv, FilesOK
      <4> QED BY <4>2, <4>4
    <3>3. \A p \in Store!Place : Past(p)' = Len(stream'[p]) /\ stream'[p] = stream[p] /\
            logged'[p] = logged[p]
      BY <2>1, <3>1
    <3>4. /\ \A p \in Legacy : p \notin exists' /\ logged'[p] = <<0>>
          /\ \A p \in Store!Place \ Legacy : logged'[p] # <<>> => p \in exists'
      BY <2>1 DEF StoreInv, FilesOK
    <3>5. ASSUME NEW p \in Store!Place \ Legacy, \A i \in 1..Past(p)' : stream'[p][i].whole
          PROVE  Len(logged'[p]) = Past(p)' /\
            \A i \in 1..Past(p)' : logged'[p][i] = stream'[p][i].n
      <4>1. Past(p)' = Len(stream[p]) /\ stream'[p] = stream[p] /\ logged'[p] = logged[p]
        BY <3>1, <3>3
      <4>2. \A i \in 1..Len(stream[p]) : stream[p][i].whole BY <3>5, <4>1
      <4>3. Len(logged[p]) = Len(stream[p]) /\
              \A i \in 1..Len(stream[p]) : logged[p][i] = stream[p][i].n
        BY <3>2, <4>2
      <4> QED BY <4>1, <4>3
    <3> QED BY <3>1, <3>4, <3>5 DEF FilesOK
  <2>4. AppendOK' BY <2>1 DEF StoreInv, AppendOK
  <2>5. OrderOK' BY <2>1 DEF StoreInv, OrderOK
  <2> QED BY <2>2, <2>3, <2>4, <2>5 DEF StoreInv
<1>3. CASE UNCHANGED <<today, number, stream, exists, append, logged>>
  <2>1. StoreTyped' BY <1>3 DEF StoreInv, StoreTyped
  <2>2. FilesOK'
    <3>1. \A p \in Store!Place : (Unfinished(p)' <=> Unfinished(p)) /\ Past(p)' = Past(p)
      BY <1>3 DEF Past, Unfinished
    <3> QED BY <1>3, <3>1, FilesKept DEF StoreInv
  <2>3. AppendOK' /\ OrderOK' BY <1>3 DEF StoreInv, AppendOK, OrderOK
  <2> QED BY <2>1, <2>2, <2>3 DEF StoreInv
<1>4. ASSUME NEW t \in StoreTask, Store!AskForTrace(t) PROVE StoreInv'
  BY <1>3, <1>4 DEF Store!AskForTrace
<1>5. ASSUME NEW p \in Store!Place, Store!HandleLogEntry(p) PROVE StoreInv'
  BY <1>3, <1>5 DEF Store!HandleLogEntry
<1>6. CASE Store!ListDates \/ Store!LookAtDate \/ Store!ReadSegment
  BY <1>3, <1>6 DEF Store!ListDates, Store!LookAtDate, Store!ReadSegment
<1> QED
  BY <1>1, <1>2, <1>4, <1>5, <1>6, StoreBegin, StoreOpen, StoreWrite, StoreClose DEF Store!Next
-------------------------------------------------------------------------------

(* A stream that can be read has what was logged. *)
LEMMA RawIsLogged ==
  ASSUME Store!LogStoreAssumption, StoreInv, NEW p \in Store!Place, Store!Raw(p).ok
  PROVE  Store!Raw(p).got = logged[p]
<1>0. logged[p] \in Seq(Nat) /\ stream[p] \in Seq(Stream) BY DEF StoreInv, StoreTyped
<1>1. CASE p \in exists
  <2>1. Store!Raw(p).ok = Store!Readable(p) /\
          Store!Raw(p).got = (IF Store!Readable(p) THEN Store!Content(p) ELSE <<>>)
    BY <1>1 DEF Store!Raw
  <2>2. Store!Readable(p) /\ Store!Raw(p).got = Store!Content(p) BY <2>1
  <2>3. p \notin Legacy BY <1>1 DEF StoreInv, FilesOK
  <2>4. Len(stream[p]) \in Nat /\ DOMAIN stream[p] = 1..Len(stream[p])
        /\ \A i \in 1..Len(stream[p]) : stream[p][i] \in Stream
    BY <1>0, LenProperties, ElementOfSeq
  <2>5. \A i \in 1..Len(stream[p]) : stream[p][i].whole BY <2>2, <2>4 DEF Store!Readable
  <2>6. ~Unfinished(p)
    <3> SUFFICES ASSUME Unfinished(p) PROVE FALSE OBVIOUS
    <3>1. Len(stream[p]) # 0 /\ ~stream[p][Len(stream[p])].whole BY DEF StoreInv, FilesOK
    <3> QED BY <2>4, <2>5, <3>1
  <2>7. Past(p) = Len(stream[p]) BY <2>6 DEF Past
  <2>8. Len(logged[p]) = Len(stream[p]) /\
          \A i \in 1..Len(stream[p]) : logged[p][i] = stream[p][i].n
    BY <2>3, <2>5, <2>7 DEF StoreInv, FilesOK
  <2> DEFINE len == Len(stream[p])
             c == [i \in 1..len |-> stream[p][i].n]
  <2>9. Store!Content(p) = c BY <2>4 DEF Store!Content
  <2>10. c \in Seq(Nat) /\ Len(c) = len
    <3>1. c \in [1..len -> Nat] BY <2>4 DEF Stream
    <3>2. len \in Nat BY <2>4
    <3> HIDE DEF c, len
    <3> QED BY <3>1, <3>2, LenProperties, SeqDef
  <2>11. \A i \in 1..len : c[i] = logged[p][i] BY <2>8
  <2> HIDE DEF c
  <2>12. c = logged[p] BY <1>0, <2>8, <2>10, <2>11, SeqEqual
  <2> QED BY <2>2, <2>9, <2>12
<1>2. CASE p \notin exists
  <2>1. p \in Legacy /\ Store!Raw(p).got = Store!Uncompressed(p) BY <1>2 DEF Store!Raw
  <2> QED BY <2>1 DEF Store!Uncompressed, StoreInv, FilesOK
<1> QED BY <1>1, <1>2

LEMMA LoggedHasFile ==
  ASSUME Store!LogStoreAssumption, StoreInv, NEW p \in Store!Place, NEW x, Has(logged[p], x)
  PROVE  Store!HasLogFile(p)
<1>1. logged[p] \in Seq(Nat) BY DEF StoreInv, StoreTyped
<1>2. logged[p] # <<>> BY <1>1, HasSome
<1> QED BY <1>2 DEF StoreInv, FilesOK, Store!HasLogFile

(* What is logged of a task, in order. *)
LEMMA TraceIs ==
  ASSUME Store!LogStoreAssumption, StoreInv, NEW t \in StoreTask
  PROVE  /\ Store!Trace(t) \in Seq(Nat) /\ Increasing(Store!Trace(t))
         /\ \A x : Has(Store!Trace(t), x) <=> \E d \in Store!Date : Has(logged[<<d, t>>], x)
<1> DEFINE s == [d \in Store!Date |-> logged[<<d, t>>]]
           T == Seq(Nat)
<1>0. LastDate \in Nat BY DEF Store!LogStoreAssumption
<1>1. \A d \in Store!Date : <<d, t>> \in Store!Place /\ <<d, t>>[1] = d /\ <<d, t>>[2] = t OBVIOUS
<1>2. \A d \in Store!Date : s[d] = logged[<<d, t>>] OBVIOUS
<1>3. \A d \in Store!Date : s[d] \in T BY <1>1, <1>2 DEF StoreInv, StoreTyped
<1>4. s \in Seq(T) /\ Len(s) = LastDate
  <2>1. s \in [1..LastDate -> T] BY <1>2, <1>3
  <2> HIDE DEF s, T
  <2> QED BY <1>0, <2>1, LenProperties, SeqDef
<1>5. \A i \in 1..Len(s) : Increasing(s[i]) BY <1>1, <1>2, <1>4 DEF StoreInv, OrderOK
<1>6. \A i, j \in 1..Len(s) : i < j => Before(s[i], s[j])
  <2> SUFFICES ASSUME NEW i \in Store!Date, NEW j \in Store!Date, i < j PROVE Before(s[i], s[j])
    BY <1>4
  <2>1. Before(logged[<<i, t>>], logged[<<j, t>>]) BY <1>1 DEF StoreInv, OrderOK
  <2> QED BY <1>2, <2>1
<1>7. Store!Trace(t) = FlattenSeq(s) BY DEF Store!Trace, Store!FlattenSeq, FlattenSeq
<1> HIDE DEF s
<1>8. /\ FlattenSeq(s) \in Seq(Nat) /\ Increasing(FlattenSeq(s))
      /\ \A x : Has(FlattenSeq(s), x) <=> \E i \in 1..Len(s) : Has(s[i], x)
  BY <1>4, <1>5, <1>6, FlattenIncreasing
<1> QED BY <1>2, <1>4, <1>7, <1>8

(* What was due when the trace was asked for is still logged, and what is  *)
(* logged since then is newer.                                             *)
DueOK ==
  download.at # "idle" =>
    /\ download.task \in StoreTask /\ Increasing(download.due)
    /\ \A x \in Nat : Has(download.due, x) => \E d \in Store!Date : Has(logged[<<d,
         download.task>>], x)
    /\ \A d \in Store!Date, x \in Nat : Has(logged[<<d, download.task>>], x) =>
         Has(download.due, x) \/ \A y \in Nat : Has(download.due, y) => y < x

(* What is due is at a date that is still to be looked at or was found. *)
LookOK ==
  /\ download.at \in {"list", "look"} => download.out = <<>>
  /\ download.at = "list" => download.found = <<>>
  /\ download.at = "look" =>
       /\ Increasing(download.dates) /\ Increasing(download.found)
       /\ Before(download.found, download.dates)
       /\ \A d : Has(download.dates, d) \/ Has(download.found, d) => d \in Store!Date
       /\ \A x \in Nat : Has(download.due, x) =>
            \E d \in Store!Date : /\ Has(download.dates, d) \/ Has(download.found, d)
                            /\ Has(logged[<<d, download.task>>], x)

(* What is due was read or is at a date still to be read, and all that was *)
(* read is of earlier dates.                                               *)
ReadOK ==
  download.at = "read" =>
    /\ Increasing(download.found) /\ Increasing(download.out)
    /\ \A d : Has(download.found, d) => d \in Store!Date
    /\ \A x \in Nat : Has(download.out, x) =>
         \E d \in Store!Date : /\ Has(logged[<<d, download.task>>], x)
                         /\ \A e \in Nat : Has(download.found, e) => d < e
    /\ \A x \in Nat : Has(download.due, x) =>
         \/ Has(download.out, x)
         \/ \E d \in Store!Date : Has(download.found, d) /\ Has(logged[<<d, download.task>>], x)

DownloadInv == StoreInv /\ DueOK /\ LookOK /\ ReadOK /\ Store!TraceComplete

Downloads == [at : {"idle", "list", "look", "read"}, task : StoreTask \cup {Store!Idle.task},
              dates : Seq(Nat), found : Seq(Nat), out : Seq(Nat), due : Seq(Nat)]
Answers == [of : {"nothing", "trace", "entries"}, ok : BOOLEAN, got : Seq(Nat), due : Seq(Nat)]

(* A step that leaves the log and the download alone. *)
LEMMA DownloadKept ==
  ASSUME DownloadInv, UNCHANGED <<logged, download>>, answer' = answer \/ answer'.of # "trace"
  PROVE  DueOK' /\ LookOK' /\ ReadOK' /\ Store!TraceComplete'
<1>1. DueOK' BY DEF DownloadInv, DueOK
<1>2. LookOK' BY DEF DownloadInv, LookOK
<1>3. ReadOK' BY DEF DownloadInv, ReadOK
<1>4. Store!TraceComplete' BY DEF DownloadInv, Store!TraceComplete
<1> QED BY <1>1, <1>2, <1>3, <1>4

LEMMA DownloadEnds ==
  ASSUME download' = Store!Idle PROVE download' \in Downloads /\ DueOK' /\ LookOK' /\ ReadOK'
<1>1. <<>> \in Seq(Nat) BY EmptySeq
<1>2. download'.at = "idle" BY DEF Store!Idle
<1>3. download' \in Downloads BY <1>1 DEF Store!Idle, Downloads
<1> QED BY <1>2, <1>3 DEF DueOK, LookOK, ReadOK

LEMMA DownloadClose ==
  ASSUME Store!LogStoreAssumption, DownloadInv, Store!Close
  PROVE  DueOK' /\ LookOK' /\ ReadOK' /\ Store!TraceComplete'
<1> DEFINE here == append.place
<1>1. /\ here \in Store!Place
      /\ \A p \in Store!Place : \A x : Has(logged'[p], x) <=> Has(logged[p], x) \/
           (p = here /\ x = number)
  BY CloseLogs DEF DownloadInv
<1>2. append.at = "close" /\ UNCHANGED <<download, answer>> BY DEF Store!Close
<1>3. \A p \in Store!Place, x \in Nat : Has(logged[p], x) => x < number
  BY <1>2 DEF DownloadInv, StoreInv, AppendOK
<1> HIDE DEF here
<1> DEFINE t == download.task
<1>4. \A p \in Store!Place : \A x : Has(logged[p], x) => Has(logged'[p], x) BY <1>1
<1>5. download.at # "idle" => \A d \in Store!Date : <<d, t>> \in Store!Place
  BY DEF DownloadInv, DueOK
<1>6. DueOK'
  <2> SUFFICES ASSUME download.at # "idle" PROVE DueOK' BY <1>2 DEF DueOK
  <2>1. t \in StoreTask /\ Increasing(download.due) BY DEF DownloadInv, DueOK
  <2>2. \A x \in Nat : Has(download.due, x) => \E d \in Store!Date : Has(logged[<<d, t>>], x)
    BY DEF DownloadInv, DueOK
  <2>3. \A x \in Nat : Has(download.due, x) => \E d \in Store!Date : Has(logged'[<<d, t>>], x)
    BY <1>4, <1>5, <2>2
  <2>4. ASSUME NEW d \in Store!Date, NEW x \in Nat, Has(logged'[<<d, t>>], x)
        PROVE  Has(download.due, x) \/ \A y \in Nat : Has(download.due, y) => y < x
    <3>1. CASE Has(logged[<<d, t>>], x) BY <3>1 DEF DownloadInv, DueOK
    <3>2. CASE x = number BY <1>3, <1>5, <2>2, <3>2
    <3> QED BY <1>1, <1>5, <2>4, <3>1, <3>2
  <2> QED BY <1>2, <2>1, <2>3, <2>4 DEF DueOK
<1>7. LookOK'
  <2>1. ASSUME download.at = "look", NEW x \in Nat, Has(download.due, x)
        PROVE  \E d \in Store!Date : /\ Has(download.dates, d) \/ Has(download.found, d)
                               /\ Has(logged'[<<d, t>>], x)
    <3>1. PICK d \in Store!Date : /\ Has(download.dates, d) \/ Has(download.found, d)
                            /\ Has(logged[<<d, t>>], x)
      BY <2>1 DEF DownloadInv, LookOK
    <3> QED BY <1>4, <1>5, <2>1, <3>1
  <2> QED BY <1>2, <2>1 DEF DownloadInv, LookOK
<1>8. ReadOK'
  <2> SUFFICES ASSUME download.at = "read" PROVE ReadOK' BY <1>2 DEF ReadOK
  <2>1. ASSUME NEW x \in Nat, Has(download.out, x)
        PROVE  \E d \in Store!Date : /\ Has(logged'[<<d, t>>], x)
                               /\ \A e \in Nat : Has(download.found, e) => d < e
    <3>1. PICK d \in Store!Date : /\ Has(logged[<<d, t>>], x)
                            /\ \A e \in Nat : Has(download.found, e) => d < e
      BY <2>1 DEF DownloadInv, ReadOK
    <3> QED BY <1>4, <1>5, <3>1
  <2>2. ASSUME NEW x \in Nat, Has(download.due, x), ~Has(download.out, x)
        PROVE  \E d \in Store!Date : Has(download.found, d) /\ Has(logged'[<<d, t>>], x)
    <3>1. PICK d \in Store!Date : Has(download.found, d) /\ Has(logged[<<d, t>>], x)
      BY <2>2 DEF DownloadInv, ReadOK
    <3> QED BY <1>4, <1>5, <3>1
  <2> QED BY <1>2, <2>1, <2>2 DEF DownloadInv, ReadOK
<1>9. Store!TraceComplete' BY <1>2 DEF DownloadInv, Store!TraceComplete
<1> QED BY <1>6, <1>7, <1>8, <1>9

LEMMA DownloadAsk ==
  ASSUME Store!LogStoreAssumption, DownloadInv, NEW t \in StoreTask, Store!AskForTrace(t)
  PROVE  download' \in Downloads /\ DueOK' /\ LookOK' /\ ReadOK' /\ Store!TraceComplete'
<1>1. download' = [Store!Idle EXCEPT !.at = "list", !.task = t, !.due = Store!Trace(t)]
      /\ UNCHANGED <<logged, answer>>
  BY DEF Store!AskForTrace
<1>2. download' = [at |-> "list", task |-> t, dates |-> <<>>, found |-> <<>>, out |-> <<>>,
        due |-> Store!Trace(t)]
  BY <1>1 DEF Store!Idle
<1>3. /\ Store!Trace(t) \in Seq(Nat) /\ Increasing(Store!Trace(t))
      /\ \A x : Has(Store!Trace(t), x) <=> \E d \in Store!Date : Has(logged[<<d, t>>], x)
  BY TraceIs DEF DownloadInv
<1>4. <<>> \in Seq(Nat) BY EmptySeq
<1>5. download' \in Downloads BY <1>2, <1>3, <1>4 DEF Downloads
<1>6. /\ download'.at = "list" /\ download'.task = t /\ download'.found = <<>> /\
           download'.out = <<>>
      /\ download'.due = Store!Trace(t)
  BY <1>2
<1>7. DueOK' BY <1>1, <1>3, <1>6 DEF DueOK
<1>8. LookOK' /\ ReadOK' BY <1>6 DEF LookOK, ReadOK
<1>9. Store!TraceComplete' BY <1>1 DEF DownloadInv, Store!TraceComplete
<1> QED BY <1>5, <1>7, <1>8, <1>9

LEMMA DownloadList ==
  ASSUME Store!LogStoreAssumption, DownloadInv, Store!ListDates
  PROVE  download' \in Downloads /\ DueOK' /\ LookOK' /\ ReadOK' /\ Store!TraceComplete'
<1> DEFINE S == {p[1] : p \in exists \cup Legacy}
<1>1. /\ download.at = "list"
      /\ download' = [download EXCEPT !.at = "look", !.dates = Store!Sorted(S)]
      /\ UNCHANGED <<logged, answer>>
  BY DEF Store!ListDates
<1>2. download \in Downloads BY DEF DownloadInv, StoreInv, StoreTyped, Downloads
<1>3. LastDate \in Nat /\ Lists(Store!Sorted(S), S, LastDate)
  BY SortedLists DEF Store!LogStoreAssumption
<1> HIDE DEF S
<1>4. /\ Store!Sorted(S) \in Seq(Nat) /\ Increasing(Store!Sorted(S))
      /\ \A d : Has(Store!Sorted(S), d) <=> d \in S /\ d \in Store!Date
  BY <1>3 DEF Lists
<1>5. download' \in Downloads BY <1>1, <1>2, <1>4 DEF Downloads
<1>6. /\ download'.at = "look" /\ download'.dates = Store!Sorted(S) /\
           download'.task = download.task
      /\ download'.found = download.found /\ download'.out = download.out /\
           download'.due = download.due
  BY <1>1, <1>2 DEF Downloads
<1>7. DueOK' BY <1>1, <1>6 DEF DownloadInv, DueOK
<1>8. download.found = <<>> /\ download.out = <<>> /\ download.task \in StoreTask
  BY <1>1 DEF DownloadInv, LookOK, DueOK
<1>9. \A d : ~Has(<<>>, d)
  <2>1. Len(<<>>) = 0 BY EmptySeq
  <2> QED BY <2>1 DEF Has
<1>10. ASSUME NEW x \in Nat, Has(download.due, x)
       PROVE  \E d \in Store!Date : Has(Store!Sorted(S), d) /\ Has(logged[<<d, download.task>>], x)
  <2>1. PICK d \in Store!Date : Has(logged[<<d, download.task>>], x)
    BY <1>1, <1>10 DEF DownloadInv, DueOK
  <2>2. <<d, download.task>> \in Store!Place BY <1>8
  <2>3. <<d, download.task>> \in exists \cup Legacy
    BY <2>1, <2>2, LoggedHasFile DEF DownloadInv, Store!HasLogFile
  <2>4. <<d, download.task>>[1] \in S BY <2>3 DEF S
  <2> QED BY <1>4, <2>1, <2>4
<1>11. LookOK'
  <2>1. Increasing(<<>>) /\ Before(<<>>, Store!Sorted(S))
    <3>1. Len(<<>>) = 0 BY EmptySeq
    <3> QED BY <1>9, <3>1 DEF Increasing, Before
  <2> QED BY <1>1, <1>4, <1>6, <1>8, <1>9, <1>10, <2>1 DEF LookOK
<1>12. ReadOK' BY <1>6 DEF ReadOK
<1>13. Store!TraceComplete' BY <1>1 DEF DownloadInv, Store!TraceComplete
<1> QED BY <1>5, <1>7, <1>11, <1>12, <1>13
-------------------------------------------------------------------------------

LEMMA DownloadLook ==
  ASSUME Store!LogStoreAssumption, DownloadInv, Store!LookAtDate, download.dates # <<>>
  PROVE  download' \in Downloads /\ DueOK' /\ LookOK' /\ ReadOK' /\ Store!TraceComplete'
<1> DEFINE d == Head(download.dates)
           t == download.task
           more == IF Store!HasLogFile(<<d, t>>) THEN Append(download.found, d) ELSE download.found
<1>1. /\ download.at = "look" /\ UNCHANGED <<logged, answer>>
      /\ download' = [download EXCEPT !.dates = Tail(download.dates), !.found = more]
  BY DEF Store!LookAtDate
<1>2. download \in Downloads BY DEF DownloadInv, StoreInv, StoreTyped, Downloads
<1>3. download.dates \in Seq(Nat) /\ download.found \in Seq(Nat) BY <1>2 DEF Downloads
<1>4. /\ Increasing(download.dates) /\ Increasing(download.found)
      /\ Before(download.found, download.dates)
      /\ \A e : Has(download.dates, e) \/ Has(download.found, e) => e \in Store!Date
      /\ download.out = <<>> /\ t \in StoreTask
  BY <1>1 DEF DownloadInv, LookOK, DueOK
<1>5. /\ d \in Nat /\ Has(download.dates, d)
      /\ Tail(download.dates) \in Seq(Nat) /\ Increasing(Tail(download.dates))
      /\ \A x : Has(download.dates, x) <=> x = d \/ Has(Tail(download.dates), x)
      /\ \A x : Has(Tail(download.dates), x) => d < x
  BY <1>3, <1>4, HeadTail
<1> HIDE DEF d
<1>6. \A y \in Nat : Has(download.found, y) => y < d BY <1>4, <1>5 DEF Before
<1>7. /\ Append(download.found, d) \in Seq(Nat) /\ Increasing(Append(download.found, d))
      /\ \A y : Has(Append(download.found, d), y) <=> Has(download.found, y) \/ y = d
  BY <1>3, <1>4, <1>5, <1>6, AppendIncreasing
<1>8. /\ more \in Seq(Nat) /\ Increasing(more)
      /\ \A y : Has(more, y) => Has(download.found, y) \/ y = d
      /\ \A y : Has(download.found, y) => Has(more, y)
      /\ Store!HasLogFile(<<d, t>>) => Has(more, d)
  <2>1. CASE Store!HasLogFile(<<d, t>>) BY <1>7, <2>1
  <2>2. CASE ~Store!HasLogFile(<<d, t>>) BY <1>3, <1>4, <2>2
  <2> QED BY <2>1, <2>2
<1> HIDE DEF more
<1>9. download' \in Downloads BY <1>1, <1>2, <1>5, <1>8 DEF Downloads
<1>10. /\ download'.at = "look" /\ download'.dates = Tail(download.dates) /\ download'.task = t
       /\ download'.found = more /\ download'.out = <<>> /\ download'.due = download.due
  BY <1>1, <1>2, <1>4 DEF Downloads
<1>11. DueOK' BY <1>1, <1>10 DEF DownloadInv, DueOK
<1>12. LookOK'
  <2>1. Before(more, Tail(download.dates))
    <3> SUFFICES ASSUME NEW x \in Nat, NEW y \in Nat, Has(more, x), Has(Tail(download.dates), y)
                 PROVE  x < y
      BY DEF Before
    <3>1. d < y /\ Has(download.dates, y) BY <1>5
    <3>2. CASE Has(download.found, x) BY <1>4, <3>1, <3>2 DEF Before
    <3>3. CASE x = d BY <3>1, <3>3
    <3> QED BY <1>8, <3>2, <3>3
  <2>2. \A e : Has(Tail(download.dates), e) \/ Has(more, e) => e \in Store!Date
    BY <1>4, <1>5, <1>8
  <2>3. ASSUME NEW x \in Nat, Has(download.due, x)
        PROVE  \E e \in Store!Date : /\ Has(Tail(download.dates), e) \/ Has(more, e)
                               /\ Has(logged[<<e, t>>], x)
    <3>1. PICK e \in Store!Date : /\ Has(download.dates, e) \/ Has(download.found, e)
                            /\ Has(logged[<<e, t>>], x)
      BY <1>1, <2>3 DEF DownloadInv, LookOK
    <3>2. <<e, t>> \in Store!Place BY <1>4
    <3>3. Store!HasLogFile(<<e, t>>) BY <3>1, <3>2, LoggedHasFile DEF DownloadInv
    <3>4. e = d \/ Has(Tail(download.dates), e) \/ Has(download.found, e) BY <1>5, <3>1
    <3>5. Has(Tail(download.dates), e) \/ Has(more, e) BY <1>8, <3>3, <3>4
    <3> QED BY <3>1, <3>5
  <2>4. logged' = logged /\ Increasing(Tail(download.dates)) /\ Increasing(more)
    BY <1>1, <1>5, <1>8
  <2> HIDE DEF t
  <2> QED BY <1>10, <2>1, <2>2, <2>3, <2>4 DEF LookOK
<1>13. ReadOK' BY <1>10 DEF ReadOK
<1>14. Store!TraceComplete' BY <1>1 DEF DownloadInv, Store!TraceComplete
<1> QED BY <1>9, <1>11, <1>12, <1>13, <1>14

(* All dates were looked at: what is due is at one of those that were found. *)
LEMMA DownloadTurn ==
  ASSUME Store!LogStoreAssumption, DownloadInv, Store!LookAtDate, download.dates = <<>>,
           download.found # <<>>
  PROVE  download' \in Downloads /\ DueOK' /\ LookOK' /\ ReadOK' /\ Store!TraceComplete'
<1>1. /\ download.at = "look" /\ UNCHANGED <<logged, answer>>
      /\ download' = [download EXCEPT !.at = "read"]
  BY DEF Store!LookAtDate
<1>2. download \in Downloads BY DEF DownloadInv, StoreInv, StoreTyped, Downloads
<1>3. download' \in Downloads BY <1>1, <1>2 DEF Downloads
<1>4. /\ download'.at = "read" /\ download'.task = download.task
      /\ download'.found = download.found /\ download'.out = download.out /\
           download'.due = download.due
  BY <1>1, <1>2 DEF Downloads
<1>5. DueOK' BY <1>1, <1>4 DEF DownloadInv, DueOK
<1>6. LookOK' BY <1>4 DEF LookOK
<1>7. Len(<<>>) = 0 BY EmptySeq
<1>8. \A x : ~Has(<<>>, x) BY <1>7 DEF Has
<1>9. Increasing(<<>>) BY <1>7 DEF Increasing
<1>10. ReadOK'
  <2>1. download.out = <<>> /\ Increasing(download.found) /\ (\A d : Has(download.found,
          d) => d \in Store!Date)
    BY <1>1 DEF DownloadInv, LookOK
  <2>2. \A x \in Nat : Has(download.due, x) =>
          \E d \in Store!Date : Has(download.found, d) /\ Has(logged[<<d, download.task>>], x)
    BY <1>1, <1>8 DEF DownloadInv, LookOK
  <2> QED BY <1>1, <1>4, <1>8, <1>9, <2>1, <2>2 DEF ReadOK
<1>11. Store!TraceComplete' BY <1>1 DEF DownloadInv, Store!TraceComplete
<1> QED BY <1>3, <1>5, <1>6, <1>10, <1>11

LEMMA DownloadRead ==
  ASSUME Store!LogStoreAssumption, DownloadInv, Store!ReadSegment, download.found # <<>>,
         Store!Raw(<<Head(download.found), download.task>>).ok
  PROVE  download' \in Downloads /\ DueOK' /\ LookOK' /\ ReadOK' /\ Store!TraceComplete'
<1> DEFINE d == Head(download.found)
           t == download.task
           got == logged[<<d, t>>]
           rest == Tail(download.found)
<1>1. /\ download.at = "read" /\ UNCHANGED <<logged, answer>>
      /\ download' = [download EXCEPT !.found = rest, !.out = download.out \o Store!Raw(<<d,
           t>>).got]
  BY DEF Store!ReadSegment
<1>2. download \in Downloads BY DEF DownloadInv, StoreInv, StoreTyped, Downloads
<1>3. download.found \in Seq(Nat) /\ download.out \in Seq(Nat) BY <1>2 DEF Downloads
<1>4. /\ Increasing(download.found) /\ Increasing(download.out) /\ t \in StoreTask
      /\ \A e : Has(download.found, e) => e \in Store!Date
      /\ \A x \in Nat : Has(download.out, x) =>
           \E e \in Store!Date : Has(logged[<<e, t>>], x) /\
             \A u \in Nat : Has(download.found, u) => e < u
      /\ \A x \in Nat : Has(download.due, x) =>
           Has(download.out, x) \/ \E e \in Store!Date : Has(download.found, e) /\
             Has(logged[<<e, t>>], x)
  BY <1>1 DEF DownloadInv, ReadOK, DueOK
<1>5. /\ d \in Nat /\ Has(download.found, d)
      /\ rest \in Seq(Nat) /\ Increasing(rest)
      /\ \A x : Has(download.found, x) <=> x = d \/ Has(rest, x)
      /\ \A x : Has(rest, x) => d < x
  BY <1>3, <1>4, HeadTail
<1>6. d \in Store!Date /\ <<d, t>> \in Store!Place /\ <<d, t>>[1] = d /\ <<d, t>>[2] = t
  BY <1>4, <1>5
<1>7. Store!Raw(<<d, t>>).got = got BY <1>6, RawIsLogged DEF DownloadInv
<1>8. got \in Seq(Nat) /\ Increasing(got) BY <1>6 DEF DownloadInv, StoreInv, StoreTyped, OrderOK
<1>9. Before(download.out, got)
  <2> SUFFICES ASSUME NEW x \in Nat, NEW y \in Nat, Has(download.out, x), Has(got, y) PROVE x < y
    BY DEF Before
  <2>1. PICK e \in Store!Date : Has(logged[<<e, t>>], x) /\ \A u \in Nat : Has(download.found,
               u) => e < u
    BY <1>4
  <2>2. e < d BY <1>5, <2>1
  <2>3. <<e, t>> \in Store!Place /\ <<e, t>>[1] = e /\ <<e, t>>[2] = t BY <1>4
  <2>4. Before(logged[<<e, t>>], got) BY <1>6, <2>2, <2>3 DEF DownloadInv, StoreInv, OrderOK
  <2> QED BY <2>1, <2>4 DEF Before
<1> DEFINE out == download.out \o got
<1>10. out \in Seq(Nat) /\ Increasing(out) BY <1>3, <1>4, <1>8, <1>9, ConcatIs, ConcatIncreasing
<1>11. \A x : Has(out, x) <=> Has(download.out, x) \/ Has(got, x) BY <1>3, <1>8, ConcatHas
<1>12. download' = [download EXCEPT !.found = rest, !.out = out] BY <1>1, <1>7
<1> HIDE DEF d, rest, out, got
<1>13. download' \in Downloads BY <1>2, <1>5, <1>10, <1>12 DEF Downloads
<1>14. /\ download'.at = "read" /\ download'.task = t /\ download'.found = rest /\
            download'.out = out
       /\ download'.due = download.due
  BY <1>1, <1>2, <1>12 DEF Downloads
<1>15. DueOK' BY <1>1, <1>14 DEF DownloadInv, DueOK
<1>16. LookOK' BY <1>14 DEF LookOK
<1>17. ReadOK'
  <2>1. ASSUME NEW x \in Nat, Has(out, x)
        PROVE  \E e \in Store!Date : Has(logged[<<e, t>>], x) /\ \A u \in Nat : Has(rest,
          u) => e < u
    <3>1. CASE Has(download.out, x)
      <4>1. PICK e \in Store!Date : Has(logged[<<e, t>>], x) /\
                   \A u \in Nat : Has(download.found, u) => e < u
        BY <1>4, <3>1
      <4> QED BY <1>5, <4>1
    <3>2. CASE Has(got, x) BY <1>5, <1>6, <3>2 DEF got
    <3> QED BY <1>11, <2>1, <3>1, <3>2
  <2>2. ASSUME NEW x \in Nat, Has(download.due, x)
        PROVE  Has(out, x) \/ \E e \in Store!Date : Has(rest, e) /\ Has(logged[<<e, t>>], x)
    <3>1. CASE Has(download.out, x) BY <1>11, <3>1
    <3>2. CASE ~Has(download.out, x)
      <4>1. PICK e \in Store!Date : Has(download.found, e) /\ Has(logged[<<e, t>>], x)
        BY <1>4, <2>2, <3>2
      <4>2. e = d \/ Has(rest, e) BY <1>5, <4>1
      <4> QED BY <1>11, <4>1, <4>2 DEF got
    <3> QED BY <3>1, <3>2
  <2>3. \A e : Has(rest, e) => e \in Store!Date BY <1>4, <1>5
  <2>4. logged' = logged /\ Increasing(rest) /\ Increasing(out) BY <1>1, <1>5, <1>10
  <2> HIDE DEF t
  <2> QED BY <1>14, <2>1, <2>2, <2>3, <2>4 DEF ReadOK
<1>18. Store!TraceComplete' BY <1>1 DEF DownloadInv, Store!TraceComplete
<1> QED BY <1>13, <1>15, <1>16, <1>17, <1>18

(* What is handed out begins with what was due. *)
LEMMA DownloadAnswers ==
  ASSUME Store!LogStoreAssumption, DownloadInv, Store!ReadSegment, download.found = <<>>
  PROVE  Store!TraceComplete' /\ answer' \in Answers
<1>1. /\ download.at = "read"
      /\ answer' = [of |-> "trace", ok |-> TRUE, got |-> download.out, due |-> download.due]
  BY DEF Store!ReadSegment, Store!Answer
<1>2. download \in Downloads BY DEF DownloadInv, StoreInv, StoreTyped, Downloads
<1> DEFINE s == download.due
           u == download.out
<1>3. s \in Seq(Nat) /\ u \in Seq(Nat) BY <1>2 DEF Downloads
<1>4. Increasing(s) /\ Increasing(u) BY <1>1 DEF DownloadInv, DueOK, ReadOK
<1>5. \A x : ~Has(<<>>, x)
  <2>1. Len(<<>>) = 0 BY EmptySeq
  <2> QED BY <2>1 DEF Has
<1>6. \A x \in Nat : Has(s, x) => Has(u, x) BY <1>1, <1>5 DEF DownloadInv, ReadOK
<1>7. \A x : Has(s, x) => Has(u, x) BY <1>3, <1>6, HasSome
<1>8. ASSUME NEW x \in Nat, Has(u, x) PROVE Has(s, x) \/ \A y \in Nat : Has(s, y) => y < x
  <2>1. PICK d \in Store!Date : Has(logged[<<d, download.task>>], x)
    BY <1>1, <1>8 DEF DownloadInv, ReadOK
  <2> QED BY <1>1, <2>1 DEF DownloadInv, DueOK
<1>9. Store!IsPrefix(s, u) BY <1>3, <1>4, <1>7, <1>8, PrefixIs
<1>10. DOMAIN u = 1..Len(u) BY <1>3, LenProperties
<1>11. \A i, j \in DOMAIN u : i < j => u[i] < u[j] BY <1>4, <1>10 DEF Increasing
<1>12. answer'.got = u /\ answer'.due = s BY <1>1
<1>13. Store!TraceComplete' BY <1>9, <1>11, <1>12 DEF Store!TraceComplete
<1>14. answer' \in Answers BY <1>1, <1>3 DEF Answers
<1> QED BY <1>13, <1>14

LEMMA DownloadFails ==
  ASSUME DownloadInv, Store!Answer(FALSE, <<>>)
  PROVE  Store!TraceComplete' /\ answer' \in Answers /\ download' = Store!Idle
<1>1. answer' = [of |-> "trace", ok |-> FALSE, got |-> <<>>, due |-> download.due] /\
        download' = Store!Idle
  BY DEF Store!Answer
<1>2. download.due \in Seq(Nat) BY DEF DownloadInv, StoreInv, StoreTyped
<1>3. <<>> \in Seq(Nat) BY EmptySeq
<1> QED BY <1>1, <1>2, <1>3 DEF Store!TraceComplete, Answers

LEMMA DownloadStep ==
  ASSUME Store!LogStoreAssumption, DownloadInv, Store!Next PROVE DownloadInv'
<1>0. download \in Downloads /\ answer \in Answers
  BY DEF DownloadInv, StoreInv, StoreTyped, Downloads, Answers
<1>1. ASSUME download' \in Downloads, answer' \in Answers, DueOK' /\ LookOK' /\ ReadOK' /\
               Store!TraceComplete'
      PROVE  DownloadInv'
  BY <1>1, StoreStep DEF DownloadInv, Downloads, Answers
<1>2. ASSUME UNCHANGED <<logged, download, answer>> PROVE DownloadInv'
  <2>1. DueOK' /\ LookOK' /\ ReadOK' /\ Store!TraceComplete' BY <1>2, DownloadKept
  <2> QED BY <1>0, <1>1, <1>2, <2>1
<1>3. ASSUME NEW t \in StoreTask, Store!Begin(t) PROVE DownloadInv'
  BY <1>2, <1>3 DEF Store!Begin
<1>4. CASE Store!Open \/ Store!Write \/ Store!Midnight
  BY <1>2, <1>4 DEF Store!Open, Store!Write, Store!Midnight
<1>5. CASE Store!Close
  <2>1. UNCHANGED <<download, answer>> BY <1>5 DEF Store!Close
  <2> QED BY <1>0, <1>1, <1>5, <2>1, DownloadClose
<1>6. CASE Store!Crash
  <2>1. download' = Store!Idle /\ answer' = Store!Unasked BY <1>6 DEF Store!Crash
  <2>2. <<>> \in Seq(Nat) BY EmptySeq
  <2>3. answer' \in Answers /\ Store!TraceComplete'
    BY <2>1, <2>2 DEF Store!Unasked, Answers, Store!TraceComplete
  <2> QED BY <1>1, <2>1, <2>3, DownloadEnds
<1>7. ASSUME NEW p \in Store!Place, Store!HandleLogEntry(p) PROVE DownloadInv'
  <2>1. /\ answer' = [of |-> "entries", ok |-> TRUE, got |-> Store!ReadLogs(p), due |-> logged[p]]
        /\ UNCHANGED <<logged, download>>
    BY <1>7 DEF Store!HandleLogEntry
  <2>2. logged[p] \in Seq(Nat) BY DEF DownloadInv, StoreInv, StoreTyped
  <2>3. Store!ReadLogs(p) \in Seq(Nat)
    <3>1. Store!Uncompressed(p) \in Seq(Nat)
      <4>1. <<0>> \in Seq(Nat) /\ <<>> \in Seq(Nat) BY EmptySeq
      <4> QED BY <4>1 DEF Store!Uncompressed
    <3>2. CASE p \in exists /\ Store!Readable(p)
      <4>1. Store!Raw(p).ok /\ Store!Raw(p).got = Store!Content(p) BY <3>2 DEF Store!Raw
      <4>2. Store!Content(p) = logged[p] BY <4>1, RawIsLogged DEF DownloadInv
      <4> QED BY <2>2, <3>1, <4>2 DEF Store!ReadLogs
    <3>3. CASE ~(p \in exists /\ Store!Readable(p)) BY <3>1, <3>3 DEF Store!ReadLogs
    <3> QED BY <3>2, <3>3
  <2>4. answer' \in Answers /\ answer'.of # "trace" BY <2>1, <2>2, <2>3 DEF Answers
  <2>5. DueOK' /\ LookOK' /\ ReadOK' /\ Store!TraceComplete' BY <2>1, <2>4, DownloadKept
  <2> QED BY <1>0, <1>1, <2>1, <2>4, <2>5
<1>8. ASSUME NEW t \in StoreTask, Store!AskForTrace(t) PROVE DownloadInv'
  <2>1. answer' = answer BY <1>8 DEF Store!AskForTrace
  <2> QED BY <1>0, <1>1, <1>8, <2>1, DownloadAsk
<1>9. CASE Store!ListDates
  <2>1. answer' = answer BY <1>9 DEF Store!ListDates
  <2> QED BY <1>0, <1>1, <1>9, <2>1, DownloadList
<1>10. CASE Store!LookAtDate
  <2>1. CASE download.dates # <<>>
    <3>1. answer' = answer BY <1>10, <2>1 DEF Store!LookAtDate
    <3> QED BY <1>0, <1>1, <1>10, <2>1, <3>1, DownloadLook
  <2>2. CASE download.dates = <<>> /\ download.found # <<>>
    <3>1. answer' = answer BY <1>10, <2>2 DEF Store!LookAtDate
    <3> QED BY <1>0, <1>1, <1>10, <2>2, <3>1, DownloadTurn
  <2>3. CASE download.dates = <<>> /\ download.found = <<>>
    <3>1. Store!Answer(FALSE, <<>>) BY <1>10, <2>3 DEF Store!LookAtDate
    <3> QED BY <1>1, <3>1, DownloadFails, DownloadEnds
  <2> QED BY <2>1, <2>2, <2>3
<1>11. CASE Store!ReadSegment
  <2> DEFINE raw == Store!Raw(<<Head(download.found), download.task>>)
  <2>1. CASE download.found = <<>>
    <3>1. download' = Store!Idle BY <1>11, <2>1 DEF Store!ReadSegment, Store!Answer
    <3> QED BY <1>1, <1>11, <2>1, <3>1, DownloadAnswers, DownloadEnds
  <2>2. CASE download.found # <<>> /\ raw.ok
    <3>1. answer' = answer BY <1>11, <2>2 DEF Store!ReadSegment
    <3> QED BY <1>0, <1>1, <1>11, <2>2, <3>1, DownloadRead
  <2>3. CASE download.found # <<>> /\ ~raw.ok
    <3>1. Store!Answer(FALSE, <<>>) BY <1>11, <2>3 DEF Store!ReadSegment
    <3> QED BY <1>1, <3>1, DownloadFails, DownloadEnds
  <2> QED BY <2>1, <2>2, <2>3
<1> QED BY <1>3, <1>4, <1>5, <1>6, <1>7, <1>8, <1>9, <1>10, <1>11 DEF Store!Next

LEMMA DownloadCorrect == ASSUME Store!LogStoreAssumption PROVE Store!Spec => []DownloadInv
<1>1. Store!Init => DownloadInv
  <2> SUFFICES ASSUME Store!Init PROVE DownloadInv OBVIOUS
  <2>1. download = Store!Idle /\ answer = Store!Unasked BY DEF Store!Init
  <2>2. download.at = "idle" /\ answer.of = "nothing" BY <2>1 DEF Store!Idle, Store!Unasked
  <2> QED BY <2>2, StoreInit DEF DownloadInv, DueOK, LookOK, ReadOK, Store!TraceComplete
<1>2. UNCHANGED Store!vars /\ DownloadInv => DownloadInv'
  <2> SUFFICES ASSUME UNCHANGED Store!vars, DownloadInv PROVE DownloadInv' OBVIOUS
  <2>1. UNCHANGED <<today, number, stream, exists, append, logged, download, answer>>
    BY DEF Store!vars
  <2>2. StoreTyped' /\ AppendOK' /\ OrderOK'
    BY <2>1 DEF DownloadInv, StoreInv, StoreTyped, AppendOK, OrderOK
  <2>3. \A p \in Store!Place : (Unfinished(p)' <=> Unfinished(p)) /\ Past(p)' = Past(p)
    BY <2>1 DEF Past, Unfinished
  <2>4. FilesOK' BY <2>1, <2>3, FilesKept DEF DownloadInv, StoreInv
  <2>5. DueOK' /\ LookOK' /\ ReadOK' /\ Store!TraceComplete' BY <2>1, DownloadKept
  <2> QED BY <2>2, <2>4, <2>5 DEF DownloadInv, StoreInv
<1> QED BY <1>1, <1>2, DownloadStep, PTL DEF Store!Spec

(* A trace that is handed out is complete and in order, whatever is        *)
(* appended meanwhile, over any number of dates, crashes and files from    *)
(* before.                                                                 *)
THEOREM TracesComplete ==
  ASSUME Store!LogStoreAssumption
  PROVE  Store!Spec => []Store!TraceComplete
<1>1. DownloadInv => Store!TraceComplete BY DEF DownloadInv
<1> QED BY <1>1, DownloadCorrect, PTL
-------------------------------------------------------------------------------

(* While the server does not crash, only the entry Append is writing is   *)
(* not whole.                                                              *)
WholeOK ==
  \A p \in Store!Place : \A i \in 1..Len(stream[p]) :
    stream[p][i].whole \/ (Unfinished(p) /\ i = Len(stream[p]))

LEMMA WholeStep ==
  ASSUME Store!LogStoreAssumption, ~Crashes, DownloadInv, WholeOK, [Store!Next]_Store!vars
  PROVE  WholeOK'
<1>0. /\ append.at # "idle" => append.place \in Store!Place
      /\ \A p \in Store!Place : stream[p] \in Seq(Stream)
  BY DEF DownloadInv, StoreInv, StoreTyped, AppendOK
<1>1. ASSUME stream' = stream, append.at # "close" \/ append' = append PROVE WholeOK'
  BY <1>1 DEF WholeOK, Unfinished
<1> DEFINE here == append.place
           len == Len(stream[here])
<1>2. CASE Store!Write
  <2> DEFINE more == Append(stream[here], [n |-> append.n, whole |-> FALSE])
  <2>1. here \in Store!Place /\ stream[here] \in Seq(Stream) /\ append.n \in Nat
    BY <1>0, <1>2 DEF Store!Write, DownloadInv, StoreInv, StoreTyped
  <2>2. stream' = [stream EXCEPT ![here] = more] /\
          append' = [append EXCEPT !.at = "close"] /\ append.at = "write"
    BY <1>2 DEF Store!Write
  <2>3. append'.at = "close" /\ append'.place = here
    BY <2>2 DEF DownloadInv, StoreInv, StoreTyped
  <2>4. Len(more) = len + 1 /\ len \in Nat /\ \A i \in 1..len : more[i] = stream[here][i]
    BY <2>1, AppendProperties, LenProperties DEF Stream
  <2> HIDE DEF more
  <2>5. \A p \in Store!Place : stream'[p] = IF p = here THEN more ELSE stream[p]
    BY <2>2 DEF DownloadInv, StoreInv, StoreTyped
  <2>6. ASSUME NEW p \in Store!Place, NEW i \in 1..Len(stream'[p])
        PROVE  stream'[p][i].whole \/ (Unfinished(p)' /\ i = Len(stream'[p]))
    <3>1. \A j \in 1..Len(stream[p]) : stream[p][j].whole BY <2>2 DEF WholeOK, Unfinished
    <3>2. CASE p # here BY <2>5, <2>6, <3>1, <3>2
    <3>3. CASE p = here
      <4>1. i \in 1..len \/ i = Len(more) BY <2>4, <2>5, <2>6, <3>3
      <4>2. Unfinished(p)' BY <2>3, <3>3 DEF Unfinished
      <4>3. stream'[p] = more BY <2>5, <3>3
      <4> HIDE DEF here
      <4>4. CASE i \in 1..len BY <2>4, <3>1, <3>3, <4>3, <4>4
      <4> QED BY <4>1, <4>2, <4>3, <4>4
    <3> QED BY <3>2, <3>3
  <2> QED BY <2>6 DEF WholeOK
<1>3. CASE Store!Close
  <2> DEFINE new == [stream[here] EXCEPT ![len] = [n |-> append.n, whole |-> TRUE]]
  <2>1. here \in Store!Place /\ stream[here] \in Seq(Stream) /\ len \in Nat
    BY <1>0, <1>3, LenProperties DEF Store!Close
  <2>2. stream' = [stream EXCEPT ![here] = new] BY <1>3 DEF Store!Close, Store!ReplaceAt
  <2>3. stream[here] \in [1..len -> Stream] BY <2>1, LenProperties
  <2>4. new \in [1..len -> Stream] /\ \A i \in 1..len : new[i] = IF i = len
          THEN [n |-> append.n, whole |-> TRUE] ELSE stream[here][i]
    <3>1. [n |-> append.n, whole |-> TRUE] \in Stream
      BY DEF Stream, DownloadInv, StoreInv, StoreTyped
    <3> HIDE DEF len
    <3> QED BY <2>3, <3>1
  <2> HIDE DEF new
  <2>5. Len(new) = len BY <2>1, <2>4, LenProperties, SeqDef
  <2>6. \A p \in Store!Place : stream'[p] = IF p = here THEN new ELSE stream[p]
    BY <2>2 DEF DownloadInv, StoreInv, StoreTyped
  <2>7. ASSUME NEW p \in Store!Place, NEW i \in 1..Len(stream'[p]) PROVE stream'[p][i].whole
    <3>1. \A j \in 1..Len(stream[p]) : stream[p][j].whole \/ (p = here /\ j = Len(stream[p]))
      BY DEF WholeOK, Unfinished
    <3>2. CASE p # here BY <2>6, <2>7, <3>1, <3>2
    <3>3. CASE p = here
      <4>1. stream'[p] = new /\ i \in 1..len BY <2>5, <2>6, <2>7, <3>3
      <4>2. CASE i = len
        <5>1. new[i] = [n |-> append.n, whole |-> TRUE] BY <2>4, <4>1, <4>2
        <5> QED BY <4>1, <5>1
      <4>3. CASE i # len BY <2>4, <3>1, <3>3, <4>1, <4>3
      <4> QED BY <4>2, <4>3
    <3> QED BY <3>2, <3>3
  <2> QED BY <2>7 DEF WholeOK
<1>4. ASSUME NEW t \in StoreTask, Store!Begin(t) \/ Store!AskForTrace(t) PROVE WholeOK'
  BY <1>1, <1>4 DEF Store!Begin, Store!AskForTrace
<1>5. CASE Store!Open \/ Store!Midnight \/ Store!ListDates \/ Store!LookAtDate \/ Store!ReadSegment
  BY <1>1, <1>5 DEF Store!Open, Store!Midnight, Store!ListDates, Store!LookAtDate,
    Store!ReadSegment
<1>6. ASSUME NEW p \in Store!Place, Store!HandleLogEntry(p) PROVE WholeOK'
  BY <1>1, <1>6 DEF Store!HandleLogEntry
<1>7. ~Store!Crash BY DEF Store!Crash
<1>8. CASE UNCHANGED Store!vars BY <1>1, <1>8 DEF Store!vars
<1> QED BY <1>2, <1>3, <1>4, <1>5, <1>6, <1>7, <1>8 DEF Store!Next

LEMMA WholeListed ==
  ASSUME Store!LogStoreAssumption, DownloadInv, WholeOK PROVE Store!LoggedAreListed
<1> SUFFICES ASSUME NEW p \in Store!Place, logged[p] # <<>> PROVE p[2] \in Store!Listed(p[1])
  BY DEF Store!LoggedAreListed
<1>1. p[2] \in StoreTask /\ <<p[1], p[2]>> = p OBVIOUS
<1>2. SUFFICES Store!StartKnown(p) BY <1>1 DEF Store!Listed
<1>3. CASE p \in Legacy BY <1>3 DEF Store!StartKnown
<1>4. CASE p \notin Legacy
  <2>1. stream[p] \in Seq(Stream) /\ Len(stream[p]) \in Nat /\ logged[p] \in Seq(Nat) /\
          Len(logged[p]) \in Nat
    BY LenProperties DEF DownloadInv, StoreInv, StoreTyped
  <2>2. p \in exists BY <1>4 DEF DownloadInv, StoreInv, FilesOK
  <2>3. \A i \in 1..Past(p) : stream[p][i].whole
    <3>1. CASE Unfinished(p) BY <2>1, <3>1 DEF WholeOK, Past
    <3>2. CASE ~Unfinished(p) BY <2>1, <3>2 DEF WholeOK, Past
    <3> QED BY <3>1, <3>2
  <2>4. Len(logged[p]) = Past(p) BY <1>4, <2>3 DEF DownloadInv, StoreInv, FilesOK
  <2>5. Len(logged[p]) # 0 BY <2>1, EmptySeq
  <2>6. 1 \in 1..Past(p) /\ Past(p) \in Nat /\ Past(p) <= Len(stream[p])
    BY <2>1, <2>4, <2>5 DEF Past
  <2>7. stream[p] # <<>>
    <3>1. Len(stream[p]) # 0 BY <2>1, <2>6
    <3>2. Len(<<>>) = 0 BY EmptySeq
    <3> QED BY <3>1, <3>2
  <2> QED BY <2>2, <2>3, <2>6, <2>7 DEF Store!StartKnown
<1> QED BY <1>3, <1>4

(* While the server does not crash, every task with an entry is listed     *)
(* under its date.                                                         *)
THEOREM TasksListed ==
  ASSUME Store!LogStoreAssumption
  PROVE  Store!Spec => []Store!LoggedAreListed
<1>1. CASE Crashes
  <2>1. Store!LoggedAreListed BY <1>1 DEF Store!LoggedAreListed
  <2> QED BY <2>1, PTL
<1>2. CASE ~Crashes
  <2>1. Store!Init => WholeOK
    <3> SUFFICES ASSUME Store!Init, NEW p \in Store!Place PROVE Len(stream[p]) = 0
      BY DEF WholeOK
    <3> QED BY EmptySeq DEF Store!Init
  <2>2. WholeOK /\ DownloadInv /\ [Store!Next]_Store!vars => WholeOK' BY <1>2, WholeStep
  <2>3. WholeOK /\ DownloadInv => Store!LoggedAreListed BY WholeListed
  <2> QED BY <2>1, <2>2, <2>3, DownloadCorrect, PTL DEF Store!Spec
<1> QED BY <1>1, <1>2, Store!LogStoreAssumption DEF Store!LogStoreAssumption
===============================================================================
