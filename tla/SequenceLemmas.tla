--------------------------- MODULE SequenceLemmas ---------------------------
(***************************************************************************)
(* Facts about what the modules build from sequences by recursion.  They   *)
(* are proved by induction over a set of numbers: a theorem with the       *)
(* induction's formula as an operator cannot be instantiated, one with the *)
(* set of the numbers that satisfy it can.                                 *)
(***************************************************************************)
EXTENDS SequencesExt, SequenceTheorems, NaturalsInduction, WellFoundedInduction, TLAPS

(* A set with 0 and the successors of its numbers has every number.        *)
LEMMA Induction ==
  ASSUME NEW S, 0 \in S, \A n \in Nat : n \in S => n + 1 \in S
  PROVE  \A n \in Nat : n \in S
<1> DEFINE Less == {ss \in Nat \X Nat : ss[1] < ss[2]}
           T    == {n \in Nat : n \notin S}
<1>1. IsWellFoundedOn(Less, Nat)
  BY NatLessThanWellFounded DEF OpToRel
<1>2. SUFFICES ASSUME T # {} PROVE FALSE
  OBVIOUS
<1>3. PICK x \in T : \A y \in T : <<y, x>> \notin Less
  BY ONLY <1>1, <1>2, WFMin, T \subseteq Nat
<1>4. x \in Nat /\ x # 0 /\ x - 1 \in Nat
  BY <1>3
<1>5. <<x - 1, x>> \in Less
  BY <1>4
<1>6. x - 1 \in S
  BY <1>3, <1>4, <1>5
<1>7. (x - 1) + 1 \in S
  BY <1>4, <1>6
<1> QED
  BY <1>3, <1>4, <1>7

(* f begins with a and goes on by the steps: step[i] makes f[i] of f[i-1]. *)
FollowsSteps(f, S, N, a, step) ==
  f \in [0..N -> S] /\ f[0] = a /\ \A i \in 1..N : f[i] = step[i][f[i-1]]

(* There is a function with a given beginning and given steps: what a      *)
(* recursive definition needs to mean what it says.                        *)
LEMMA Recursion ==
  ASSUME NEW S, NEW N \in Nat, NEW a \in S, NEW step \in [1..N -> [S -> S]]
  PROVE  \E f : FollowsSteps(f, S, N, a, step)
<1> DEFINE Upto(k, f) == /\ f \in [0..k -> S]
                         /\ f[0] = a
                         /\ \A i \in 1..k : f[i] = step[i][f[i-1]]
           G == {k \in Nat : k <= N => \E f : Upto(k, f)}
<1>1. 0 \in G
  <2>1. Upto(0, [i \in 0..0 |-> a])
    OBVIOUS
  <2> QED BY <2>1
<1>2. ASSUME NEW k \in Nat, k \in G PROVE k + 1 \in G
  <2>1. SUFFICES ASSUME k + 1 <= N PROVE \E f : Upto(k + 1, f)
    OBVIOUS
  <2>2. PICK f : Upto(k, f)
    BY <1>2, <2>1
  <2> DEFINE e == step[k + 1][f[k]]
             h == [i \in 0..(k + 1) |-> IF i = k + 1 THEN e ELSE f[i]]
  <2>3. e \in S
    <3>1. k + 1 \in 1..N /\ f[k] \in S
      BY <2>1, <2>2
    <3> QED BY <3>1
  <2>4. h \in [0..(k+1) -> S] /\ h[0] = a /\ h[k+1] = e /\ h[k] = f[k]
    BY <2>2, <2>3
  <2>5. ASSUME NEW i \in 1..k PROVE h[i] = step[i][h[i-1]]
    <3>1. h[i] = f[i] /\ h[i-1] = f[i-1]
      BY <2>2
    <3>2. f[i] = step[i][f[i-1]]
      BY <2>2
    <3> QED BY ONLY <3>1, <3>2
  <2>6. (k + 1) - 1 = k /\ \A i \in 1..(k+1) : i \in 1..k \/ i = k + 1
    OBVIOUS
  <2>7. h[k+1] = step[k + 1][h[k]]
    BY <2>4
  <2>8. \A i \in 1..(k+1) : h[i] = step[i][h[i-1]]
    <3> HIDE DEF h
    <3> QED BY ONLY <2>5, <2>6, <2>7
  <2> QED
    <3> HIDE DEF h
    <3> QED BY <2>4, <2>8
<1>3. \A k \in Nat : k \in G
  <2> HIDE DEF G
  <2> QED BY <1>1, <1>2, Induction
<1>4. PICK f : Upto(N, f)
  BY <1>3
<1> QED BY <1>4 DEF FollowsSteps

(* Two functions that begin and go on alike are alike.                     *)
StepsAgree(N, f, g) ==
  /\ f[0] = g[0]
  /\ \A i \in 1..N : f[i-1] = g[i-1] => f[i] = g[i]

AgreeUpto(N, f, g) == \A i \in 0..N : f[i] = g[i]

LEMMA SameSteps ==
  ASSUME NEW N \in Nat, NEW f, NEW g, StepsAgree(N, f, g)
  PROVE  AgreeUpto(N, f, g)
<1>0. f[0] = g[0] /\ \A i \in 1..N : f[i-1] = g[i-1] => f[i] = g[i]
  BY DEF StepsAgree
<1> DEFINE G == {k \in Nat : k <= N => f[k] = g[k]}
<1>1. 0 \in G
  BY <1>0
<1>2. ASSUME NEW k \in Nat, k \in G PROVE k + 1 \in G
  <2>1. SUFFICES ASSUME k + 1 <= N PROVE f[k+1] = g[k+1]
    OBVIOUS
  <2>2. k + 1 \in 1..N /\ (k + 1) - 1 = k /\ f[k] = g[k]
    BY <1>2, <2>1
  <2>3. f[(k+1)-1] = g[(k+1)-1] => f[k+1] = g[k+1]
    BY <1>0, <2>2
  <2> QED BY ONLY <2>2, <2>3
<1>3. \A k \in Nat : k \in G
  <2> HIDE DEF G
  <2> QED BY <1>1, <1>2, Induction
<1> QED BY <1>3 DEF AgreeUpto

(* Numbers that do not decrease from one place to the next do not decrease *)
(* over several.                                                           *)
LEMMA Ascending ==
  ASSUME NEW N \in Nat, NEW start \in [1..N -> Int],
         \A i \in 1..(N-1) : start[i] <= start[i+1]
  PROVE  \A i \in 1..N, j \in 1..N : i <= j => start[i] <= start[j]
<1> DEFINE G == {k \in Nat : \A i \in 1..N : i + k <= N => start[i] <= start[i + k]}
<1>1. 0 \in G
  OBVIOUS
<1>2. ASSUME NEW k \in Nat, k \in G PROVE k + 1 \in G
  <2>1. SUFFICES ASSUME NEW i \in 1..N, i + (k + 1) <= N
                 PROVE  start[i] <= start[i + (k + 1)]
    OBVIOUS
  <2>2. start[i] <= start[i + k]
    BY <1>2, <2>1
  <2>3. i + k \in 1..(N-1) /\ (i + k) + 1 = i + (k + 1)
    BY <2>1
  <2>4. start[i + k] <= start[i + (k + 1)]
    BY <2>3
  <2>5. start[i] \in Int /\ start[i + k] \in Int /\ start[i + (k + 1)] \in Int
    BY <2>1, <2>3
  <2> QED BY ONLY <2>2, <2>4, <2>5
<1>3. \A k \in Nat : k \in G
  <2> HIDE DEF G
  <2> QED BY <1>1, <1>2, Induction
<1>4. SUFFICES ASSUME NEW i \in 1..N, NEW j \in 1..N, i <= j PROVE start[i] <= start[j]
  OBVIOUS
<1>5. j - i \in Nat /\ i + (j - i) = j
  BY <1>4
<1>6. j - i \in G
  BY <1>3, <1>5
<1>7. start[i] <= start[i + (j - i)]
  BY <1>5, <1>6
<1> QED BY <1>5, <1>7

(* FlattenSeq puts one sequence behind the other.                          *)
LEMMA FlattenIs ==
  ASSUME NEW S, NEW ss \in Seq(Seq(S))
  PROVE  \E f \in [0..Len(ss) -> Seq(S)] :
           /\ f[0] = <<>>
           /\ \A i \in 1..Len(ss) : f[i] = f[i-1] \o ss[i]
           /\ FlattenSeq(ss) = f[Len(ss)]
<1>0. PICK L \in Nat : L = Len(ss)
  OBVIOUS
<1> DEFINE step == [i \in 1..L |-> [s \in Seq(S) |-> s \o ss[i]]]
           Flat(g) == g = [i \in 1..L |-> IF i = 1 THEN ss[i] ELSE g[i-1] \o ss[i]]
<1>1. \A i \in 1..L : ss[i] \in Seq(S)
  BY <1>0
<1>2. step \in [1..L -> [Seq(S) -> Seq(S)]] /\ <<>> \in Seq(S)
  BY <1>1
<1>3. PICK f \in [0..L -> Seq(S)] : f[0] = <<>> /\ \A i \in 1..L : f[i] = step[i][f[i-1]]
  <2> HIDE DEF step
  <2>1. \E f : FollowsSteps(f, Seq(S), L, <<>>, step)
    BY <1>2, Recursion
  <2> QED BY <2>1 DEF FollowsSteps
<1>4. \A i \in 1..L : f[i] = f[i-1] \o ss[i]
  <2> TAKE i \in 1..L
  <2>1. i - 1 \in 0..L
    OBVIOUS
  <2>2. step[i][f[i-1]] = f[i-1] \o ss[i]
    BY <1>3, <2>1
  <2> QED BY <1>3, <2>2
<1>5. CASE L = 0
  <2>1. ss = <<>> /\ FlattenSeq(ss) = ss
    BY <1>0, <1>5, EmptySeq DEF FlattenSeq
  <2> QED BY <1>0, <1>3, <1>4, <1>5, <2>1
<1>6. CASE L # 0
  <2>1. \E g : Flat(g)
    <3> DEFINE h == [i \in 1..L |-> f[i]]
    <3>1. ASSUME NEW i \in 1..L
          PROVE  h[i] = IF i = 1 THEN ss[i] ELSE h[i-1] \o ss[i]
      <4>1. CASE i = 1
        <5>0. 1 \in 1..L /\ 1 - 1 = 0
          BY <4>1
        <5>1. f[1] = f[0] \o ss[1]
          BY <1>4, <5>0
        <5>2. <<>> \o ss[1] = ss[1]
          BY <1>1, <4>1, ConcatEmptySeq
        <5> QED BY <1>3, <4>1, <5>1, <5>2
      <4>2. CASE i # 1
        <5>1. i - 1 \in 1..L
          BY <4>2
        <5>2. h[i] = f[i] /\ h[i-1] = f[i-1]
          BY <5>1
        <5>3. f[i] = f[i-1] \o ss[i]
          BY <1>4
        <5> QED BY <4>2, <5>2, <5>3
      <4> QED BY <4>1, <4>2
    <3>2. Flat(h)
      BY <3>1
    <3> HIDE DEF h
    <3> QED BY <3>2
  <2> DEFINE g == CHOOSE g : Flat(g)
  <2>2. Flat(g)
    BY <2>1
  <2>3. FlattenSeq(ss) = g[L]
    BY <1>0, <1>6 DEF FlattenSeq
  <2> HIDE DEF g
  <2> DEFINE G == {k \in Nat : k + 1 \in 1..L => g[k+1] = f[k+1]}
  <2>4. 0 \in G
    <3>1. CASE L >= 1
      <4>1. g[1] = ss[1]
        BY <2>2, <3>1
      <4>0. 1 \in 1..L /\ 1 - 1 = 0
        BY <3>1
      <4>2. f[1] = f[0] \o ss[1]
        BY <1>4, <4>0
      <4>3. <<>> \o ss[1] = ss[1]
        BY <1>1, <3>1, ConcatEmptySeq
      <4>4. g[1] = f[1]
        BY <1>3, <4>1, <4>2, <4>3
      <4> QED BY <4>4
    <3> QED BY <3>1
  <2>5. ASSUME NEW k \in Nat, k \in G PROVE k + 1 \in G
    <3>1. SUFFICES ASSUME (k + 1) + 1 \in 1..L PROVE g[(k+1)+1] = f[(k+1)+1]
      OBVIOUS
    <3>2. k + 1 \in 1..L /\ (k+1)+1 # 1 /\ ((k+1)+1) - 1 = k + 1
      BY <3>1
    <3>3. g[k+1] = f[k+1]
      BY <2>5, <3>2
    <3>4. g[(k+1)+1] = g[((k+1)+1)-1] \o ss[(k+1)+1]
      BY <2>2, <3>1, <3>2
    <3>5. f[(k+1)+1] = f[((k+1)+1)-1] \o ss[(k+1)+1]
      BY <1>4, <3>1
    <3> QED BY ONLY <3>2, <3>3, <3>4, <3>5
  <2>6. \A k \in Nat : k \in G
    <3> HIDE DEF G
    <3> QED BY <2>4, <2>5, Induction
  <2>7. g[L] = f[L]
    <3>1. L - 1 \in Nat /\ (L - 1) + 1 = L /\ L \in 1..L
      BY <1>6
    <3>2. L - 1 \in G
      BY <2>6, <3>1
    <3> QED BY <3>1, <3>2
  <2> QED BY <1>0, <1>3, <1>4, <2>3, <2>7
<1> QED BY <1>5, <1>6

(* The elements of a concatenation, each side by its own places.           *)
LEMMA ConcatAt ==
  ASSUME NEW S, NEW s \in Seq(S), NEW t \in Seq(S)
  PROVE  /\ s \o t \in Seq(S) /\ Len(s \o t) = Len(s) + Len(t)
         /\ \A i \in 1..Len(s) : (s \o t)[i] = s[i]
         /\ \A i \in 1..Len(t) : (s \o t)[Len(s) + i] = t[i]
<1>1. PICK k \in Nat, l \in Nat : k = Len(s) /\ l = Len(t)
  OBVIOUS
<1>2. /\ s \o t \in Seq(S) /\ Len(s \o t) = k + l
      /\ \A i \in 1..(k + l) : (s \o t)[i] = IF i <= k THEN s[i] ELSE t[i - k]
  BY <1>1, ConcatProperties
<1>3. \A i \in 1..k : (s \o t)[i] = s[i]
  BY <1>2
<1>4. ASSUME NEW i \in 1..l PROVE (s \o t)[k + i] = t[i]
  <2>1. k + i \in 1..(k + l) /\ ~(k + i <= k) /\ (k + i) - k = i
    OBVIOUS
  <2> QED BY <1>2, <2>1
<1> QED BY <1>1, <1>2, <1>3, <1>4

(* s is the sequences ss one behind the other, each from its start on.     *)
LaidOut(s, ss, start) ==
  /\ start \in [1..(Len(ss) + 1) -> Nat]
  /\ start[1] = 0
  /\ \A n \in 1..Len(ss) : start[n+1] = start[n] + Len(ss[n])
  /\ Len(s) = start[Len(ss) + 1]
  /\ \A n \in 1..Len(ss) : \A i \in 1..Len(ss[n]) : s[start[n] + i] = ss[n][i]

LEMMA FlattenLaidOut ==
  ASSUME NEW S, NEW ss \in Seq(Seq(S))
  PROVE  FlattenSeq(ss) \in Seq(S) /\ \E start : LaidOut(FlattenSeq(ss), ss, start)
<1>0. PICK L \in Nat : L = Len(ss)
  OBVIOUS
<1>1. PICK f \in [0..L -> Seq(S)] :
        f[0] = <<>> /\ (\A i \in 1..L : f[i] = f[i-1] \o ss[i]) /\ FlattenSeq(ss) = f[L]
  BY <1>0, FlattenIs
<1>2. \A i \in 1..L : ss[i] \in Seq(S)
  BY <1>0
<1> DEFINE start == [n \in 1..(L+1) |-> Len(f[n-1])]
<1>3. start \in [1..(L+1) -> Nat]
  <2>1. \A n \in 1..(L+1) : n - 1 \in 0..L
    OBVIOUS
  <2> QED BY <1>1, <2>1
<1>4. start[1] = 0
  <2>1. 1 \in 1..(L+1) /\ 1 - 1 = 0
    OBVIOUS
  <2> QED BY <1>1, <2>1
<1>5. ASSUME NEW n \in 1..L
      PROVE  /\ f[n] \in Seq(S) /\ f[n-1] \in Seq(S) /\ ss[n] \in Seq(S)
             /\ f[n] = f[n-1] \o ss[n]
             /\ start[n] = Len(f[n-1]) /\ start[n+1] = Len(f[n])
  <2>1. n - 1 \in 0..L /\ n \in 0..L /\ n \in 1..(L+1) /\ n + 1 \in 1..(L+1) /\ (n + 1) - 1 = n
    OBVIOUS
  <2>2. f[n] \in Seq(S) /\ f[n-1] \in Seq(S)
    BY <1>1, <2>1
  <2>3. start[n] = Len(f[n-1]) /\ start[n+1] = Len(f[n])
    BY <2>1
  <2> HIDE DEF start
  <2> QED BY <1>1, <1>2, <2>2, <2>3
<1>6. \A n \in 1..L : start[n+1] = start[n] + Len(ss[n])
  <2> TAKE n \in 1..L
  <2>1. Len(f[n-1] \o ss[n]) = Len(f[n-1]) + Len(ss[n])
    BY <1>5, ConcatAt
  <2> HIDE DEF start
  <2> QED BY <1>5, <2>1
<1>7. FlattenSeq(ss) \in Seq(S) /\ Len(FlattenSeq(ss)) = start[L+1]
  <2>1. L \in 0..L /\ L + 1 \in 1..(L+1) /\ (L + 1) - 1 = L
    OBVIOUS
  <2> QED BY <1>1, <2>1
<1> DEFINE Holds(k) == \A n \in 1..L : n <= k =>
                         \A i \in 1..Len(ss[n]) : f[k][start[n] + i] = ss[n][i]
           G == {k \in Nat : k <= L => Holds(k)}
<1>8. 0 \in G
  OBVIOUS
<1>9. ASSUME NEW k \in Nat, k \in G PROVE k + 1 \in G
  <2> HIDE DEF start
  <2>0. SUFFICES ASSUME k + 1 <= L PROVE Holds(k + 1)
    <3> HIDE DEF Holds
    <3> QED OBVIOUS
  <2>a. k <= L => Holds(k)
    <3> HIDE DEF Holds
    <3> QED BY <1>9
  <2>1. SUFFICES ASSUME NEW n \in 1..L, n <= k + 1, NEW i \in 1..Len(ss[n])
                 PROVE  f[k+1][start[n] + i] = ss[n][i]
    OBVIOUS
  <2>2. k + 1 \in 1..L /\ (n <= k \/ n = k + 1)
    BY <2>0, <2>1
  <2>3. k + 1 \in 1..L /\ (k + 1) - 1 = k /\ k <= L
    BY <2>0
  <2>4. /\ f[k+1] \in Seq(S) /\ f[k] \in Seq(S) /\ ss[k+1] \in Seq(S)
        /\ f[k+1] = f[k] \o ss[k+1] /\ start[k+1] = Len(f[k])
    BY <1>5, <2>3
  <2>5. start[n] \in Nat /\ Len(ss[n]) \in Nat /\ start[n+1] \in Nat
    <3>1. ss[n] \in Seq(S) /\ n \in 1..(L+1) /\ n + 1 \in 1..(L+1)
      BY <1>2
    <3>2. start[n] \in Nat /\ start[n+1] \in Nat
      BY <1>3, <3>1
    <3> QED BY <3>1, <3>2
  <2>6. CASE n = k + 1
    <3>1. i \in 1..Len(ss[k+1])
      BY <2>6
    <3>2. PICK s \in Seq(S), u \in Seq(S) : s = f[k] /\ u = ss[k+1]
      BY <2>4
    <3>3. i \in 1..Len(u) /\ s \in Seq(S) /\ u \in Seq(S)
      BY <3>1, <3>2
    <3>4. \A j \in 1..Len(u) : (s \o u)[Len(s) + j] = u[j]
      BY ONLY <3>3, ConcatAt
    <3>5. (s \o u)[Len(s) + i] = u[i]
      BY <3>3, <3>4
    <3> QED BY <2>4, <2>6, <3>2, <3>5
  <2>7. CASE n <= k
    <3>1. f[k][start[n] + i] = ss[n][i]
      BY <2>a, <2>3, <2>7
    <3>2. start[n+1] <= start[k+1]
      <4>1. \A m \in 1..((L+1)-1) : start[m] <= start[m+1]
        <5> TAKE m \in 1..((L+1)-1)
        <5>1. m \in 1..L /\ m \in 1..(L+1) /\ Len(ss[m]) \in Nat
          BY <1>2
        <5>2. start[m] \in Nat /\ start[m+1] = start[m] + Len(ss[m])
          BY <1>3, <1>6, <5>1
        <5> QED BY <5>1, <5>2
      <4>2. \A i1 \in 1..(L+1), j1 \in 1..(L+1) : i1 <= j1 => start[i1] <= start[j1]
        <5>1. L + 1 \in Nat /\ start \in [1..(L+1) -> Int]
          BY <1>3
        <5> QED BY <4>1, <5>1, Ascending
      <4>3. n + 1 \in 1..(L+1) /\ k + 1 \in 1..(L+1) /\ n + 1 <= k + 1
        BY <2>3, <2>7
      <4> QED BY <4>2, <4>3
    <3>3. start[n+1] = start[n] + Len(ss[n])
      BY <1>6
    <3>4. start[n] + i \in 1..Len(f[k])
      <4>1. start[n] \in Nat /\ Len(ss[n]) \in Nat /\ Len(f[k]) \in Nat
        BY <2>4, <2>5
      <4>2. PICK a, b, c : a = start[n] /\ b = Len(ss[n]) /\ c = Len(f[k])
        OBVIOUS
      <4>3. a \in Nat /\ b \in Nat /\ c \in Nat
        BY ONLY <4>1, <4>2
      <4>5. a + b <= c /\ i \in 1..b
        BY <2>4, <3>2, <3>3, <4>2
      <4>6. a + i \in 1..c
        BY ONLY <4>3, <4>5
      <4> QED BY <4>2, <4>6
    <3>5. (f[k] \o ss[k+1])[start[n] + i] = f[k][start[n] + i]
      <4>1. PICK x, y, m : x = f[k] /\ y = ss[k+1] /\ m = start[n] + i
        OBVIOUS
      <4>2. x \in Seq(S) /\ y \in Seq(S) /\ m \in 1..Len(x)
        BY <2>4, <3>4, <4>1
      <4>3. (x \o y)[m] = x[m]
        BY ONLY <4>2, ConcatAt
      <4> QED BY <4>1, <4>3
    <3> QED BY <2>4, <3>1, <3>5
  <2> QED BY <2>2, <2>6, <2>7
<1>10. \A k \in Nat : k \in G
  <2> HIDE DEF G
  <2> QED BY <1>8, <1>9, Induction
<1>11. \A n \in 1..L : \A i \in 1..Len(ss[n]) : f[L][start[n] + i] = ss[n][i]
  <2> HIDE DEF start
  <2>1. Holds(L)
    <3> HIDE DEF Holds
    <3> QED BY <1>10
  <2>2. \A n \in 1..L : n <= L
    OBVIOUS
  <2> QED BY <2>1, <2>2
<1>12. LaidOut(FlattenSeq(ss), ss, start)
  <2> HIDE DEF start
  <2> QED BY <1>0, <1>1, <1>3, <1>4, <1>6, <1>7, <1>11 DEF LaidOut
<1> QED BY <1>7, <1>12

(* The starts ascend, and every place is in one of the sequences.          *)
Covered(s, ss, start) ==
  /\ \A m \in 1..(Len(ss) + 1), n \in 1..(Len(ss) + 1) : m <= n => start[m] <= start[n]
  /\ \A p \in 1..Len(s) : \E n \in 1..Len(ss) : \E i \in 1..Len(ss[n]) : p = start[n] + i

LEMMA LaidOutCovers ==
  ASSUME NEW S, NEW ss \in Seq(Seq(S)), NEW s, NEW start, LaidOut(s, ss, start)
  PROVE  Covered(s, ss, start)
<1>0. PICK L \in Nat : L = Len(ss)
  OBVIOUS
<1>1. /\ start \in [1..(L+1) -> Nat] /\ start[1] = 0 /\ Len(s) = start[L+1]
      /\ \A n \in 1..L : start[n+1] = start[n] + Len(ss[n]) /\ Len(ss[n]) \in Nat
  BY <1>0 DEF LaidOut
<1>2. \A m \in 1..(L+1), n \in 1..(L+1) : m <= n => start[m] <= start[n]
  <2>1. \A m \in 1..((L+1)-1) : start[m] <= start[m+1]
    <3> TAKE m \in 1..((L+1)-1)
    <3>1. m \in 1..L /\ m \in 1..(L+1)
      OBVIOUS
    <3>2. start[m] \in Nat /\ start[m+1] = start[m] + Len(ss[m]) /\ Len(ss[m]) \in Nat
      BY <1>1, <3>1
    <3> QED BY ONLY <3>2
  <2>2. L + 1 \in Nat /\ start \in [1..(L+1) -> Int]
    BY <1>1
  <2> QED BY <2>1, <2>2, Ascending
<1> DEFINE G == {k \in Nat : k <= L => \A p \in 1..start[k+1] :
                               \E n \in 1..L : \E i \in 1..Len(ss[n]) : p = start[n] + i}
<1>3. 0 \in G
  BY <1>1
<1>4. ASSUME NEW k \in Nat, k \in G PROVE k + 1 \in G
  <2>1. SUFFICES ASSUME k + 1 <= L, NEW p \in 1..start[(k+1)+1]
                 PROVE  \E n \in 1..L : \E i \in 1..Len(ss[n]) : p = start[n] + i
    OBVIOUS
  <2>2. k + 1 \in 1..L /\ k <= L /\ k + 1 \in 1..(L+1) /\ (k+1)+1 \in 1..(L+1)
    BY <2>1
  <2>3. start[k+1] \in Nat /\ start[(k+1)+1] \in Nat
        /\ start[(k+1)+1] = start[k+1] + Len(ss[k+1]) /\ Len(ss[k+1]) \in Nat
    BY <1>1, <2>2
  <2>4. CASE p <= start[k+1]
    <3>1. p \in 1..start[k+1]
      BY <2>3, <2>4
    <3> QED BY <1>4, <2>2, <3>1
  <2>5. CASE p > start[k+1]
    <3>1. p - start[k+1] \in 1..Len(ss[k+1]) /\ p = start[k+1] + (p - start[k+1])
      <4>1. PICK a \in Nat, b \in Nat, l \in Nat :
              a = start[k+1] /\ b = start[(k+1)+1] /\ l = Len(ss[k+1]) /\ b = a + l
        BY ONLY <2>3
      <4>2. PICK m \in Nat : m = p /\ m <= a + l /\ m > a
        BY <2>5, <4>1
      <4>3. m - a \in 1..l /\ m = a + (m - a)
        BY <4>2
      <4> QED BY <4>1, <4>2, <4>3
    <3> QED BY <2>2, <3>1
  <2> QED BY <2>3, <2>4, <2>5
<1>5. \A k \in Nat : k \in G
  <2> HIDE DEF G
  <2> QED BY <1>3, <1>4, Induction
<1>6. L \in G
  BY <1>5
<1>7. \A p \in 1..Len(s) : \E n \in 1..L : \E i \in 1..Len(ss[n]) : p = start[n] + i
  BY <1>1, <1>6
<1> QED BY <1>0, <1>2, <1>7 DEF Covered

(* The part of s behind place p, up to q.                                  *)
LEMMA Cut ==
  ASSUME NEW S, NEW s \in Seq(S), NEW p \in Nat, NEW q \in Nat, p <= q, q <= Len(s)
  PROVE  /\ SubSeq(s, p + 1, q) \in Seq(S)
         /\ Len(SubSeq(s, p + 1, q)) = q - p
         /\ \A i \in 1..(q - p) : SubSeq(s, p + 1, q)[i] = s[p + i]
         /\ SubSeq(s, p + 1, q) = <<>> <=> p = q
<1>1. p + 1 \in Int /\ q \in Int /\ \A i \in (p + 1)..q : i \in 1..Len(s)
  OBVIOUS
<1>2. \A i \in (p + 1)..q : s[i] \in S
  BY <1>1, ElementOfSeq
<1>3. /\ SubSeq(s, p + 1, q) \in Seq(S)
      /\ Len(SubSeq(s, p + 1, q)) = IF p + 1 <= q THEN q - (p + 1) + 1 ELSE 0
      /\ \A i \in 1..(q - (p + 1) + 1) : SubSeq(s, p + 1, q)[i] = s[(p + 1) + i - 1]
  BY ONLY <1>1, <1>2, SubSeqProperties
<1>4. Len(SubSeq(s, p + 1, q)) = q - p
  BY <1>3
<1>5. ASSUME NEW i \in 1..(q - p) PROVE SubSeq(s, p + 1, q)[i] = s[p + i]
  <2>1. i \in 1..(q - (p + 1) + 1) /\ (p + 1) + i - 1 = p + i
    OBVIOUS
  <2> QED BY <1>3, <2>1
<1>6. SubSeq(s, p + 1, q) = <<>> <=> p = q
  <2>1. SubSeq(s, p + 1, q) = <<>> <=> Len(SubSeq(s, p + 1, q)) = 0
    BY <1>3, EmptySeq
  <2> QED BY <1>4, <2>1
<1> QED BY <1>3, <1>4, <1>5, <1>6

(* What is behind p up to q, and behind q up to r, is what is behind p.    *)
LEMMA CutJoin ==
  ASSUME NEW S, NEW s \in Seq(S), NEW p \in Nat, NEW q \in Nat, NEW r \in Nat,
         p <= q, q <= r, r <= Len(s)
  PROVE  SubSeq(s, p + 1, q) \o SubSeq(s, q + 1, r) = SubSeq(s, p + 1, r)
<1>1. p + 1 \in 1..(Len(s) + 1) /\ q \in ((p + 1) - 1)..Len(s) /\ r \in q..Len(s)
  OBVIOUS
<1> QED BY ONLY s \in Seq(S), <1>1, ConcatAdjacentSubSeq

(* A part of a part.                                                       *)
LEMMA CutAgain ==
  ASSUME NEW S, NEW s \in Seq(S), NEW p \in Nat, NEW q \in Nat, p <= q, q <= Len(s),
         NEW i \in Nat, NEW j \in Nat, i <= j, j <= q - p
  PROVE  SubSeq(SubSeq(s, p + 1, q), i + 1, j) = SubSeq(s, (p + i) + 1, p + j)
<1>0. PICK k \in Nat : k = Len(s)
  OBVIOUS
<1>a. /\ p + i \in Nat /\ p + j \in Nat /\ p + i <= p + j /\ p + j <= k /\ q <= k
      /\ (p + j) - (p + i) = j - i
  BY <1>0
<1>1. PICK a \in Seq(S) : a = SubSeq(s, p + 1, q)
  BY <1>0, <1>a, Cut
<1>2. Len(a) = q - p /\ \A m \in 1..(q - p) : a[m] = s[p + m]
  BY <1>1, Cut
<1>3. PICK b \in Seq(S), c \in Seq(S) :
        b = SubSeq(a, i + 1, j) /\ c = SubSeq(s, (p + i) + 1, p + j)
  <2>1. SubSeq(a, i + 1, j) \in Seq(S)
    BY <1>2, Cut
  <2>2. SubSeq(s, (p + i) + 1, p + j) \in Seq(S)
    BY <1>0, <1>a, Cut
  <2> QED BY <2>1, <2>2
<1>4. Len(b) = j - i /\ \A m \in 1..(j - i) : b[m] = a[i + m]
  <2>1. j <= Len(a)
    BY <1>2
  <2> QED BY ONLY <1>3, <2>1, i \in Nat, j \in Nat, i <= j, Cut
<1>5. Len(c) = (p + j) - (p + i) /\ \A m \in 1..((p + j) - (p + i)) : c[m] = s[(p + i) + m]
  BY <1>0, <1>a, <1>3, Cut
<1>6. Len(b) = Len(c)
  BY <1>a, <1>4, <1>5
<1>7. ASSUME NEW m \in 1..Len(b) PROVE b[m] = c[m]
  <2>1. m \in 1..(j - i) /\ i + m \in 1..(q - p) /\ p + (i + m) = (p + i) + m
    <3>1. m \in Nat /\ 1 <= m /\ m <= j - i
      BY <1>4
    <3> QED BY ONLY <3>1, i \in Nat, j \in Nat, p \in Nat, q \in Nat, j <= q - p
  <2>2. b[m] = a[i + m] /\ a[i + m] = s[p + (i + m)] /\ c[m] = s[(p + i) + m]
    BY <1>a, <1>2, <1>4, <1>5, <2>1
  <2> QED BY <2>1, <2>2
<1>8. b = c
  BY <1>6, <1>7, SeqEqual
<1> QED BY <1>1, <1>3, <1>8

(* A sequence whose elements are the first ones of another is its prefix.  *)
LEMMA PrefixIs ==
  ASSUME NEW S, NEW s \in Seq(S), NEW t \in Seq(S), Len(s) <= Len(t),
         \A i \in 1..Len(s) : s[i] = t[i]
  PROVE  IsPrefix(s, t)
<1>1. PICK k \in Nat, l \in Nat : k = Len(s) /\ l = Len(t) /\ k <= l
  OBVIOUS
<1>2. SubSeq(s, 0 + 1, k) \in Seq(S) /\ SubSeq(t, 0 + 1, k) \in Seq(S)
  BY <1>1, Cut
<1>3. Len(SubSeq(s, 0 + 1, k)) = k /\ Len(SubSeq(t, 0 + 1, k)) = k
  <2>1. k - 0 = k
    BY <1>1
  <2> QED BY <1>1, <2>1, Cut
<1>4. ASSUME NEW i \in 1..k PROVE SubSeq(s, 0 + 1, k)[i] = SubSeq(t, 0 + 1, k)[i]
  <2>1. i \in 1..(k - 0) /\ 0 + i = i
    BY <1>1
  <2>2. SubSeq(s, 0 + 1, k)[i] = s[0 + i]
    BY <1>1, <2>1, Cut
  <2>3. SubSeq(t, 0 + 1, k)[i] = t[0 + i]
    BY <1>1, <2>1, Cut
  <2> QED BY <1>1, <2>1, <2>2, <2>3
<1>5. SubSeq(s, 0 + 1, k) = SubSeq(t, 0 + 1, k)
  <2>1. PICK a \in Seq(S), b \in Seq(S) : a = SubSeq(s, 0 + 1, k) /\ b = SubSeq(t, 0 + 1, k)
    BY <1>2
  <2>2. a = b
    BY <1>3, <1>4, <2>1, SeqEqual
  <2> QED BY <2>1, <2>2
<1>6. 0 + 1 = 1
  OBVIOUS
<1> QED BY <1>1, <1>5, <1>6 DEF IsPrefix
=============================================================================
