-------------------------- MODULE RecordingProofs --------------------------
(***************************************************************************)
(* The invariants of Recording, for every width of timestamps and lengths, *)
(* any number of bytes, any reads, flush threshold, duration and times.    *)
(*                                                                         *)
(* First, induction over numbers and what the recursive definitions of     *)
(* CaptureFile compute: a field that fits is read as it was written.  Then *)
(* the inductive invariant.  It says that there is a log, the header and   *)
(* the chunks that were received, of which the recorder has a part in the  *)
(* file and the rest in its buffer, and which the replay tool reads chunk  *)
(* by chunk.                                                               *)
(***************************************************************************)
EXTENDS Recording, Framing, FiniteSetTheorems, TLAPS

-----------------------------------------------------------------------------
(* Numbers *)

\* A set of numbers that is not empty has a least one: a number n stands for the
\* finite set 1..n, and strict inclusion of finite sets is well-founded.
LEMMA LeastNat ==
  ASSUME NEW S \in SUBSET Nat, S # {}
  PROVE  \E n \in S : \A m \in S : n <= m
<1> DEFINE T == {1..n : n \in S}
<1>1. T \subseteq FiniteSubsetsOf(Nat)
  <2>1. \A n \in S : IsFiniteSet(1..n) /\ 1..n \subseteq Nat
    BY FS_Interval
  <2> QED BY <2>1 DEF FiniteSubsetsOf
<1>2. T # {} OBVIOUS
<1>3. PICK x \in T : \A y \in T : ~(<<y, x>> \in StrictSubsetOrdering(Nat))
  BY <1>1, <1>2, WFMin, FS_StrictSubsetOrderingWellFounded
<1>4. PICK n \in S : x = 1..n OBVIOUS
<1>5. \A m \in S : n <= m
  <2> SUFFICES ASSUME NEW m \in S, ~(n <= m) PROVE FALSE OBVIOUS
  <2>1. 1..m \in T OBVIOUS
  <2>2. 1..m \subseteq 1..n /\ n \in 1..n /\ n \notin 1..m OBVIOUS
  <2>3. 1..m \in SUBSET Nat /\ 1..n \in SUBSET Nat OBVIOUS
  <2>4. <<1..m, 1..n>> \in StrictSubsetOrdering(Nat)
    BY <2>2, <2>3, Zenon DEF StrictSubsetOrdering
  <2> QED BY <1>3, <1>4, <2>1, <2>4
<1> QED BY <1>5

\* Induction, for a set of numbers.
LEMMA Induction ==
  ASSUME NEW S \in SUBSET Nat, 0 \in S, \A n \in S : n + 1 \in S
  PROVE  \A n \in Nat : n \in S
<1> SUFFICES ASSUME Nat \ S # {} PROVE FALSE OBVIOUS
<1>1. PICK n \in Nat \ S : \A m \in Nat \ S : n <= m
  <2>1. Nat \ S \in SUBSET Nat OBVIOUS
  <2> QED BY <2>1, LeastNat
<1>2. n # 0 /\ n - 1 \in Nat OBVIOUS
<1>3. n - 1 \in S BY <1>1, <1>2
<1> QED BY <1>1, <1>2, <1>3

\* A function can be defined by its value at 0 and a step.
LEMMA Recursion ==
  ASSUME NEW a \in Nat, NEW step \in [Nat \X Nat -> Nat]
  PROVE  \E f \in [Nat -> Nat] :
           f[0] = a /\ \A n \in Nat : f[n + 1] = step[<<n, f[n]>>]
<1> DEFINE Up(f, k) == f[0] = a /\ \A n \in 0..(k - 1) : f[n + 1] = step[<<n, f[n]>>]
           S == {k \in Nat : \E f \in [0..k -> Nat] : Up(f, k)}
<1>1. \A k \in Nat : k \in S
  <2>1. 0 \in S
    <3>1. [i \in 0..0 |-> a] \in [0..0 -> Nat] /\ Up([i \in 0..0 |-> a], 0) OBVIOUS
    <3> QED BY <3>1
  <2>2. ASSUME NEW k \in S PROVE k + 1 \in S
    <3>1. PICK f \in [0..k -> Nat] : Up(f, k) OBVIOUS
    <3> DEFINE g == [i \in 0..(k + 1) |-> IF i = k + 1 THEN step[<<k, f[k]>>] ELSE f[i]]
    <3>2. step[<<k, f[k]>>] \in Nat OBVIOUS
    <3>3. g \in [0..(k + 1) -> Nat] BY <3>2
    <3>4. \A i \in 0..k : g[i] = f[i] OBVIOUS
    <3>5. g[k + 1] = step[<<k, f[k]>>] OBVIOUS
    <3> HIDE DEF g
    <3>6. Up(g, k + 1)
      <4>1. g[0] = a BY <3>1, <3>4
      <4>2. ASSUME NEW n \in 0..k PROVE g[n + 1] = step[<<n, g[n]>>]
        <5>1. CASE n = k BY <5>1, <3>4, <3>5
        <5>2. CASE n # k
          <6>1. n \in 0..(k - 1) /\ n + 1 \in 0..k BY <5>2
          <6> QED BY <6>1, <3>1, <3>4
        <5> QED BY <5>1, <5>2
      <4>3. (k + 1) - 1 = k OBVIOUS
      <4> QED BY <4>1, <4>2, <4>3
    <3> HIDE DEF Up
    <3>7. k + 1 \in Nat OBVIOUS
    <3> QED BY <3>3, <3>6, <3>7, Zenon
  <2>3. S \in SUBSET Nat OBVIOUS
  <2> HIDE DEF S
  <2> QED BY <2>1, <2>2, <2>3, Induction
<1>2. \A k \in Nat : \E f \in [0..k -> Nat] : Up(f, k)
  BY <1>1
<1> HIDE DEF S
<1>3. ASSUME NEW j \in Nat, NEW k \in Nat, NEW f \in [0..j -> Nat], NEW g \in [0..k -> Nat],
             Up(f, j), Up(g, k)
      PROVE  \A n \in Nat : n <= j /\ n <= k => f[n] = g[n]
  <2> DEFINE E == {n \in Nat : n <= j /\ n <= k => f[n] = g[n]}
  <2>1. 0 \in E BY <1>3
  <2>2. ASSUME NEW n \in E PROVE n + 1 \in E
    <3> SUFFICES ASSUME n + 1 <= j, n + 1 <= k PROVE f[n + 1] = g[n + 1] OBVIOUS
    <3>1. f[n] = g[n] OBVIOUS
    <3>2. n \in 0..(j - 1) /\ n \in 0..(k - 1) OBVIOUS
    <3> QED BY <1>3, <3>1, <3>2
  <2>3. E \in SUBSET Nat OBVIOUS
  <2>4. \A n \in Nat : n \in E
    <3> HIDE DEF E
    <3> QED BY <2>1, <2>2, <2>3, Induction
  <2> QED BY <2>4
<1> DEFINE at == [k \in Nat |-> CHOOSE f \in [0..k -> Nat] : Up(f, k)]
           h == [k \in Nat |-> at[k][k]]
<1>4. \A k \in Nat : at[k] \in [0..k -> Nat] /\ Up(at[k], k)
  BY <1>2, Zenon
<1> HIDE DEF at
<1>5. h \in [Nat -> Nat] BY <1>4
<1>6. h[0] = a BY <1>4
<1>7. ASSUME NEW n \in Nat PROVE h[n + 1] = step[<<n, h[n]>>]
  <2>1. n \in 0..((n + 1) - 1) /\ n + 1 \in Nat OBVIOUS
  <2>2. at[n + 1][n + 1] = step[<<n, at[n + 1][n]>>] BY <1>4, <2>1
  <2>3. at[n + 1][n] = at[n][n]
    <3> HIDE DEF Up, h
    <3>1. n <= n /\ n <= n + 1 OBVIOUS
    <3> QED BY <1>3, <1>4, <2>1, <3>1, Zenon
  <2> QED BY <2>1, <2>2, <2>3
<1> QED BY <1>5, <1>6, <1>7

\* The weights are what their definition says.
LEMMA PowerDef ==
  /\ Power \in [Nat -> Nat]
  /\ Power[0] = 1
  /\ \A n \in Nat : Power[n + 1] = Base * Power[n]
<1> DEFINE step == [p \in Nat \X Nat |-> Base * p[2]]
           Body(f) == [n \in Nat |-> IF n = 0 THEN 1 ELSE Base * f[n - 1]]
<1>1. step \in [Nat \X Nat -> Nat] BY FormatAssumption
<1>2. PICK f \in [Nat -> Nat] : f[0] = 1 /\ \A n \in Nat : f[n + 1] = step[<<n, f[n]>>]
  <2> HIDE DEF step
  <2>1. 1 \in Nat OBVIOUS
  <2> QED BY <1>1, <2>1, Recursion, Zenon
<1>3. \A n \in Nat : f[n + 1] = Base * f[n] BY <1>2
<1>4. f = Body(f)
  <2>1. \A n \in Nat : f[n] = Body(f)[n]
    <3> TAKE n \in Nat
    <3>1. CASE n = 0 BY <1>2, <3>1
    <3>2. CASE n # 0
      <4>1. n - 1 \in Nat /\ (n - 1) + 1 = n BY <3>2
      <4> QED BY <4>1, <1>3, <3>2
    <3> QED BY <3>1, <3>2
  <2> QED BY <2>1
<1>5. Power = CHOOSE g : g = Body(g)
  BY DEF Power
<1>6. Power = Body(Power)
  <2> HIDE DEF Body
  <2> QED BY <1>4, <1>5, Zenon
<1> HIDE DEF Body
<1>7. \A n \in Nat : Power[n] = Body(Power)[n] BY <1>6
<1> USE DEF Body
<1>8. DOMAIN Power = Nat BY <1>6
<1> DEFINE S == {n \in Nat : Power[n] \in Nat}
<1>9. Power[0] = 1 BY <1>7
<1>10. ASSUME NEW n \in Nat PROVE Power[n + 1] = Base * Power[n]
  <2>1. n + 1 \in Nat /\ n + 1 # 0 /\ (n + 1) - 1 = n OBVIOUS
  <2> QED BY <1>7, <2>1
<1>11. \A n \in Nat : n \in S
  <2>1. 0 \in S BY <1>9
  <2>2. \A n \in S : n + 1 \in S BY <1>10, FormatAssumption
  <2>3. S \in SUBSET Nat OBVIOUS
  <2> HIDE DEF S
  <2> QED BY <2>1, <2>2, <2>3, Induction
<1>12. Power \in [Nat -> Nat]
  <2>1. Power = [n \in Nat |-> Power[n]] BY <1>6
  <2> QED BY <2>1, <1>11
<1> QED BY <1>9, <1>10, <1>12
-----------------------------------------------------------------------------
(* Little-endian fields *)

\* The running sum in from_le_bytes, as a function.
LeSum(bytes) ==
    LET value[i \in 0..Len(bytes)] ==
            IF i = 0 THEN 0 ELSE value[i - 1] + bytes[i] * Power[i - 1]
    IN  value

\* What the running sum computes.
LEMMA LeSumDef ==
    ASSUME NEW s \in Seq(Nat)
    PROVE  /\ FromLe(s) = LeSum(s)[Len(s)]
           /\ LeSum(s)[0] = 0
           /\ \A i \in 0..(Len(s) - 1) :
                  LeSum(s)[i + 1] = LeSum(s)[i] + s[i + 1] * Power[i]
<1> DEFINE n == Len(s)
           Body(f) == [i \in 0..n |-> IF i = 0 THEN 0 ELSE f[i - 1] + s[i] * Power[i - 1]]
           digit(i) == IF i < n THEN s[i + 1] ELSE 0
           step == [p \in Nat \X Nat |-> p[2] + digit(p[1]) * Power[p[1]]]
<1>1. n \in Nat OBVIOUS
<1>2. \A i \in Nat : digit(i) \in Nat OBVIOUS
<1>3. step \in [Nat \X Nat -> Nat]
  <2> HIDE DEF digit
  <2>1. ASSUME NEW p \in Nat \X Nat PROVE p[2] + digit(p[1]) * Power[p[1]] \in Nat
    <3>1. p[1] \in Nat /\ p[2] \in Nat OBVIOUS
    <3>2. digit(p[1]) \in Nat /\ Power[p[1]] \in Nat BY <3>1, <1>2, PowerDef
    <3>3. digit(p[1]) * Power[p[1]] \in Nat BY <3>2
    <3> QED BY <3>1, <3>3
  <2> QED BY <2>1
<1>4. PICK f \in [Nat -> Nat] : f[0] = 0 /\ \A i \in Nat : f[i + 1] = step[<<i, f[i]>>]
  <2> HIDE DEF step
  <2>1. 0 \in Nat OBVIOUS
  <2> QED BY <1>3, <2>1, Recursion, Zenon
<1>5. \A i \in Nat : f[i + 1] = f[i] + digit(i) * Power[i] BY <1>4
<1> DEFINE g == [i \in 0..n |-> f[i]]
<1>6. g = Body(g)
  <2>1. ASSUME NEW i \in 0..n PROVE g[i] = Body(g)[i]
    <3>1. CASE i = 0 BY <1>4, <3>1
    <3>2. CASE i # 0
      <4>1. i - 1 \in Nat /\ (i - 1) + 1 = i /\ i - 1 < n /\ i - 1 \in 0..n
        <5> HIDE DEF n
        <5> QED BY <1>1, <3>2
      <4>2. f[i] = f[i - 1] + digit(i - 1) * Power[i - 1] BY <4>1, <1>5
      <4>3. digit(i - 1) = s[i] BY <4>1
      <4>4. g[i] = f[i] /\ g[i - 1] = f[i - 1] BY <4>1
      <4> HIDE DEF g, digit
      <4> QED BY <4>2, <4>3, <4>4, <3>2
    <3> QED BY <3>1, <3>2
  <2> QED BY <2>1
<1>7. LeSum(s) = CHOOSE h : h = Body(h) BY DEF LeSum
<1>8. LeSum(s) = Body(LeSum(s))
  <2> HIDE DEF Body, g
  <2> QED BY <1>6, <1>7, Zenon
<1>9. FromLe(s) = LeSum(s)[Len(s)] BY DEF FromLe, LeSum
<1>10. \A i \in 0..n : LeSum(s)[i] = Body(LeSum(s))[i]
  <2> HIDE DEF Body
  <2> QED BY <1>8
<1>11. LeSum(s)[0] = 0 BY <1>10, <1>1
<1>12. ASSUME NEW i \in 0..(n - 1)
       PROVE  LeSum(s)[i + 1] = LeSum(s)[i] + s[i + 1] * Power[i]
  <2>1. i + 1 \in 0..n /\ i + 1 # 0 /\ (i + 1) - 1 = i OBVIOUS
  <2> QED BY <1>10, <2>1
<1> QED BY <1>9, <1>11, <1>12

\* from_le_bytes returns a number.
LEMMA FromLeType ==
    ASSUME NEW s \in Seq(Nat)
    PROVE  FromLe(s) \in Nat
<1> DEFINE S == {i \in Nat : i <= Len(s) => LeSum(s)[i] \in Nat}
<1>1. 0 \in S BY LeSumDef
<1>2. ASSUME NEW i \in S PROVE i + 1 \in S
  <2> SUFFICES ASSUME i + 1 <= Len(s) PROVE LeSum(s)[i + 1] \in Nat OBVIOUS
  <2>1. i \in 0..(Len(s) - 1) /\ LeSum(s)[i] \in Nat OBVIOUS
  <2>2. s[i + 1] \in Nat /\ Power[i] \in Nat
    <3>1. i + 1 \in 1..Len(s) /\ i \in Nat OBVIOUS
    <3>2. s[i + 1] \in Nat BY <3>1
    <3> QED BY <3>1, <3>2, PowerDef
  <2>3. s[i + 1] * Power[i] \in Nat BY <2>2
  <2> QED BY <2>1, <2>3, LeSumDef
<1>3. S \in SUBSET Nat OBVIOUS
<1>4. \A i \in Nat : i \in S
  <2> HIDE DEF S
  <2> QED BY <1>1, <1>2, <1>3, Induction
<1>5. LeSum(s)[Len(s)] \in Nat BY <1>4
<1> QED BY <1>5, LeSumDef

\* No weight is 0.
LEMMA PowerPositive ==
    \A i \in Nat : Power[i] \in Nat \ {0}
<1> DEFINE P == {i \in Nat : Power[i] # 0}
<1>1. 0 \in P BY PowerDef
<1>2. \A i \in P : i + 1 \in P BY PowerDef, FormatAssumption
<1>3. P \in SUBSET Nat OBVIOUS
<1>4. \A i \in Nat : i \in P
  <2> HIDE DEF P
  <2> QED BY <1>1, <1>2, <1>3, Induction
<1> QED BY <1>4, PowerDef

\* A remainder is what is left after a multiple is taken away.
LEMMA ModUnique ==
    ASSUME NEW m \in Nat \ {0}, NEW q \in Nat, NEW r \in 0..(m - 1)
    PROVE  (m * q + r) % m = r /\ (m * q + r) \div m = q
<1> DEFINE a == m * q + r
           q2 == a \div m
           r2 == a % m
<1>1. a \in Nat /\ q2 \in Int /\ r2 \in 0..(m - 1) /\ a = m * q2 + r2 OBVIOUS
<1> HIDE DEF q2, r2
<1>2. m * (q - q2) = r2 - r BY <1>1
<1>3. q2 = q
  <2>1. CASE q > q2
    <3>1. m * (q - q2) >= m BY <2>1, <1>1
    <3> QED BY <3>1, <1>1, <1>2
  <2>2. CASE q < q2
    <3>1. m * (q - q2) <= -m BY <2>2, <1>1
    <3> QED BY <3>1, <1>1, <1>2
  <2> QED BY <2>1, <2>2, <1>1
<1>4. r2 = r BY <1>1, <1>3
<1> QED BY <1>3, <1>4 DEF q2, r2

\* One more digit of a remainder.
LEMMA ModStep ==
    ASSUME NEW v \in Nat, NEW p \in Nat \ {0}
    PROVE  v % (Base * p) = (v % p) + ((v \div p) % Base) * p
<1> DEFINE q == v \div p
           r == v % p
           q2 == q \div Base
           d == q % Base
<1>1. q \in Nat /\ r \in 0..(p - 1) /\ v = p * q + r OBVIOUS
<1>2. q2 \in Nat /\ d \in 0..(Base - 1) /\ q = Base * q2 + d
  <2> HIDE DEF q
  <2> QED BY <1>1, FormatAssumption
<1> HIDE DEF q, r, q2, d
<1>3. v = (Base * p) * q2 + (r + d * p) BY <1>1, <1>2, FormatAssumption
<1>4. r + d * p \in 0..((Base * p) - 1)
  <2>1. d * p <= (Base - 1) * p BY <1>2, FormatAssumption
  <2>2. (Base - 1) * p = Base * p - p BY FormatAssumption
  <2>3. d * p \in Nat /\ Base * p \in Nat BY <1>2, FormatAssumption
  <2> QED BY <2>1, <2>2, <2>3, <1>1
<1>5. Base * p \in Nat \ {0} BY FormatAssumption
<1>6. v % (Base * p) = r + d * p
  <2>1. ASSUME NEW m \in Nat \ {0}, NEW rr \in 0..(m - 1), v = m * q2 + rr
        PROVE  v % m = rr
    BY <2>1, <1>2, ModUnique
  <2> QED BY <2>1, <1>3, <1>4, <1>5
<1> QED BY <1>6 DEF q, r, d

\* What to_le_bytes writes, from_le_bytes reads back, if it fits: for every base and
\* every width.
THEOREM RoundTrip ==
    ASSUME NEW v \in Nat, NEW w \in Nat, v < Power[w]
    PROVE  ToLe(v, w) \in Seq(Nat) /\ Len(ToLe(v, w)) = w /\ FromLe(ToLe(v, w)) = v
<1> DEFINE s == ToLe(v, w)
           S == {i \in Nat : i <= w => LeSum(s)[i] = v % Power[i]}
<1>0. \A i \in Nat : Power[i] \in Nat \ {0} BY PowerPositive
<1>1. s \in Seq(Nat) /\ Len(s) = w /\ \A i \in 1..w : s[i] = (v \div Power[i - 1]) % Base
  <2>1. ASSUME NEW i \in 1..w PROVE (v \div Power[i - 1]) % Base \in Nat
    <3>1. Power[i - 1] \in Nat \ {0} BY <1>0
    <3>2. v \div Power[i - 1] \in Nat BY <3>1
    <3> QED BY <3>2, FormatAssumption
  <2>2. s \in [1..w -> Nat] BY <2>1 DEF ToLe
  <2>3. s \in Seq(Nat) /\ Len(s) = w BY <2>2
  <2> QED BY <2>3 DEF ToLe
<1> HIDE DEF s
<1>2. 0 \in S
  <2>1. v % 1 = 0 OBVIOUS
  <2> QED BY <2>1, <1>1, LeSumDef, PowerDef
<1>3. ASSUME NEW i \in S PROVE i + 1 \in S
  <2> SUFFICES ASSUME i + 1 <= w PROVE LeSum(s)[i + 1] = v % Power[i + 1] OBVIOUS
  <2>1. i \in 0..(Len(s) - 1) /\ LeSum(s)[i] = v % Power[i] BY <1>1
  <2>2. LeSum(s)[i + 1] = LeSum(s)[i] + s[i + 1] * Power[i] BY <2>1, <1>1, LeSumDef
  <2>3. s[i + 1] = (v \div Power[i]) % Base
    <3>1. i + 1 \in 1..w /\ (i + 1) - 1 = i OBVIOUS
    <3> QED BY <3>1, <1>1
  <2>4. Power[i + 1] = Base * Power[i] BY PowerDef
  <2>5. v % (Base * Power[i]) = (v % Power[i]) + ((v \div Power[i]) % Base) * Power[i]
    BY ModStep, <1>0
  <2> QED BY <2>1, <2>2, <2>3, <2>4, <2>5
<1>4. S \in SUBSET Nat OBVIOUS
<1>5. w \in S
  <2> HIDE DEF S
  <2> QED BY <1>2, <1>3, <1>4, Induction
<1>6. v % Power[w] = v BY <1>0
<1>7. FromLe(s) = v BY <1>1, <1>5, <1>6, LeSumDef
<1> QED BY <1>1, <1>7 DEF s

-----------------------------------------------------------------------------
(* The inductive invariant *)

\* The sequence s has the bytes c after position p.
At(s, p, c) == p + Len(c) <= Len(s) /\ \A i \in 1..Len(c) : s[p + i] = c[i]

\* The stream's bytes e + 1 to f, and the chunk with them, received at time t.
Span(e, f) == [i \in 1..(f - e) |-> e + i]
Piece(e, f, t) == Chunk(t, Span(e, f))

\* In log, the chunk after the first e bytes of the stream is at place[e], was
\* received at time[e], and is followed by the one after the first f bytes.
Follows(log, place, time, e, f) ==
    /\ e < f /\ f - e <= MaxRead
    /\ \A g \in ends : g <= e \/ f <= g
    /\ At(log, place[e], Piece(e, f, time[e]))
    /\ place[f] = place[e] + TsLen + LenLen + (f - e)
    /\ f = got \/ time[e] <= time[f]

\* A log is a header and the chunks that were received, up to the last one.
Layout(log, place, time) ==
    /\ At(log, 0, Header)
    /\ place[0] = Len(Header) /\ place[got] = Len(log)
    /\ \A d, e \in ends : d <= e => place[d] <= place[e]
    /\ \A e \in ends \ {got} : \E f \in ends : Follows(log, place, time, e, f)

\* The header is not yet written.
Starting == capture \in {"connect", "header"}

\* The file has the log up to the last flush and the buffer the rest of it; a
\* recorder that has ended has left a file with a part of the log, which misses
\* nothing unless it was killed.
Written(log, place) ==
    /\ Starting => log = Header /\ file = << >> /\ buf = << >> /\ safe = 0
    /\ (~Starting /\ ~CaptureEnded) => log = file \o buf /\ place[safe] = Len(file)
    /\ CaptureEnded =>
          /\ At(log, 0, file)
          /\ Len(file) >= Len(Header) =>
                place[safe] <= Len(file) /\ (capture = "killed" \/ Len(file) = Len(log))

\* No chunk is from the future.
Dated(time) == ~CaptureEnded => \A e \in ends \ {got} : time[e] <= elapsed

\* The chunk in hand is the one after what was sent, and so is the position in
\* the file before it is read.
Aimed(place) ==
    /\ replay \in {"accept", "magic", "chunk"} => pos = place[Len(sent)]
    /\ replay \in {"pace", "write"} =>
          /\ chunk = place[Len(sent)] /\ Len(sent) # got /\ pos = NextChunk(chunk)

\* The sleeps of a pass add up to the age of the last chunk slept for.
Slept(time) ==
    /\ paced /\ replay \in {"accept", "magic", "chunk", "pace"} =>
          \/ prev_timestamp = NoTimestamp /\ slept = 0 /\ sent = << >>
          \/ /\ prev_timestamp \in Nat /\ slept = prev_timestamp - time[0]
             /\ Len(sent) = got \/ prev_timestamp <= time[Len(sent)]
    /\ paced /\ replay = "write" =>
          prev_timestamp = time[Len(sent)] /\ slept = prev_timestamp - time[0]

\* What holds of the log, wherever its chunks are.
LogOf(log, place, time) ==
    /\ Layout(log, place, time) /\ Written(log, place) /\ Dated(time)
    /\ Aimed(place) /\ Slept(time)

\* Unless a write failed, there is such a log.
LogInv ==
    diskError \/
        \E log \in Seq(Nat), place \in [ends -> Nat], time \in [ends -> Instants \cup {0}] :
            LogOf(log, place, time)

\* The ends of chunks.
EndsInv == {0, safe, got} \subseteq ends

\* The replay tool starts when the recorder has ended.
StartInv ==
    /\ ~CaptureEnded => replay = "open"
    /\ replay = "open" => pos = 0 /\ chunk = 0 /\ cause = "none"
    /\ replay \in {"open", "accept", "magic"} =>
          sent = << >> /\ slept = 0 /\ prev_timestamp = NoTimestamp
    /\ replay \notin {"open", "exit1"} => HeaderOk

\* A chunk in hand is a whole one.
InHand == replay \in {"pace", "write"} => WholeChunk(chunk)

\* Why the loop was left.
CauseInv ==
    /\ cause = "eof" => ~loop_mode
    /\ cause = "write" => client \in {"gone", "reset"}
    /\ cause = "torn" => capture = "killed" \/ diskError

\* The inductive invariant.
RecordingInv ==
    TypeOK /\ EndsInv /\ StartInv /\ InHand /\ CauseInv /\ SentAsRecorded /\ LogInv

\* The types of the recorder's and of the replay tool's variables.
CaptureType ==
    /\ file \in Seq(Nat) /\ buf \in Seq(Nat)
    /\ capture \in {"connect", "header", "check", "read", "flush", "final", "done",
                    "exit1", "killed"}
    /\ elapsed \in Instants \cup {0}
    /\ got \in 0..MaxBytes /\ safe \in 0..got
    /\ ends \subseteq 0..got

ReplayType ==
    /\ replay \in {"open", "accept", "magic", "chunk", "pace", "write", "store",
                   "join", "done", "exit1"}
    /\ pos \in 0..Len(file) /\ chunk \in 0..Len(file)
    /\ prev_timestamp \in Nat \cup {NoTimestamp}
    /\ cmd \in {"none", "read", "done"}
    /\ client \in {"none", "silent", "chatty", "half", "gone", "reset"}
    /\ sent \in Seq(Nat)
    /\ slept \in Nat
    /\ cause \in {"none", "eof", "torn", "seek", "write"}

FlagType ==
    /\ timed \in BOOLEAN /\ should_exit \in BOOLEAN /\ diskError \in BOOLEAN
    /\ loop_mode \in BOOLEAN /\ paced \in BOOLEAN /\ client_quit \in BOOLEAN

\* They are the parts of the type invariant.
LEMMA TypeParts == TypeOK <=> CaptureType /\ ReplayType /\ FlagType
BY Zenon DEF TypeOK, CaptureType, ReplayType, FlagType

-----------------------------------------------------------------------------
(* The parts of a file *)

\* Bytes after bytes.
LEMMA JoinBytes ==
    ASSUME NEW s \in Seq(Nat), NEW t \in Seq(Nat)
    PROVE  /\ s \o t \in Seq(Nat) /\ Len(s \o t) = Len(s) + Len(t)
           /\ \A i \in 1..Len(s) : (s \o t)[i] = s[i]
           /\ \A i \in 1..Len(t) : (s \o t)[Len(s) + i] = t[i]
OBVIOUS

\* Times and lengths fit their fields.
LEMMA Fits ==
    /\ \A t \in Instants \cup {0} : t \in Nat /\ t < Power[TsLen]
    /\ \A n \in Nat : n <= MaxRead => n < Power[LenLen]
<1>1. Power[TsLen] \in Nat \ {0} /\ Power[LenLen] \in Nat \ {0}
  BY PowerPositive, FormatAssumption
<1> QED BY <1>1, FieldAssumption, CaptureAssumption

\* The header of a file.
LEMMA HeaderBytes ==
    /\ Header \in Seq(Nat) /\ Len(Header) = 4
    /\ Header[1] = CAPTURE_MAGIC /\ Header[3] = 1
<1>1. MagicPayload \in Seq(Nat) /\ Len(MagicPayload) = 1
  BY FormatAssumption DEF MagicPayload
<1>2. <<CAPTURE_MAGIC, CAPTURE_VERSION, 1>> \in Seq(Nat)
  BY DEF CAPTURE_MAGIC, CAPTURE_VERSION
<1> DEFINE A == <<CAPTURE_MAGIC, CAPTURE_VERSION, 1>>
<1>3. Len(A) = 3 /\ A[1] = CAPTURE_MAGIC /\ A[3] = 1 OBVIOUS
<1>4. Header = A \o MagicPayload BY <1>1 DEF Header
<1> HIDE DEF A
<1>5. A \in Seq(Nat) BY <1>2 DEF A
<1>6. /\ A \o MagicPayload \in Seq(Nat)
      /\ Len(A \o MagicPayload) = Len(A) + Len(MagicPayload)
      /\ \A i \in 1..Len(A) : (A \o MagicPayload)[i] = A[i]
  BY <1>1, <1>5, JoinBytes
<1>7. Len(A \o MagicPayload) = 4 BY <1>1, <1>3, <1>6
<1>8. (A \o MagicPayload)[1] = A[1] /\ (A \o MagicPayload)[3] = A[3]
  <2>1. 1 \in 1..Len(A) /\ 3 \in 1..Len(A) BY <1>3
  <2> QED BY <2>1, <1>6
<1>9. A[1] = CAPTURE_MAGIC /\ A[3] = 1 BY <1>3 DEF A
<1> QED BY <1>4, <1>6, <1>7, <1>8, <1>9, Zenon

\* The parts of a chunk.
LEMMA PieceBytes ==
    ASSUME NEW e \in Nat, NEW f \in Nat, e <= f, f - e <= MaxRead,
           NEW t \in Instants \cup {0}
    PROVE  /\ Piece(e, f, t) \in Seq(Nat)
           /\ Len(Piece(e, f, t)) = TsLen + LenLen + (f - e)
           /\ \A i \in 1..TsLen : Piece(e, f, t)[i] = ToLe(t, TsLen)[i]
           /\ \A i \in 1..LenLen : Piece(e, f, t)[TsLen + i] = ToLe(f - e, LenLen)[i]
           /\ \A i \in 1..(f - e) : Piece(e, f, t)[TsLen + LenLen + i] = e + i
<1> DEFINE D == [i \in 1..(f - e) |-> e + i]
           A == ToLe(t, TsLen)
           B == ToLe(f - e, LenLen)
<1>1. f - e \in Nat /\ TsLen \in Nat /\ LenLen \in Nat BY FormatAssumption
<1>2. D \in Seq(Nat) /\ Len(D) = f - e /\ \A i \in 1..(f - e) : D[i] = e + i
  <2>1. D \in [1..(f - e) -> Nat] OBVIOUS
  <2> QED BY <2>1, <1>1
<1>3. A \in Seq(Nat) /\ Len(A) = TsLen
  BY Fits, RoundTrip, <1>1
<1>4. B \in Seq(Nat) /\ Len(B) = LenLen
  BY Fits, RoundTrip, <1>1
<1>5. Piece(e, f, t) = A \o B \o D
  BY <1>2 DEF Piece, Chunk, Span
<1> HIDE DEF A, B, D
<1>6. A \o B \in Seq(Nat) /\ Len(A \o B) = TsLen + LenLen
  BY <1>3, <1>4, <1>1
<1>7. \A i \in 1..TsLen : (A \o B)[i] = A[i]
  BY <1>3, <1>4, <1>1
<1>8. \A i \in 1..LenLen : (A \o B)[TsLen + i] = B[i]
  BY <1>3, <1>4, <1>1
<1> DEFINE H == A \o B
<1> HIDE DEF H
<1>9. H \in Seq(Nat) /\ Len(H) = TsLen + LenLen BY <1>6 DEF H
<1>10. /\ H \o D \in Seq(Nat) /\ Len(H \o D) = Len(H) + Len(D)
       /\ \A i \in 1..Len(H) : (H \o D)[i] = H[i]
       /\ \A i \in 1..Len(D) : (H \o D)[Len(H) + i] = D[i]
  BY <1>9, <1>2, JoinBytes
<1>11. \A i \in 1..(TsLen + LenLen) : (H \o D)[i] = H[i]
  BY <1>9, <1>10
<1>12. \A i \in 1..(f - e) : (H \o D)[TsLen + LenLen + i] = D[i]
  BY <1>9, <1>2, <1>10
<1>13. \A i \in 1..TsLen : (H \o D)[i] = A[i]
  <2>1. \A i \in 1..TsLen : i \in 1..(TsLen + LenLen) BY <1>1
  <2> QED BY <2>1, <1>11, <1>7 DEF H
<1>14. \A i \in 1..LenLen : (H \o D)[TsLen + i] = B[i]
  <2>1. \A i \in 1..LenLen : TsLen + i \in 1..(TsLen + LenLen) BY <1>1
  <2> QED BY <2>1, <1>11, <1>8 DEF H
<1>15. Len(H \o D) = TsLen + LenLen + (f - e) BY <1>2, <1>9, <1>10
<1>16. Piece(e, f, t) = H \o D BY <1>5 DEF H
<1>17. \A i \in 1..(f - e) : (H \o D)[TsLen + LenLen + i] = e + i BY <1>2, <1>12
<1> HIDE DEF H
<1> QED BY <1>10, <1>13, <1>14, <1>15, <1>16, <1>17 DEF A, B

\* What read_exact fills.
LEMMA ReadBytes ==
    ASSUME file \in Seq(Nat), NEW p \in Nat, NEW n \in Nat, Has(p, n)
    PROVE  /\ Bytes(p, n) \in Seq(Nat) /\ Len(Bytes(p, n)) = n
           /\ \A i \in 1..n : Bytes(p, n)[i] = file[p + i]
BY DEF Has, Bytes

\* Sequences with the same elements are the same.
LEMMA SameBytes ==
    ASSUME NEW s \in Seq(Nat), NEW t \in Seq(Nat), Len(s) = Len(t),
           \A i \in 1..Len(s) : s[i] = t[i]
    PROVE  s = t
OBVIOUS

\* The numbers in a whole chunk are numbers.
LEMMA ChunkTypes ==
    ASSUME file \in Seq(Nat), NEW p \in Nat
    PROVE  /\ Has(p, TsLen) => Timestamp(p) \in Nat
           /\ Has(p, TsLen + LenLen) => DataLen(p) \in Nat
           /\ WholeChunk(p) =>
                 /\ DataLen(p) \in Nat /\ Timestamp(p) \in Nat /\ Data(p) \in Seq(Nat)
                 /\ Len(Data(p)) = DataLen(p)
                 /\ NextChunk(p) \in Nat /\ NextChunk(p) <= Len(file)
<1>1. TsLen \in Nat /\ LenLen \in Nat /\ Len(file) \in Nat BY FormatAssumption
<1>2. Has(p, TsLen) => Timestamp(p) \in Nat
  BY <1>1, ReadBytes, FromLeType DEF Timestamp
<1>3. ASSUME Has(p, TsLen + LenLen) PROVE DataLen(p) \in Nat
  <2>1. Has(p + TsLen, LenLen) /\ p + TsLen \in Nat BY <1>1, <1>3 DEF Has
  <2> QED BY <1>1, <2>1, ReadBytes, FromLeType DEF DataLen
<1>4. ASSUME WholeChunk(p)
      PROVE  /\ DataLen(p) \in Nat /\ Timestamp(p) \in Nat /\ Data(p) \in Seq(Nat)
             /\ Len(Data(p)) = DataLen(p)
             /\ NextChunk(p) \in Nat /\ NextChunk(p) <= Len(file)
  <2>1. Has(p, TsLen + LenLen) /\ Has(DataStart(p), DataLen(p)) BY <1>4 DEF WholeChunk
  <2>2. DataLen(p) \in Nat BY <1>3, <2>1
  <2>3. Has(p, TsLen) BY <1>1, <2>1 DEF Has
  <2>4. DataStart(p) \in Nat BY <1>1 DEF DataStart
  <2>5. Data(p) \in Seq(Nat) /\ Len(Data(p)) = DataLen(p)
    BY <2>1, <2>2, <2>4, ReadBytes DEF Data
  <2>6. NextChunk(p) \in Nat /\ NextChunk(p) <= Len(file)
    BY <2>1, <2>2, <2>4 DEF NextChunk, Has
  <2> QED BY <1>2, <2>2, <2>3, <2>5, <2>6
<1> QED BY <1>2, <1>3, <1>4

\* The chunk that follows the first e bytes is read as it was written, as far as
\* the file has it.
LEMMA ReadPiece ==
    ASSUME file \in Seq(Nat), NEW log \in Seq(Nat), At(log, 0, file),
           NEW p \in Nat, NEW q \in Nat, NEW e \in Nat, NEW f \in Nat,
           e < f, f - e <= MaxRead, NEW t \in Instants \cup {0},
           At(log, p, Piece(e, f, t)), q = p + TsLen + LenLen + (f - e)
    PROVE  /\ Has(p, TsLen) => Timestamp(p) = t
           /\ WholeChunk(p) <=> q <= Len(file)
           /\ WholeChunk(p) =>
                 /\ NextChunk(p) = q /\ DataLen(p) = f - e
                 /\ Data(p) = Span(e, f)
<1> DEFINE C == Piece(e, f, t)
<1>1. /\ TsLen \in Nat /\ LenLen \in Nat /\ Len(file) \in Nat
      /\ f - e \in Nat /\ e <= f
  BY FormatAssumption
<1>2. /\ C \in Seq(Nat) /\ Len(C) = TsLen + LenLen + (f - e)
      /\ \A i \in 1..TsLen : C[i] = ToLe(t, TsLen)[i]
      /\ \A i \in 1..LenLen : C[TsLen + i] = ToLe(f - e, LenLen)[i]
      /\ \A i \in 1..(f - e) : C[TsLen + LenLen + i] = e + i
  <2>1. e \in Nat /\ f \in Nat /\ e <= f /\ f - e <= MaxRead BY <1>1
  <2> QED BY <2>1, PieceBytes, Zenon
<1> HIDE DEF C
<1>3. \A i \in 1..(TsLen + LenLen + (f - e)) : log[p + i] = C[i]
  BY <1>2 DEF At, C
<1>4. \A i \in 1..Len(file) : log[i] = file[i]
  BY <1>1 DEF At
<1>5. ASSUME NEW i \in 1..(TsLen + LenLen + (f - e)), p + i <= Len(file)
      PROVE  file[p + i] = C[i]
  BY <1>1, <1>3, <1>4, <1>5
<1>6. ASSUME Has(p, TsLen) PROVE Timestamp(p) = t
  <2>1. ToLe(t, TsLen) \in Seq(Nat) /\ Len(ToLe(t, TsLen)) = TsLen
        /\ FromLe(ToLe(t, TsLen)) = t
    BY Fits, RoundTrip, <1>1
  <2>2. /\ Bytes(p, TsLen) \in Seq(Nat) /\ Len(Bytes(p, TsLen)) = TsLen
        /\ \A i \in 1..TsLen : Bytes(p, TsLen)[i] = file[p + i]
    BY <1>1, <1>6, ReadBytes
  <2>3. ASSUME NEW i \in 1..TsLen PROVE Bytes(p, TsLen)[i] = ToLe(t, TsLen)[i]
    <3>1. i \in 1..(TsLen + LenLen + (f - e)) /\ p + i <= Len(file)
      BY <1>1, <1>6 DEF Has
    <3> QED BY <3>1, <2>2, <1>5, <1>2
  <2>4. Bytes(p, TsLen) = ToLe(t, TsLen) BY <2>1, <2>2, <2>3, SameBytes
  <2> QED BY <2>1, <2>4 DEF Timestamp
<1>7. ASSUME Has(p, TsLen + LenLen) PROVE DataLen(p) = f - e
  <2> DEFINE L == ToLe(f - e, LenLen)
             R == Bytes(p + TsLen, LenLen)
  <2>1. L \in Seq(Nat) /\ Len(L) = LenLen /\ FromLe(L) = f - e
    BY Fits, RoundTrip, <1>1
  <2>2. p + TsLen \in Nat /\ Has(p + TsLen, LenLen) BY <1>1, <1>7 DEF Has
  <2>3. R \in Seq(Nat) /\ Len(R) = LenLen /\ \A i \in 1..LenLen : R[i] = file[p + TsLen + i]
    BY <1>1, <2>2, ReadBytes
  <2> HIDE DEF L, R
  <2>4. ASSUME NEW i \in 1..LenLen PROVE R[i] = L[i]
    <3>1. /\ TsLen + i \in 1..(TsLen + LenLen + (f - e)) /\ p + (TsLen + i) <= Len(file)
          /\ p + TsLen + i = p + (TsLen + i)
      BY <1>1, <1>7 DEF Has
    <3>2. file[p + (TsLen + i)] = C[TsLen + i] BY <3>1, <1>5
    <3>3. C[TsLen + i] = L[i] BY <1>2 DEF L
    <3> QED BY <3>1, <3>2, <3>3, <2>3
  <2>5. R = L BY <2>1, <2>3, <2>4, SameBytes
  <2> QED BY <2>1, <2>5 DEF DataLen, R
<1>8. WholeChunk(p) <=> q <= Len(file)
  <2>1. CASE Has(p, TsLen + LenLen)
    <3>1. DataLen(p) = f - e BY <1>7, <2>1
    <3> QED BY <1>1, <2>1, <3>1 DEF WholeChunk, Has, DataStart
  <2>2. CASE ~Has(p, TsLen + LenLen)
    BY <1>1, <2>2 DEF WholeChunk, Has
  <2> QED BY <2>1, <2>2
<1>9. ASSUME WholeChunk(p)
      PROVE  /\ NextChunk(p) = q /\ DataLen(p) = f - e
             /\ Data(p) = Span(e, f)
  <2>1. Has(p, TsLen + LenLen) BY <1>9 DEF WholeChunk
  <2>2. DataLen(p) = f - e BY <1>7, <2>1
  <2>3. NextChunk(p) = q BY <1>1, <2>2 DEF NextChunk, DataStart
  <2> DEFINE r == p + TsLen + LenLen
             D == [i \in 1..(f - e) |-> e + i]
  <2>4. Data(p) = Bytes(r, f - e) BY <2>2 DEF Data, DataStart
  <2>5. r \in Nat /\ Has(r, f - e) BY <1>1, <1>8, <1>9 DEF Has
  <2>6. /\ Bytes(r, f - e) \in Seq(Nat) /\ Len(Bytes(r, f - e)) = f - e
        /\ \A i \in 1..(f - e) : Bytes(r, f - e)[i] = file[r + i]
    <3> HIDE DEF r
    <3> QED BY <1>1, <2>5, ReadBytes
  <2>7. ASSUME NEW i \in 1..(f - e) PROVE Bytes(r, f - e)[i] = D[i]
    <3>1. /\ TsLen + LenLen + i \in 1..(TsLen + LenLen + (f - e))
          /\ p + (TsLen + LenLen + i) <= Len(file) /\ r + i = p + (TsLen + LenLen + i)
      BY <1>1, <1>8, <1>9
    <3>2. file[p + (TsLen + LenLen + i)] = C[TsLen + LenLen + i] BY <3>1, <1>5
    <3>3. C[TsLen + LenLen + i] = e + i BY <1>2
    <3>4. D[i] = e + i OBVIOUS
    <3> HIDE DEF r, D
    <3> QED BY <3>1, <3>2, <3>3, <3>4, <2>6
  <2>8. D \in Seq(Nat) /\ Len(D) = f - e
    <3>1. D \in [1..(f - e) -> Nat] OBVIOUS
    <3> QED BY <3>1, <1>1
  <2>9. Bytes(r, f - e) = D
    <3> HIDE DEF r, D
    <3> QED BY <2>6, <2>7, <2>8, SameBytes
  <2> QED BY <2>2, <2>3, <2>4, <2>9 DEF Span
<1> QED BY <1>6, <1>8, <1>9

-----------------------------------------------------------------------------
(* The recorder *)

\* At first there is nothing.
LEMMA InitRecording == Init => RecordingInv
<1> SUFFICES ASSUME Init PROVE RecordingInv OBVIOUS
<1> USE DEF Init, CaptureInit, ReplayInit
<1>1. TypeOK
  <2>1. << >> \in Seq(Nat) /\ Len(<< >>) = 0 OBVIOUS
  <2>2. CaptureType BY <2>1, CaptureAssumption DEF CaptureType
  <2>3. ReplayType BY <2>1 DEF ReplayType
  <2>4. FlagType BY Zenon DEF FlagType
  <2> QED BY <2>2, <2>3, <2>4, TypeParts
<1>2. EndsInv /\ StartInv /\ InHand /\ CauseInv
  BY DEF EndsInv, StartInv, InHand, CauseInv, CaptureEnded
<1>3. SentAsRecorded BY DEF SentAsRecorded, Recorded
<1>4. LogInv
  <2> DEFINE place == [e \in {0} |-> 4]
             time == [e \in {0} |-> 0]
  <2>1. place \in [ends -> Nat] /\ time \in [ends -> Instants \cup {0}] OBVIOUS
  <2>2. place[0] = 4 /\ ends = {0} /\ got = 0 OBVIOUS
  <2> HIDE DEF place, time
  <2>3. At(Header, 0, Header) BY HeaderBytes DEF At
  <2>4. Layout(Header, place, time) BY <2>2, <2>3, HeaderBytes DEF Layout
  <2>5. Written(Header, place) BY <2>2, HeaderBytes DEF Written, Starting, CaptureEnded
  <2>6. Dated(time) /\ Aimed(place) /\ Slept(time)
    BY <2>2 DEF Dated, Aimed, Slept
  <2> QED BY <2>1, <2>4, <2>5, <2>6, HeaderBytes, Zenon DEF LogInv, LogOf
<1> QED BY <1>1, <1>2, <1>3, <1>4 DEF RecordingInv

\* The recorder takes steps only until it has ended.
LEMMA RecorderRuns == CaptureNext => ~CaptureEnded
BY DEF CaptureNext, CaptureStep, ServerStep, CaptureFails, CaptureConnects, WriteHeader,
       WriteHeaderFails, CaptureCheck, CaptureReadTimeout, Flush, FlushFails, FinalFlush,
       FinalFlushFails, CaptureReadEnds, CaptureRead, CtrlC, Tick, Kill, Goes, CaptureEnded

\* What a step of the recorder does not touch.
LEMMA CaptureLeaves ==
    ASSUME RecordingInv, CaptureNext, UNCHANGED replayVars, 0 \in ends',
           diskError => diskError'
    PROVE  /\ replay' = "open"
           /\ StartInv' /\ InHand' /\ CauseInv' /\ SentAsRecorded'
           /\ \A place, time : Aimed(place)' /\ Slept(time)'
<1>1. replay = "open" BY RecorderRuns DEF RecordingInv, StartInv
<1>2. /\ replay' = "open" /\ sent' = << >> /\ slept' = 0 /\ prev_timestamp' = NoTimestamp
      /\ pos' = 0 /\ chunk' = 0 /\ cause' = "none"
  BY <1>1 DEF RecordingInv, StartInv, replayVars
<1>3. StartInv' BY <1>2 DEF StartInv
<1>4. CauseInv' /\ InHand' BY <1>2 DEF CauseInv, InHand
<1>5. SentAsRecorded'
  <2>1. Len(sent') = 0 /\ Recorded(0) = << >> BY <1>2 DEF Recorded
  <2> QED BY <2>1, <1>2 DEF SentAsRecorded, Recorded
<1>6. \A place, time : Aimed(place)' /\ Slept(time)'
  BY <1>2 DEF Aimed, Slept
<1> QED BY <1>2, <1>3, <1>4, <1>5, <1>6

\* Until something is received, a log stays what it is.
LEMMA LayoutStays ==
    ASSUME NEW log, NEW place, NEW time, Layout(log, place, time), UNCHANGED <<ends, got>>
    PROVE  Layout(log, place, time)'
BY DEF Layout, Follows

\* A part of what is written is a part of the log.
LEMMA PartWritten ==
    ASSUME NEW f \in Seq(Nat), NEW b \in Seq(Nat), NEW n \in 0..Len(b)
    PROVE  /\ f \o SubSeq(b, 1, n) \in Seq(Nat)
           /\ Len(f \o SubSeq(b, 1, n)) = Len(f) + n
           /\ At(f \o b, 0, f \o SubSeq(b, 1, n))
<1> DEFINE c == SubSeq(b, 1, n)
<1>1. c \in Seq(Nat) /\ Len(c) = n /\ \A i \in 1..n : c[i] = b[i] OBVIOUS
<1>0. Len(f) \in Nat /\ Len(b) \in Nat /\ n \in Nat /\ n <= Len(b) OBVIOUS
<1> HIDE DEF c
<1>2. /\ f \o c \in Seq(Nat) /\ Len(f \o c) = Len(f) + Len(c)
      /\ \A i \in 1..Len(f) : (f \o c)[i] = f[i]
      /\ \A i \in 1..Len(c) : (f \o c)[Len(f) + i] = c[i]
  BY <1>1, JoinBytes
<1>3. /\ f \o b \in Seq(Nat) /\ Len(f \o b) = Len(f) + Len(b)
      /\ \A i \in 1..Len(f) : (f \o b)[i] = f[i]
      /\ \A i \in 1..Len(b) : (f \o b)[Len(f) + i] = b[i]
  BY JoinBytes
<1>4. ASSUME NEW i \in 1..Len(f \o c) PROVE (f \o b)[0 + i] = (f \o c)[i]
  <2>1. CASE i <= Len(f)
    <3>1. i \in 1..Len(f) /\ 0 + i = i BY <2>1, <1>0
    <3> QED BY <3>1, <1>2, <1>3
  <2>2. CASE i > Len(f)
    <3> DEFINE j == i - Len(f)
    <3>1. i \in Int /\ j \in 1..n /\ j \in 1..Len(b) /\ j \in 1..Len(c) /\ Len(f) + j = i /\ 0 + i = i
      BY <2>2, <1>0, <1>1, <1>2
    <3> HIDE DEF j
    <3>2. (f \o c)[Len(f) + j] = c[j] /\ (f \o b)[Len(f) + j] = b[j] /\ c[j] = b[j]
      BY <3>1, <1>1, <1>2, <1>3
    <3> QED BY <3>1, <3>2
  <2>3. i \in Int /\ Len(f) \in Int BY <1>0, <1>1, <1>2
  <2>4. i <= Len(f) \/ i > Len(f) BY <2>3
  <2> QED BY <2>1, <2>2, <2>4, Zenon
<1>5. 0 + Len(f \o c) <= Len(f \o b) BY <1>0, <1>1, <1>2, <1>3
<1>6. At(f \o b, 0, f \o c) BY <1>4, <1>5 DEF At
<1> QED BY <1>1, <1>2, <1>6 DEF c

\* What is left to show of a step of the recorder.
LEMMA CaptureRest ==
    ASSUME RecordingInv, CaptureNext, UNCHANGED replayVars,
           CaptureType', EndsInv', LogInv', diskError => diskError',
           timed' \in BOOLEAN, should_exit' \in BOOLEAN, diskError' \in BOOLEAN
    PROVE  RecordingInv'
<1>1. 0 \in ends' BY DEF EndsInv
<1>2. StartInv' /\ InHand' /\ CauseInv' /\ SentAsRecorded' /\ replay' = "open"
  BY <1>1, CaptureLeaves
<1>3. FlagType'
  <2>1. FlagType BY TypeParts DEF RecordingInv
  <2> QED BY <2>1, Zenon DEF FlagType, replayVars
<1>4. ReplayType'
  <2>1. ReplayType BY TypeParts DEF RecordingInv
  <2>2. pos' = 0 /\ chunk' = 0 BY <1>2 DEF StartInv
  <2>3. Len(file') \in Nat BY DEF CaptureType
  <2>4. pos' \in 0..Len(file') /\ chunk' \in 0..Len(file') BY <2>2, <2>3
  <2> QED BY <2>1, <2>4 DEF ReplayType, replayVars
<1>5. TypeOK' BY <1>3, <1>4, TypeParts, PTL
<1> QED BY <1>2, <1>5 DEF RecordingInv

\* Steps that only move on: no data is touched.
LEMMA QuietStep ==
    ASSUME RecordingInv, CaptureNext, UNCHANGED replayVars, UNCHANGED data,
           capture' \in {"header", "check", "read", "flush", "final"} \cup {capture},
           capture = "connect" => capture' \in {"connect", "header"},
           capture = "header" => capture' = "header",
           capture' = "header" => Starting,
           elapsed' \in Instants \cup {0}, elapsed' >= elapsed,
           timed' \in BOOLEAN, should_exit' \in BOOLEAN
    PROVE  RecordingInv'
<1>1. CaptureType /\ FlagType /\ ~CaptureEnded BY TypeParts, RecorderRuns DEF RecordingInv
<1>2. CaptureType' BY <1>1 DEF CaptureType, data
<1>3. EndsInv' BY DEF RecordingInv, EndsInv, data
<1>4. ~CaptureEnded' /\ (Starting' <=> Starting)
  BY <1>1 DEF CaptureEnded, Starting, CaptureType
<1>5. LogInv'
  <2>1. CASE diskError BY <2>1 DEF LogInv, data
  <2>2. CASE ~diskError
    <3>1. PICK log \in Seq(Nat), place \in [ends -> Nat],
               time \in [ends -> Instants \cup {0}] : LogOf(log, place, time)
      BY <2>2 DEF RecordingInv, LogInv
    <3>2. Layout(log, place, time)' BY <3>1, LayoutStays DEF LogOf, data
    <3>3. Written(log, place)' BY <1>1, <1>4, <3>1 DEF LogOf, Written, data
    <3>4. Dated(time)'
      <4>1. \A e \in ends \ {got} : time[e] <= elapsed /\ time[e] \in Int /\ elapsed \in Int
        <5>1. elapsed \in Int BY <1>1, CaptureAssumption DEF CaptureType
        <5>2. \A e \in ends : time[e] \in Int
          <6>1. \A e \in ends : time[e] \in Instants \cup {0} OBVIOUS
          <6>2. \A t \in Instants \cup {0} : t \in Int BY CaptureAssumption
          <6> QED BY <6>1, <6>2
        <5>3. \A e \in ends \ {got} : time[e] <= elapsed BY <1>1, <3>1 DEF LogOf, Dated
        <5> QED BY <5>1, <5>2, <5>3
      <4>2. elapsed' \in Int BY <1>2, CaptureAssumption DEF CaptureType
      <4> QED BY <4>1, <4>2 DEF Dated, data
    <3>5. 0 \in ends' BY <1>3 DEF EndsInv
    <3>6. Aimed(place)' /\ Slept(time)' BY <3>5, CaptureLeaves DEF data
    <3>7. LogOf(log, place, time)' BY <3>2, <3>3, <3>4, <3>6 DEF LogOf
    <3>8. place \in [ends' -> Nat] /\ time \in [ends' -> Instants \cup {0}] BY DEF data
    <3> QED BY <3>7, <3>8 DEF LogInv
  <2> QED BY <2>1, <2>2
<1>6. diskError' \in BOOLEAN /\ (diskError => diskError')
  BY <1>1, Zenon DEF FlagType, data
<1> QED BY <1>2, <1>3, <1>5, <1>6, CaptureRest

\* The steps that only move on are these.
LEMMA QuietSteps ==
    ASSUME RecordingInv, UNCHANGED replayVars,
           CaptureConnects \/ CaptureCheck \/ CaptureReadTimeout \/ CaptureReadEnds
               \/ CtrlC \/ Tick
    PROVE  RecordingInv'
<1>1. CaptureType /\ FlagType BY TypeParts DEF RecordingInv
<1>2. CaptureNext BY DEF CaptureNext, CaptureStep, ServerStep
<1>3. elapsed \in Nat BY <1>1, CaptureAssumption DEF CaptureType
<1>4. /\ elapsed' \in Instants \cup {0} /\ elapsed' >= elapsed /\ UNCHANGED data
      /\ capture' \in {"header", "check", "read", "flush", "final"} \cup {capture}
      /\ capture = "connect" => capture' \in {"connect", "header"}
      /\ capture = "header" => capture' = "header"
      /\ capture' = "header" => Starting
  <2>1. CASE CaptureConnects
    BY <2>1, <1>1, <1>3 DEF CaptureConnects, Goes, Starting, CaptureType
  <2>2. CASE CaptureCheck
    BY <2>2, <1>1, <1>3 DEF CaptureCheck, Goes, Starting, CaptureType
  <2>3. CASE CaptureReadTimeout
    BY <2>3, <1>1, <1>3 DEF CaptureReadTimeout, Goes, Starting, CaptureType
  <2>4. CASE CaptureReadEnds
    BY <2>4, <1>1, <1>3 DEF CaptureReadEnds, Goes, Starting, CaptureType
  <2>5. CASE CtrlC
    BY <2>5, <1>1, <1>3 DEF CtrlC, Starting, CaptureType
  <2>6. CASE Tick
    <3>1. elapsed' \in Instants /\ elapsed' > elapsed BY <2>6 DEF Tick
    <3>2. elapsed' >= elapsed BY <3>1, <1>3, CaptureAssumption
    <3> QED BY <3>1, <3>2, <2>6, <1>1 DEF Tick, Starting, CaptureType
  <2> QED BY <2>1, <2>2, <2>3, <2>4, <2>5, <2>6
<1>5. timed' \in BOOLEAN /\ should_exit' \in BOOLEAN
  <2>1. timed' = timed /\ (should_exit' = should_exit \/ should_exit' = TRUE)
    BY DEF CaptureConnects, CaptureCheck, CaptureReadTimeout, CaptureReadEnds, CtrlC, Tick, Goes
  <2> QED BY <2>1, <1>1, Zenon DEF FlagType
<1> QED BY <1>2, <1>4, <1>5, QuietStep

\* A write to the disk that fails ends what is promised of the log.
LEMMA FailedWrites ==
    ASSUME RecordingInv, UNCHANGED replayVars,
           WriteHeaderFails \/ FlushFails \/ FinalFlushFails
    PROVE  RecordingInv'
<1>1. CaptureType /\ FlagType /\ EndsInv BY TypeParts DEF RecordingInv
<1>2. CaptureNext BY DEF CaptureNext, CaptureStep
<1>3. /\ diskError' = TRUE /\ UNCHANGED <<got, ends, safe>>
      /\ elapsed' \in {0, elapsed} /\ buf' \in {<< >>, buf}
      /\ capture' \in {"exit1", "final", "done"}
      /\ timed' \in {TRUE, timed} /\ should_exit' \in {FALSE, should_exit}
      /\ WriteAllFails(Header) \/ WriteAllFails(buf)
  BY DEF WriteHeaderFails, FlushFails, FinalFlushFails, Goes, Ends, WriteAllFails
<1>4. file' \in Seq(Nat)
  <2>1. ASSUME NEW b \in Seq(Nat), WriteAllFails(b) PROVE file' \in Seq(Nat)
    <3>1. PICK n \in 0..(Len(b) - 1) : file' = file \o SubSeq(b, 1, n) BY <2>1 DEF WriteAllFails
    <3>2. n \in 0..Len(b) OBVIOUS
    <3> QED BY <1>1, <3>1, <3>2, PartWritten DEF CaptureType
  <2> QED BY <2>1, <1>1, <1>3, HeaderBytes DEF CaptureType
<1>5. CaptureType'
  <2>1. << >> \in Seq(Nat) OBVIOUS
  <2> QED BY <2>1, <1>1, <1>3, <1>4 DEF CaptureType
<1>6. EndsInv' /\ LogInv' BY <1>1, <1>3 DEF EndsInv, LogInv
<1>7. timed' \in BOOLEAN /\ should_exit' \in BOOLEAN /\ diskError' \in BOOLEAN
  BY <1>1, <1>3, Zenon DEF FlagType
<1> QED BY <1>2, <1>3, <1>5, <1>6, <1>7, CaptureRest

\* The header comes first.
LEMMA HeaderWritten ==
    ASSUME RecordingInv, UNCHANGED replayVars, WriteHeader
    PROVE  RecordingInv'
<1>1. CaptureType /\ FlagType /\ EndsInv BY TypeParts DEF RecordingInv
<1>2. CaptureNext BY DEF CaptureNext, CaptureStep
<1>3. /\ capture = "header" /\ capture' = "check" /\ file' = file \o Header
      /\ UNCHANGED <<buf, got, ends, safe, diskError, timed, should_exit, elapsed>>
  BY DEF WriteHeader, Goes, WriteAll
<1>4. CaptureType'
  <2>1. file' \in Seq(Nat) BY <1>1, <1>3, HeaderBytes, JoinBytes DEF CaptureType
  <2> QED BY <2>1, <1>1, <1>3 DEF CaptureType
<1>5. EndsInv' BY <1>1, <1>3 DEF EndsInv
<1>6. LogInv'
  <2>1. CASE diskError BY <2>1, <1>3 DEF LogInv
  <2>2. CASE ~diskError
    <3>1. PICK log \in Seq(Nat), place \in [ends -> Nat],
               time \in [ends -> Instants \cup {0}] : LogOf(log, place, time)
      BY <2>2 DEF RecordingInv, LogInv
    <3>2. Layout(log, place, time)' BY <1>3, <3>1, LayoutStays DEF LogOf
    <3>3. /\ log = Header /\ file = << >> /\ buf = << >> /\ safe = 0
          /\ place[0] = Len(Header)
      BY <1>3, <3>1 DEF LogOf, Written, Starting, Layout
    <3>4. file' = Header /\ file' \o buf' = Header BY <1>3, <3>3, HeaderBytes
    <3>5. Written(log, place)'
      BY <1>3, <3>3, <3>4 DEF Written, Starting, CaptureEnded
    <3>6. Dated(time)' BY <1>3, <3>1 DEF LogOf, Dated, CaptureEnded
    <3>7. 0 \in ends' BY <1>5 DEF EndsInv
    <3>8. Aimed(place)' /\ Slept(time)' BY <1>2, <1>3, <3>7, CaptureLeaves
    <3>9. LogOf(log, place, time)' BY <3>2, <3>5, <3>6, <3>8 DEF LogOf
    <3>10. place \in [ends' -> Nat] /\ time \in [ends' -> Instants \cup {0}] BY <1>3
    <3> QED BY <3>9, <3>10 DEF LogInv
  <2> QED BY <2>1, <2>2
<1>7. timed' \in BOOLEAN /\ should_exit' \in BOOLEAN /\ diskError' \in BOOLEAN
      /\ (diskError => diskError')
  BY <1>1, <1>3, Zenon DEF FlagType
<1> QED BY <1>2, <1>4, <1>5, <1>6, <1>7, CaptureRest

\* The buffer is written out, in the loop or after it.
LEMMA BufferWritten ==
    ASSUME RecordingInv, UNCHANGED replayVars, Flush \/ FinalFlush
    PROVE  RecordingInv'
<1>1. CaptureType /\ FlagType /\ EndsInv BY TypeParts DEF RecordingInv
<1>2. CaptureNext BY DEF CaptureNext, CaptureStep
<1>3. /\ capture \in {"flush", "final"} /\ capture' \in {"check", "done"}
      /\ capture' = "check" => elapsed' = elapsed
      /\ file' = file \o buf /\ buf' = << >> /\ safe' = got
      /\ UNCHANGED <<got, ends, diskError>> /\ elapsed' \in {0, elapsed}
      /\ timed' \in {TRUE, timed} /\ should_exit' \in {FALSE, should_exit}
  BY DEF Flush, FinalFlush, Goes, Ends, WriteAll
<1>4. CaptureType'
  <2>1. file' \in Seq(Nat) BY <1>1, <1>3, JoinBytes DEF CaptureType
  <2>2. << >> \in Seq(Nat) OBVIOUS
  <2>3. got' \in 0..MaxBytes /\ safe' \in 0..got'
    BY <1>1, <1>3, CaptureAssumption DEF CaptureType
  <2> QED BY <2>1, <2>2, <2>3, <1>1, <1>3 DEF CaptureType
<1>5. EndsInv' BY <1>1, <1>3 DEF EndsInv
<1>6. LogInv'
  <2>1. CASE diskError BY <2>1, <1>3 DEF LogInv
  <2>2. CASE ~diskError
    <3>1. PICK log \in Seq(Nat), place \in [ends -> Nat],
               time \in [ends -> Instants \cup {0}] : LogOf(log, place, time)
      BY <2>2 DEF RecordingInv, LogInv
    <3>2. Layout(log, place, time)' BY <1>3, <3>1, LayoutStays DEF LogOf
    <3>3. log = file \o buf /\ place[got] = Len(log)
      BY <1>3, <3>1 DEF LogOf, Written, Starting, CaptureEnded, Layout
    <3>4. file' = log /\ file' \o buf' = log /\ Len(log) \in Nat BY <1>3, <3>3
    <3>5. At(log, 0, log) BY DEF At
    <3>6. Written(log, place)'
      BY <1>3, <3>3, <3>4, <3>5 DEF Written, Starting, CaptureEnded
    <3>7. Dated(time)' BY <1>3, <3>1 DEF LogOf, Dated, CaptureEnded
    <3>8. 0 \in ends' BY <1>5 DEF EndsInv
    <3>9. Aimed(place)' /\ Slept(time)' BY <1>2, <1>3, <3>8, CaptureLeaves
    <3>10. LogOf(log, place, time)' BY <3>2, <3>6, <3>7, <3>9 DEF LogOf
    <3>11. place \in [ends' -> Nat] /\ time \in [ends' -> Instants \cup {0}] BY <1>3
    <3> QED BY <3>10, <3>11 DEF LogInv
  <2> QED BY <2>1, <2>2
<1>7. timed' \in BOOLEAN /\ should_exit' \in BOOLEAN /\ diskError' \in BOOLEAN
      /\ (diskError => diskError')
  BY <1>1, <1>3, Zenon DEF FlagType
<1> QED BY <1>2, <1>4, <1>5, <1>6, <1>7, CaptureRest

\* The recorder gives up before there is a file, or is killed: a part of what it
\* was writing is on disk.
LEMMA RecorderLost ==
    ASSUME RecordingInv, UNCHANGED replayVars, CaptureFails \/ Kill
    PROVE  RecordingInv'
<1>1. CaptureType /\ FlagType /\ EndsInv BY TypeParts DEF RecordingInv
<1>2. CaptureNext /\ ~CaptureEnded BY RecorderRuns DEF CaptureNext, CaptureStep
<1> DEFINE w == CASE capture = "header" -> Header
                  [] capture \in {"flush", "final"} -> buf
                  [] OTHER -> << >>
<1>3. /\ capture' \in {"exit1", "killed"} /\ elapsed' = 0 /\ buf' = << >>
      /\ UNCHANGED <<got, ends, safe, diskError>>
      /\ timed' = TRUE /\ should_exit' = FALSE
      /\ capture' = "exit1" => capture = "connect"
  BY DEF CaptureFails, Kill, Ends
<1>4. w \in Seq(Nat) /\ (~Starting => w \in {buf, << >>}) /\ (Starting => w \in {Header, << >>})
  BY <1>1, HeaderBytes DEF CaptureType, Starting
<1>5. PICK n \in 0..Len(w) : file' = file \o SubSeq(w, 1, n)
  <2>1. CASE CaptureFails
    <3>1. w = << >> /\ file' = file BY <2>1 DEF CaptureFails
    <3>2. 0 \in 0..Len(w) /\ file \o SubSeq(w, 1, 0) = file BY <3>1, <1>1 DEF CaptureType
    <3> HIDE DEF w
    <3> QED BY <3>1, <3>2
  <2>2. CASE Kill
    <3>1. \E n \in 0..Len(w) : file' = file \o SubSeq(w, 1, n) BY <2>2, Zenon DEF Kill
    <3> QED BY <3>1
  <2> QED BY <2>1, <2>2
<1> HIDE DEF w
<1>6. /\ file' \in Seq(Nat) /\ Len(file') = Len(file) + n /\ At(file \o w, 0, file')
      /\ Len(file) \in Nat /\ n \in Nat /\ n <= Len(w) /\ Len(w) \in Nat
  BY <1>1, <1>4, <1>5, PartWritten DEF CaptureType
<1>7. CaptureType'
  <2>1. << >> \in Seq(Nat) OBVIOUS
  <2> QED BY <2>1, <1>1, <1>3, <1>6 DEF CaptureType
<1>8. EndsInv' BY <1>1, <1>3 DEF EndsInv
<1>9. LogInv'
  <2>1. CASE diskError BY <2>1, <1>3 DEF LogInv
  <2>2. CASE ~diskError
    <3>1. PICK log \in Seq(Nat), place \in [ends -> Nat],
               time \in [ends -> Instants \cup {0}] : LogOf(log, place, time)
      BY <2>2 DEF RecordingInv, LogInv
    <3>2. Layout(log, place, time)' BY <1>3, <3>1, LayoutStays DEF LogOf
    <3>3. At(log, 0, file')
      <4>1. CASE Starting
        <5>1. log = Header /\ file = << >> BY <4>1, <3>1 DEF LogOf, Written
        <5>2. CASE w = Header BY <5>1, <5>2, <1>6, HeaderBytes
        <5>3. CASE w = << >>
          <6>1. Len(w) = 0 /\ Len(file) = 0 BY <5>1, <5>3
          <6>2. Len(file') = 0 BY <1>6, <6>1
          <6> QED BY <6>2, <5>1, HeaderBytes DEF At
        <5> QED BY <5>2, <5>3, <4>1, <1>4
      <4>2. CASE ~Starting
        <5>1. log = file \o buf BY <4>2, <1>2, <3>1 DEF LogOf, Written
        <5>2. CASE w = buf BY <5>1, <5>2, <1>6
        <5>3. CASE w = << >>
          <6>1. file' = file BY <5>3, <1>5, <1>1 DEF CaptureType
          <6>2. /\ Len(file \o buf) = Len(file) + Len(buf) /\ Len(buf) \in Nat
                /\ \A i \in 1..Len(file) : (file \o buf)[i] = file[i]
            BY <1>1, JoinBytes DEF CaptureType
          <6> QED BY <5>1, <6>1, <6>2, <1>6 DEF At
        <5> QED BY <5>2, <5>3, <4>2, <1>4
      <4> QED BY <4>1, <4>2
    <3>4. ASSUME Len(file') >= Len(Header)
          PROVE  place[safe] <= Len(file') /\ (capture' = "killed" \/ Len(file') = Len(log))
      <4>1. CASE Starting
        <5>1. log = Header /\ Len(file) = 0 /\ safe = 0 /\ place[0] = Len(Header)
          BY <4>1, <3>1 DEF LogOf, Written, Layout
        <5>2. Len(file') <= Len(log) BY <3>3, <1>6, HeaderBytes, <5>1 DEF At
        <5> QED BY <5>1, <5>2, <3>4, <1>6, HeaderBytes
      <4>2. CASE ~Starting
        <5>1. place[safe] = Len(file) /\ capture # "connect"
          BY <4>2, <1>2, <3>1 DEF LogOf, Written, Starting
        <5> QED BY <5>1, <1>3, <1>6
      <4> QED BY <4>1, <4>2
    <3>5. Written(log, place)' BY <1>3, <3>3, <3>4 DEF Written, Starting, CaptureEnded
    <3>6. Dated(time)' BY <1>3 DEF Dated, CaptureEnded
    <3>7. 0 \in ends' BY <1>8 DEF EndsInv
    <3>8. Aimed(place)' /\ Slept(time)' BY <1>2, <1>3, <3>7, CaptureLeaves
    <3>9. LogOf(log, place, time)' BY <3>2, <3>5, <3>6, <3>8 DEF LogOf
    <3>10. place \in [ends' -> Nat] /\ time \in [ends' -> Instants \cup {0}] BY <1>3
    <3> QED BY <3>9, <3>10 DEF LogInv
  <2> QED BY <2>1, <2>2
<1>10. timed' \in BOOLEAN /\ should_exit' \in BOOLEAN /\ diskError' \in BOOLEAN
       /\ (diskError => diskError')
  BY <1>1, <1>3, Zenon DEF FlagType
<1> QED BY <1>2, <1>7, <1>8, <1>9, <1>10, CaptureRest

\* A read: its chunk is the last of the log.
LEMMA ReadRecorded ==
    ASSUME RecordingInv, UNCHANGED replayVars, NEW n \in 1..MaxRead, CaptureRead(n)
    PROVE  RecordingInv'
<1> USE CaptureAssumption
<1>1. CaptureType /\ FlagType /\ EndsInv BY TypeParts DEF RecordingInv
<1>2. CaptureNext BY DEF CaptureNext, ServerStep
<1>0. PICK old, f, now, E : old = got /\ f = got + n /\ now = elapsed /\ E = ends
  OBVIOUS
<1> DEFINE C == Piece(old, f, now)
<1>3. /\ n \in Nat /\ got \in Nat /\ f \in Nat /\ f - got = n /\ got < f /\ got <= f
      /\ f - got <= MaxRead /\ f \notin ends
  BY <1>0, <1>1 DEF CaptureType
<1>4. /\ capture = "read" /\ capture' \in {"flush", "check"} /\ f <= MaxBytes
      /\ UNCHANGED <<timed, should_exit, elapsed, safe, file, diskError>>
      /\ got' = f /\ ends' = ends \cup {f}
  BY <1>0 DEF CaptureRead, Goes
<1>5. buf' = buf \o C
  BY <1>0, <1>3 DEF CaptureRead, Piece, Span
<1>6. C \in Seq(Nat) /\ Len(C) = TsLen + LenLen + n
  BY <1>0, <1>1, <1>3, PieceBytes DEF CaptureType
<1> HIDE DEF C
<1>7. CaptureType'
  <2>1. buf' \in Seq(Nat) BY <1>1, <1>5, <1>6, JoinBytes DEF CaptureType
  <2>2. got' \in 0..MaxBytes /\ safe' \in 0..got' /\ ends' \subseteq 0..got'
    BY <1>1, <1>3, <1>4 DEF CaptureType
  <2> QED BY <2>1, <2>2, <1>1, <1>4 DEF CaptureType
<1>8. EndsInv' BY <1>1, <1>4 DEF EndsInv
<1>9. LogInv'
  <2>1. CASE diskError BY <2>1, <1>4 DEF LogInv
  <2>2. CASE ~diskError
    <3>1. PICK log \in Seq(Nat), place \in [ends -> Nat],
               time \in [ends -> Instants \cup {0}] : LogOf(log, place, time)
      BY <2>2 DEF RecordingInv, LogInv
    <3> DEFINE more == log \o C
               at == [e \in E \cup {f} |-> IF e = f THEN Len(more) ELSE place[e]]
               when == [e \in E \cup {f} |->
                           IF e = old THEN now ELSE IF e = f THEN 0 ELSE time[e]]
    <3>2. /\ more \in Seq(Nat) /\ Len(more) = Len(log) + (TsLen + LenLen + n)
          /\ \A i \in 1..Len(log) : more[i] = log[i]
          /\ \A i \in 1..Len(C) : more[Len(log) + i] = C[i]
          /\ Len(log) \in Nat /\ Len(more) \in Nat
      <4>1. /\ more \in Seq(Nat) /\ Len(more) = Len(log) + Len(C)
            /\ \A i \in 1..Len(log) : more[i] = log[i]
            /\ \A i \in 1..Len(C) : more[Len(log) + i] = C[i]
        BY <1>6, JoinBytes
      <4> HIDE DEF more
      <4> QED BY <4>1, <1>6
    <3>3. at \in [ends' -> Nat] BY <1>0, <1>4, <3>2
    <3>4. when \in [ends' -> Instants \cup {0}] BY <1>0, <1>1, <1>4 DEF CaptureType
    <3>5. /\ at[f] = Len(more) /\ \A e \in ends : at[e] = place[e]
          /\ when[got] = elapsed /\ \A e \in ends \ {got} : when[e] = time[e]
      BY <1>0, <1>1, <1>3 DEF EndsInv
    <3> HIDE DEF more, at, when
    <3>6. Layout(log, place, time) BY <3>1 DEF LogOf
    <3>7. 0 \in ends /\ got \in ends /\ \A e \in ends : e \in Nat /\ e <= got /\ e < f
      BY <1>1, <1>3 DEF EndsInv, CaptureType
    <3>8. \A e \in ends : place[e] \in Nat /\ place[e] <= Len(log)
      BY <3>6, <3>7 DEF Layout
    <3>9. ASSUME NEW p \in Nat, NEW c \in Seq(Nat), At(log, p, c) PROVE At(more, p, c)
      <4>1. Len(c) \in Nat /\ p + Len(c) <= Len(log) BY <3>9 DEF At
      <4>2. p + Len(c) <= Len(more) BY <4>1, <3>2, <1>3, FormatAssumption
      <4>3. ASSUME NEW i \in 1..Len(c) PROVE more[p + i] = c[i]
        <5>1. p + i \in 1..Len(log) BY <4>1, <3>2
        <5> QED BY <5>1, <3>2, <3>9 DEF At
      <4> QED BY <4>2, <4>3 DEF At
    <3>10. Layout(more, at, when)'
      <4>1. At(more, 0, Header) BY <3>6, <3>9, HeaderBytes DEF Layout
      <4>2. at[0] = Len(Header) /\ at[got'] = Len(more)
        BY <3>5, <3>6, <3>7, <1>4 DEF Layout
      <4>3. ASSUME NEW d \in ends', NEW e \in ends', d <= e PROVE at[d] <= at[e]
        <5>1. CASE e = f
          <6>1. CASE d = f BY <5>1, <6>1, <3>5, <3>2
          <6>2. CASE d # f
            <7>1. d \in ends BY <6>2, <1>4
            <7>2. Len(log) <= Len(more) BY <3>2, <1>3, FormatAssumption
            <7> QED BY <7>1, <7>2, <5>1, <3>2, <3>5, <3>8
          <6> QED BY <6>1, <6>2
        <5>2. CASE e # f
          <6>1. e \in ends BY <5>2, <1>4
          <6>2. d # f BY <6>1, <3>7, <4>3, <1>3
          <6>3. d \in ends BY <6>2, <1>4
          <6> QED BY <6>1, <6>3, <4>3, <3>5, <3>6 DEF Layout
        <5> QED BY <5>1, <5>2
      <4>4. ASSUME NEW e \in ends' \ {got'}
            PROVE  \E g \in ends' : Follows(more, at, when, e, g)'
        <5>1. e \in ends BY <1>4
        <5>2. CASE e = got
          <6>1. at[old] = Len(log) BY <1>0, <3>5, <3>6, <3>7 DEF Layout
          <6>2. At(more, at[old], Piece(old, f, when[old]))
            <7>1. Len(log) + Len(C) <= Len(more) BY <1>6, <3>2
            <7>2. when[old] = now BY <1>0, <3>5
            <7> QED BY <7>1, <7>2, <6>1, <3>2 DEF At, C
          <6>3. at[f] = at[old] + TsLen + LenLen + (f - old)
            BY <1>0, <6>1, <3>2, <3>5, <1>3, FormatAssumption
          <6>4. \A g \in ends' : g <= old \/ f <= g BY <1>0, <1>3, <1>4, <3>7
          <6>5. old < f /\ f - old <= MaxRead /\ f = got' BY <1>0, <1>3, <1>4
          <6>6. Follows(more, at, when, old, f)'
            BY <6>2, <6>3, <6>4, <6>5 DEF Follows
          <6> QED BY <1>0, <5>2, <6>6, <1>4
        <5>3. CASE e # got
          <6>1. PICK g \in ends : Follows(log, place, time, e, g)
            BY <5>1, <5>3, <3>6 DEF Layout
          <6>2. /\ e < g /\ g - e <= MaxRead /\ g \in Nat /\ e \in Nat /\ e <= g
                /\ time[e] \in Instants \cup {0}
            BY <6>1, <5>1, <3>7 DEF Follows
          <6>3. At(more, at[e], Piece(e, g, when[e]))
            <7>1. At(log, place[e], Piece(e, g, time[e])) BY <6>1 DEF Follows
            <7>2. Piece(e, g, time[e]) \in Seq(Nat) BY <6>2, PieceBytes
            <7>3. At(more, place[e], Piece(e, g, time[e])) BY <7>1, <7>2, <5>1, <3>8, <3>9
            <7> QED BY <7>3, <3>5, <5>1, <5>3
          <6>4. at[g] = at[e] + TsLen + LenLen + (g - e)
            BY <6>1, <5>1, <3>5 DEF Follows
          <6>5. \A h \in ends' : h <= e \/ g <= h
            <7>1. g <= f BY <3>7, <6>2, <1>3
            <7> QED BY <7>1, <6>1, <1>4 DEF Follows
          <6>6. when[e] <= when[g]
            <7>1. when[e] = time[e] BY <5>1, <5>3, <3>5
            <7>2. CASE g = got
              <8>1. time[e] <= elapsed
                BY <1>4, <3>1, <5>1, <5>3 DEF LogOf, Dated, CaptureEnded
              <8> QED BY <7>1, <7>2, <8>1, <3>5
            <7>3. CASE g # got BY <7>1, <7>3, <6>1, <3>5 DEF Follows
            <7> QED BY <7>2, <7>3
          <6>7. g \in ends' BY <1>4
          <6>8. Follows(more, at, when, e, g)'
            BY <6>2, <6>3, <6>4, <6>5, <6>6 DEF Follows
          <6> QED BY <6>7, <6>8
        <5> QED BY <5>2, <5>3
      <4> QED BY <4>1, <4>2, <4>3, <4>4 DEF Layout
    <3>11. Written(more, at)'
      <4>1. log = file \o buf /\ place[safe] = Len(file)
        BY <1>4, <3>1 DEF LogOf, Written, Starting, CaptureEnded
      <4>2. more = file' \o buf'
        <5>1. (file \o buf) \o C = file \o (buf \o C)
          <6>1. file \in Seq(Nat) /\ buf \in Seq(Nat) /\ C \in Seq(Nat)
            BY <1>1, <1>6 DEF CaptureType
          <6> QED BY <6>1, JoinAssociative
        <5> QED BY <4>1, <5>1, <1>4, <1>5 DEF more
      <4>3. at[safe] = Len(file) BY <4>1, <3>5, <1>1 DEF EndsInv
      <4> QED BY <4>2, <4>3, <1>4 DEF Written, Starting, CaptureEnded
    <3>12. Dated(when)'
      <4>1. ASSUME NEW e \in ends' \ {got'} PROVE when[e] <= elapsed
        <5>1. e \in ends BY <1>4
        <5>2. elapsed \in Nat BY <1>1 DEF CaptureType
        <5>3. CASE e = got BY <5>2, <5>3, <3>5
        <5>4. CASE e # got
          BY <5>1, <5>4, <3>1, <3>5, <1>4 DEF LogOf, Dated, CaptureEnded
        <5> QED BY <5>3, <5>4
      <4> QED BY <4>1, <1>4 DEF Dated
    <3>13. 0 \in ends' BY <1>8 DEF EndsInv
    <3>14. Aimed(at)' /\ Slept(when)' BY <1>2, <1>4, <3>13, CaptureLeaves
    <3>15. LogOf(more, at, when)' BY <3>10, <3>11, <3>12, <3>14 DEF LogOf
    <3> QED BY <3>2, <3>3, <3>4, <3>15, Zenon DEF LogInv
  <2> QED BY <2>1, <2>2
<1>10. timed' \in BOOLEAN /\ should_exit' \in BOOLEAN /\ diskError' \in BOOLEAN
       /\ (diskError => diskError')
  BY <1>1, <1>4, Zenon DEF FlagType
<1> QED BY <1>2, <1>7, <1>8, <1>9, <1>10, CaptureRest

\* Every step of the recorder keeps the invariant.
LEMMA CaptureKeeps ==
    ASSUME RecordingInv, CaptureNext, UNCHANGED replayVars
    PROVE  RecordingInv'
BY QuietSteps, FailedWrites, HeaderWritten, BufferWritten, RecorderLost, ReadRecorded
   DEF CaptureNext, CaptureStep, ServerStep

-----------------------------------------------------------------------------
(* The replay tool *)

\* What a file that was opened holds: where its chunks start, and what is read
\* after the first e bytes of the stream.
LEMMA WhatIsRead ==
    ASSUME TypeOK, EndsInv, CaptureEnded, HeaderOk,
           NEW log \in Seq(Nat), NEW place \in [ends -> Nat],
           NEW time \in [ends -> Instants \cup {0}],
           Layout(log, place, time), Written(log, place),
           NEW e \in ends
    PROVE  /\ ChunksStart = place[0] /\ place[0] <= place[e]
           /\ place[e] \in Nat /\ e \in Nat /\ e <= got
           /\ e = got => NoChunk(place[e]) /\ ~WholeChunk(place[e])
           /\ e # got /\ (capture # "killed" \/ e < safe) => WholeChunk(place[e])
           /\ e # got /\ Has(place[e], TsLen) => Timestamp(place[e]) = time[e]
           /\ WholeChunk(place[e]) =>
                 /\ Has(place[e], TsLen) /\ e # got
                 /\ \E f \in ends :
                       /\ e < f /\ f \in Nat /\ (f = got \/ time[e] <= time[f])
                       /\ NextChunk(place[e]) = place[f] /\ DataLen(place[e]) = f - e
                       /\ Data(place[e]) = Span(e, f)
<1> USE CaptureAssumption
<1>1. CaptureType BY TypeParts
<1>2. /\ file \in Seq(Nat) /\ Len(file) \in Nat /\ got \in Nat /\ safe \in ends /\ got \in ends
      /\ 0 \in ends /\ e \in Nat /\ e <= got /\ safe \in Nat
  BY <1>1 DEF CaptureType, EndsInv
<1>3. At(log, 0, file) BY DEF Written, CaptureEnded, Starting
<1>4. Len(file) <= Len(log) /\ \A i \in 1..Len(file) : log[i] = file[i]
  BY <1>2, <1>3 DEF At
<1>5. /\ place[0] = 4 /\ place[got] = Len(log) /\ place[e] \in Nat /\ place[0] <= place[e]
      /\ place[e] <= Len(log) /\ Len(log) \in Nat
  BY <1>2, HeaderBytes DEF Layout
<1>6. ChunksStart = 4 /\ Len(file) >= 4
  <2>1. Has(0, 3) /\ Has(3, file[3]) BY DEF HeaderOk
  <2>2. 3 \in 1..Len(file) BY <2>1, <1>2 DEF Has
  <2>3. log[0 + 3] = Header[3] BY HeaderBytes DEF Layout, At
  <2>4. file[3] = 1 BY <2>2, <2>3, <1>4, HeaderBytes
  <2> QED BY <2>1, <2>4, <1>2 DEF ChunksStart, Has
<1>7. place[safe] <= Len(file) /\ (capture = "killed" \/ Len(file) = Len(log))
  BY <1>6, HeaderBytes DEF Written
<1>8. ASSUME e = got PROVE NoChunk(place[e]) /\ ~WholeChunk(place[e])
  <2>1. place[e] >= Len(file) BY <1>8, <1>4, <1>5
  <2>2. ~(place[e] + TsLen <= Len(file)) /\ ~(place[e] + (TsLen + LenLen) <= Len(file))
    BY <2>1, <1>2, <1>5, FormatAssumption
  <2> QED BY <2>2 DEF NoChunk, WholeChunk, Has
<1>9. ASSUME e # got
      PROVE  \E f \in ends :
                 /\ e < f /\ f \in Nat /\ (f = got \/ time[e] <= time[f])
                 /\ Has(place[e], TsLen) => Timestamp(place[e]) = time[e]
                 /\ WholeChunk(place[e]) <=> place[f] <= Len(file)
                 /\ (e < safe => f <= safe)
                 /\ WholeChunk(place[e]) =>
                       /\ NextChunk(place[e]) = place[f] /\ DataLen(place[e]) = f - e
                       /\ Data(place[e]) = Span(e, f)
  <2>1. PICK f \in ends : Follows(log, place, time, e, f) BY <1>9 DEF Layout
  <2>2. /\ e < f /\ f - e <= MaxRead /\ (f = got \/ time[e] <= time[f])
        /\ At(log, place[e], Piece(e, f, time[e])) /\ (e < safe => f <= safe)
        /\ place[f] = place[e] + TsLen + LenLen + (f - e)
    BY <2>1, <1>2 DEF Follows
  <2>3. f \in Nat /\ place[f] \in Nat /\ time[e] \in Instants \cup {0}
    BY <1>1 DEF CaptureType
  <2>4. /\ Has(place[e], TsLen) => Timestamp(place[e]) = time[e]
        /\ WholeChunk(place[e]) <=> place[f] <= Len(file)
        /\ WholeChunk(place[e]) =>
              /\ NextChunk(place[e]) = place[f] /\ DataLen(place[e]) = f - e
              /\ Data(place[e]) = Span(e, f)
    <3> DEFINE p == place[e]
               q == place[f]
               t == time[e]
    <3>1. p \in Nat /\ q \in Nat /\ t \in Instants \cup {0} /\ e \in Nat /\ f \in Nat
      BY <2>3, <1>2, <1>5
    <3>2. /\ e < f /\ f - e <= MaxRead /\ At(log, p, Piece(e, f, t))
          /\ q = p + TsLen + LenLen + (f - e)
      BY <2>2
    <3>3. file \in Seq(Nat) /\ At(log, 0, file) BY <1>2, <1>3
    <3> HIDE DEF p, q, t
    <3>4. /\ Has(p, TsLen) => Timestamp(p) = t
          /\ WholeChunk(p) <=> q <= Len(file)
          /\ WholeChunk(p) =>
                /\ NextChunk(p) = q /\ DataLen(p) = f - e
                /\ Data(p) = Span(e, f)
      BY <3>1, <3>2, <3>3, ReadPiece
    <3> QED BY <3>4 DEF p, q, t
  <2> QED BY <2>2, <2>3, <2>4
<1>10. ASSUME e # got, capture # "killed" \/ e < safe PROVE WholeChunk(place[e])
  <2>1. PICK f \in ends :
            /\ WholeChunk(place[e]) <=> place[f] <= Len(file)
            /\ e < safe => f <= safe
    BY <1>9, <1>10
  <2>2. /\ f \in Nat /\ f <= got /\ place[f] \in Nat /\ place[safe] \in Nat
        /\ place[f] <= Len(log) /\ (f <= safe => place[f] <= place[safe])
    BY <1>1, <1>2, <1>5 DEF Layout, CaptureType
  <2>3. place[f] <= Len(file)
    BY <1>7, <1>10, <2>1, <2>2, <1>2
  <2> QED BY <2>1, <2>3
<1>11. ASSUME WholeChunk(place[e]) PROVE Has(place[e], TsLen) /\ e # got
  BY <1>8, <1>11, <1>2, <1>5, FormatAssumption DEF WholeChunk, Has
<1> QED BY <1>2, <1>5, <1>6, <1>8, <1>9, <1>10, <1>11

\* What is left to show of a step of the replay tool: the recording is as it was.
LEMMA ReplayRest ==
    ASSUME RecordingInv, CaptureEnded, UNCHANGED captureVars,
           UNCHANGED <<file, loop_mode, paced>>,
           ReplayType', client_quit' \in BOOLEAN, StartInv', InHand', CauseInv',
           SentAsRecorded',
           diskError \/
             \A log \in Seq(Nat), place \in [ends -> Nat],
                time \in [ends -> Instants \cup {0}] :
                 LogOf(log, place, time) => Aimed(place)' /\ Slept(time)'
    PROVE  RecordingInv'
<1>1. CaptureType /\ FlagType /\ EndsInv BY TypeParts DEF RecordingInv
<1>2. CaptureType' /\ EndsInv' BY <1>1 DEF CaptureType, EndsInv, captureVars
<1>3. FlagType' BY <1>1, Zenon DEF FlagType, captureVars
<1>4. LogInv'
  <2>1. CASE diskError BY <2>1 DEF LogInv, captureVars
  <2>2. CASE ~diskError
    <3>1. PICK log \in Seq(Nat), place \in [ends -> Nat],
               time \in [ends -> Instants \cup {0}] : LogOf(log, place, time)
      BY <2>2 DEF RecordingInv, LogInv
    <3>2. Layout(log, place, time)' BY <3>1, LayoutStays DEF LogOf, captureVars
    <3>3. Written(log, place)'
      BY <3>1 DEF LogOf, Written, Starting, CaptureEnded, captureVars
    <3>4. Dated(time)' BY DEF Dated, CaptureEnded, captureVars
    <3>5. Aimed(place)' /\ Slept(time)' BY <2>2, <3>1
    <3>6. LogOf(log, place, time)' BY <3>2, <3>3, <3>4, <3>5 DEF LogOf
    <3>7. place \in [ends' -> Nat] /\ time \in [ends' -> Instants \cup {0}]
      BY DEF captureVars
    <3> QED BY <3>6, <3>7 DEF LogInv
  <2> QED BY <2>1, <2>2
<1>5. TypeOK' BY <1>2, <1>3, TypeParts, PTL
<1> QED BY <1>2, <1>4, <1>5 DEF RecordingInv

\* The header has been read, now or before: the chunks start inside the file.
LEMMA StartInside ==
    ASSUME TypeOK, HeaderOk
    PROVE  ChunksStart \in 0..Len(file)
<1>1. file \in Seq(Nat) BY DEF TypeOK
<1>2. Has(0, 3) /\ Has(3, file[3]) BY DEF HeaderOk
<1>3. file[3] \in Nat BY <1>1, <1>2 DEF Has
<1> QED BY <1>1, <1>2, <1>3 DEF ChunksStart, Has

\* The command thread and the client do not touch the main thread.
LEMMA OthersKeep ==
    ASSUME RecordingInv, CaptureEnded, UNCHANGED captureVars, CmdStep \/ ClientStep
    PROVE  RecordingInv'
<1>1. ReplayType /\ FlagType BY TypeParts DEF RecordingInv
<1>2. /\ UNCHANGED <<args, pass, replay, client_quit, cause>>
      /\ cmd' \in {"none", "read", "done"}
      /\ client' \in {"none", "silent", "chatty", "half", "gone", "reset"}
      /\ client \in {"gone", "reset"} => client' = client
  BY <1>1 DEF CmdStep, CmdRead, CmdTimeout, CmdDisconnect, CmdGoes, ClientStep,
     ClientConnects, ClientSends, ClientHalfCloses, ClientCloses, ClientGoes, ReplayType
<1>3. ReplayType' BY <1>1, <1>2 DEF ReplayType, args, pass
<1>4. StartInv'
  BY <1>2 DEF RecordingInv, StartInv, HeaderOk, Has, CaptureEnded, args, pass, captureVars
<1>5. CauseInv' BY <1>2 DEF RecordingInv, CauseInv, args, captureVars
<1>i. InHand'
  BY <1>2 DEF RecordingInv, InHand, WholeChunk, DataStart, DataLen, Bytes, Has, args, pass
<1>6. SentAsRecorded'
  BY <1>2 DEF RecordingInv, SentAsRecorded, Recorded, pass, captureVars
<1>7. ASSUME NEW log, NEW place, NEW time, LogOf(log, place, time)
      PROVE  Aimed(place)' /\ Slept(time)'
  BY <1>2, <1>7 DEF LogOf, Aimed, Slept, WholeChunk, NextChunk, DataStart, DataLen, Bytes,
     Has, args, pass, captureVars
<1>8. client_quit' \in BOOLEAN BY <1>1, <1>2, Zenon DEF FlagType
<1>9. UNCHANGED <<file, loop_mode, paced>> BY <1>2 DEF args
<1> QED BY <1>3, <1>4, <1>5, <1>6, <1>7, <1>8, <1>9, <1>i, ReplayRest

\* The steps before the loop, and the ones after it.
LEMMA OutsideKeep ==
    ASSUME RecordingInv, CaptureEnded, UNCHANGED captureVars,
           ReplayFails \/ ReplayAccept \/ ReplayMagic \/ ReplayStore \/ ReplayJoin
    PROVE  RecordingInv'
<1>1. ReplayType /\ FlagType BY TypeParts DEF RecordingInv
<1>2. /\ UNCHANGED <<args, pass, client, cause>>
      /\ cmd' \in {"read", cmd} /\ client_quit' \in {TRUE, client_quit}
      /\ <<replay, replay'>> \in {<<"open", "exit1">>, <<"accept", "exit1">>,
            <<"magic", "exit1">>, <<"accept", "magic">>, <<"magic", "chunk">>,
            <<"store", "join">>, <<"join", "done">>}
  BY DEF ReplayFails, ReplayAccept, ReplayMagic, ReplayStore, ReplayJoin, ReplayGoes
<1>3. ReplayType' BY <1>1, <1>2 DEF ReplayType, args, pass
<1>4. StartInv'
  BY <1>2 DEF RecordingInv, StartInv, HeaderOk, Has, CaptureEnded, args, pass, captureVars
<1>5. CauseInv' BY <1>2 DEF RecordingInv, CauseInv, args, captureVars
<1>i. InHand' BY <1>2 DEF InHand
<1>6. SentAsRecorded'
  BY <1>2 DEF RecordingInv, SentAsRecorded, Recorded, pass, captureVars
<1>7. ASSUME NEW log, NEW place, NEW time, LogOf(log, place, time)
      PROVE  Aimed(place)' /\ Slept(time)'
  BY <1>2, <1>7 DEF LogOf, Aimed, Slept, args, pass, captureVars
<1>8. client_quit' \in BOOLEAN BY <1>1, <1>2, Zenon DEF FlagType
<1>9. UNCHANGED <<file, loop_mode, paced>> BY <1>2 DEF args
<1> QED BY <1>3, <1>4, <1>5, <1>6, <1>7, <1>8, <1>9, <1>i, ReplayRest

\* The loop is left.
LEMMA BreaksKeep ==
    ASSUME RecordingInv, CaptureEnded, UNCHANGED captureVars,
           ReplayTorn \/ ReplayEof \/ ReplaySeekFails \/ ReplayWriteFails
    PROVE  RecordingInv'
<1>1. ReplayType /\ FlagType BY TypeParts DEF RecordingInv
<1>2. /\ UNCHANGED <<args, pass, client, cmd, client_quit>>
      /\ replay \in {"chunk", "write"} /\ replay' = "store"
      /\ cause' \in {"torn", "eof", "seek", "write"}
      /\ cause' = "torn" => replay = "chunk" /\ TornChunk(pos)
      /\ cause' = "eof" => ~loop_mode
      /\ cause' = "write" => client \in {"gone", "reset"}
  BY DEF ReplayTorn, ReplayEof, ReplaySeekFails, ReplayWriteFails, Breaks, ReplayGoes
<1>3. ReplayType' BY <1>1, <1>2 DEF ReplayType, args, pass
<1>4. StartInv'
  BY <1>2 DEF RecordingInv, StartInv, HeaderOk, Has, CaptureEnded, args, pass, captureVars
<1>5. ASSUME cause' = "torn", ~diskError PROVE capture = "killed"
  <2>1. PICK log \in Seq(Nat), place \in [ends -> Nat],
             time \in [ends -> Instants \cup {0}] : LogOf(log, place, time)
    BY <1>5 DEF RecordingInv, LogInv
  <2>2. pos = place[Len(sent)] /\ Len(sent) \in ends /\ HeaderOk
    BY <1>2, <1>5, <2>1 DEF RecordingInv, LogOf, Aimed, SentAsRecorded, StartInv
  <2>3. /\ Len(sent) = got => NoChunk(pos)
        /\ Len(sent) # got /\ capture # "killed" => WholeChunk(pos)
    BY <2>1, <2>2, WhatIsRead DEF LogOf, RecordingInv
  <2> QED BY <1>2, <1>5, <2>3 DEF TornChunk
<1>6. CauseInv' BY <1>2, <1>5 DEF CauseInv, args, captureVars
<1>i. InHand' BY <1>2 DEF InHand
<1>7. SentAsRecorded'
  BY <1>2 DEF RecordingInv, SentAsRecorded, Recorded, pass, captureVars
<1>8. ASSUME NEW log, NEW place, NEW time, LogOf(log, place, time)
      PROVE  Aimed(place)' /\ Slept(time)'
  BY <1>2, <1>8 DEF LogOf, Aimed, Slept, args, pass, captureVars
<1>9. client_quit' \in BOOLEAN BY <1>1, <1>2, Zenon DEF FlagType
<1>10. UNCHANGED <<file, loop_mode, paced>> BY <1>2 DEF args
<1> QED BY <1>3, <1>4, <1>6, <1>7, <1>8, <1>9, <1>10, <1>i, ReplayRest

\* The first pass, and every other, starts at the first chunk.
LEMMA PassStarts ==
    ASSUME RecordingInv, CaptureEnded, UNCHANGED captureVars, ReplayHeader \/ ReplayLoop
    PROVE  RecordingInv'
<1>1. ReplayType /\ FlagType /\ TypeOK /\ EndsInv BY TypeParts DEF RecordingInv
<1>2. /\ UNCHANGED <<args, chunk, client, cmd, client_quit, cause>>
      /\ replay \in {"open", "chunk"} /\ replay' \in {"accept", "chunk"}
      /\ pos' = ChunksStart /\ HeaderOk
      /\ sent' = << >> /\ slept' = 0 /\ prev_timestamp' = NoTimestamp
  BY DEF RecordingInv, StartInv, ReplayHeader, ReplayLoop, NewPass, ReplayGoes
<1>3. ReplayType'
  <2>1. pos' \in 0..Len(file) BY <1>1, <1>2, StartInside
  <2>2. << >> \in Seq(Nat) OBVIOUS
  <2> QED BY <2>1, <2>2, <1>1, <1>2 DEF ReplayType, args
<1>4. StartInv'
  BY <1>2 DEF RecordingInv, StartInv, HeaderOk, Has, CaptureEnded, args, captureVars
<1>5. CauseInv' BY <1>2 DEF RecordingInv, CauseInv, args, captureVars
<1>i. InHand' BY <1>2 DEF InHand
<1>6. SentAsRecorded'
  <2>1. Len(sent') = 0 /\ Recorded(0) = << >> BY <1>2 DEF Recorded
  <2>2. 0 \in ends' BY <1>1 DEF EndsInv, captureVars
  <2> QED BY <2>1, <2>2, <1>2 DEF SentAsRecorded, Recorded
<1>7. ASSUME NEW log \in Seq(Nat), NEW place \in [ends -> Nat],
             NEW time \in [ends -> Instants \cup {0}], LogOf(log, place, time)
      PROVE  Aimed(place)' /\ Slept(time)'
  <2>1. 0 \in ends BY <1>1 DEF EndsInv
  <2>2. ChunksStart = place[0] BY <2>1, <1>1, <1>2, <1>7, WhatIsRead DEF LogOf
  <2>3. Len(sent') = 0 BY <1>2
  <2> QED BY <1>2, <2>2, <2>3 DEF Aimed, Slept
<1>8. client_quit' \in BOOLEAN BY <1>1, <1>2, Zenon DEF FlagType
<1>9. UNCHANGED <<file, loop_mode, paced>> BY <1>2 DEF args
<1> QED BY <1>3, <1>4, <1>5, <1>6, <1>7, <1>8, <1>9, <1>i, ReplayRest

\* A chunk is read.
LEMMA ChunkKeeps ==
    ASSUME RecordingInv, CaptureEnded, UNCHANGED captureVars, ReplayChunk
    PROVE  RecordingInv'
<1>1. ReplayType /\ CaptureType /\ FlagType /\ TypeOK /\ EndsInv BY TypeParts DEF RecordingInv
<1>2. /\ UNCHANGED <<args, prev_timestamp, sent, slept, client, cmd, client_quit, cause>>
      /\ replay = "chunk" /\ replay' = "pace" /\ WholeChunk(pos)
      /\ chunk' = pos /\ pos' = NextChunk(pos)
  BY DEF ReplayChunk, ReplayGoes
<1>3. ReplayType'
  <2>1. pos \in Nat /\ file \in Seq(Nat) /\ Len(file) \in Nat
    BY <1>1 DEF ReplayType, CaptureType
  <2>2. NextChunk(pos) \in 0..Len(file) BY <1>2, <2>1, ChunkTypes
  <2> QED BY <2>2, <1>1, <1>2 DEF ReplayType, args
<1>4. StartInv'
  BY <1>2 DEF RecordingInv, StartInv, HeaderOk, Has, CaptureEnded, args, captureVars
<1>5. CauseInv' BY <1>2 DEF RecordingInv, CauseInv, args, captureVars
<1>i. InHand'
  BY <1>2 DEF RecordingInv, InHand, WholeChunk, DataStart, DataLen, Bytes, Has, args
<1>6. SentAsRecorded' BY <1>2 DEF RecordingInv, SentAsRecorded, Recorded, captureVars
<1>7. ASSUME ~diskError, NEW log \in Seq(Nat), NEW place \in [ends -> Nat],
             NEW time \in [ends -> Instants \cup {0}], LogOf(log, place, time)
      PROVE  Aimed(place)' /\ Slept(time)'
  <2>1. pos = place[Len(sent)] /\ Len(sent) \in ends /\ HeaderOk
    BY <1>2, <1>7 DEF RecordingInv, LogOf, Aimed, InHand, SentAsRecorded, StartInv
  <2>2. Len(sent) # got BY <1>1, <1>2, <1>7, <2>1, WhatIsRead DEF LogOf
  <2>3. NextChunk(chunk)' = NextChunk(pos)
    BY <1>2 DEF NextChunk, DataStart, DataLen, Bytes, args
  <2>4. Aimed(place)' BY <1>2, <2>1, <2>2, <2>3 DEF Aimed, captureVars
  <2>5. Slept(time)' BY <1>2, <1>7 DEF LogOf, Slept, args, captureVars
  <2> QED BY <2>4, <2>5
<1>8. client_quit' \in BOOLEAN BY <1>1, <1>2, Zenon DEF FlagType
<1>9. UNCHANGED <<file, loop_mode, paced>> BY <1>2 DEF args
<1> QED BY <1>3, <1>4, <1>5, <1>6, <1>7, <1>8, <1>9, <1>i, ReplayRest

\* A chunk is waited for.
LEMMA PaceKeeps ==
    ASSUME RecordingInv, CaptureEnded, UNCHANGED captureVars, ReplayPace
    PROVE  RecordingInv'
<1>1. ReplayType /\ CaptureType /\ FlagType /\ TypeOK /\ EndsInv BY TypeParts DEF RecordingInv
<1> DEFINE P == Power[TsLen]
           ts == Timestamp(chunk)
<1>0. P \in Nat \ {0} BY PowerPositive, FormatAssumption
<1>2. /\ UNCHANGED <<args, pos, chunk, sent, client, cmd, client_quit, cause>>
      /\ replay = "pace" /\ replay' = "write"
      /\ slept' = IF paced /\ prev_timestamp # NoTimestamp
                  THEN slept + ((ts - prev_timestamp) % P) ELSE slept
      /\ prev_timestamp' = IF paced THEN ts ELSE prev_timestamp
  BY DEF ReplayPace, ReplayGoes
<1>a. WholeChunk(chunk)
  BY <1>2 DEF RecordingInv, InHand
<1>3. ReplayType'
  <2>1. chunk \in Nat /\ file \in Seq(Nat) /\ Len(file) \in Nat
    BY <1>1 DEF ReplayType, CaptureType
  <2>2. ts \in Nat BY <1>a, <2>1, ChunkTypes
  <2> HIDE DEF P, ts
  <2>3. prev_timestamp' \in Nat \cup {NoTimestamp} BY <1>1, <1>2, <2>2 DEF ReplayType
  <2>4. slept' \in Nat
    <3>1. CASE paced /\ prev_timestamp # NoTimestamp
      <4>1. prev_timestamp \in Nat /\ slept \in Nat BY <1>1, <3>1 DEF ReplayType
      <4>2. (ts - prev_timestamp) % P \in Nat BY <4>1, <2>2, <1>0
      <4> QED BY <1>2, <3>1, <4>1, <4>2
    <3>2. CASE ~(paced /\ prev_timestamp # NoTimestamp)
      BY <1>1, <1>2, <3>2 DEF ReplayType
    <3> QED BY <3>1, <3>2
  <2> QED BY <2>3, <2>4, <1>1, <1>2 DEF ReplayType, args
<1>4. StartInv'
  BY <1>2 DEF RecordingInv, StartInv, HeaderOk, Has, CaptureEnded, args, captureVars
<1>5. CauseInv' BY <1>2 DEF RecordingInv, CauseInv, args, captureVars
<1>i. InHand'
  BY <1>2 DEF RecordingInv, InHand, WholeChunk, DataStart, DataLen, Bytes, Has, args
<1>6. SentAsRecorded' BY <1>2 DEF RecordingInv, SentAsRecorded, Recorded, captureVars
<1>7. ASSUME ~diskError, NEW log \in Seq(Nat), NEW place \in [ends -> Nat],
             NEW time \in [ends -> Instants \cup {0}], LogOf(log, place, time)
      PROVE  Aimed(place)' /\ Slept(time)'
  <2>1. /\ chunk = place[Len(sent)] /\ Len(sent) \in ends /\ HeaderOk
        /\ Len(sent) # got /\ WholeChunk(chunk) /\ pos = NextChunk(chunk)
    BY <1>2, <1>7 DEF RecordingInv, LogOf, Aimed, InHand, SentAsRecorded, StartInv
  <2>2. Aimed(place)'
    BY <1>2, <2>1 DEF Aimed, WholeChunk, NextChunk, DataStart, DataLen, Bytes, Has,
       args, captureVars
  <2>3. ts = time[Len(sent)]
    BY <1>1, <1>7, <2>1, WhatIsRead DEF LogOf
  <2>4. ASSUME paced PROVE prev_timestamp' = time[Len(sent)] /\ slept' = time[Len(sent)] - time[0]
    <3> HIDE DEF ts, P
    <3>1. time[Len(sent)] \in Instants \cup {0} /\ time[0] \in Instants \cup {0}
      BY <1>1, <2>1 DEF EndsInv
    <3>2. /\ time[Len(sent)] \in Nat /\ time[0] \in Nat /\ time[Len(sent)] < P
      BY <3>1, Fits DEF P
    <3>3. CASE prev_timestamp = NoTimestamp
      <4>1. slept = 0 /\ sent = << >>
        BY <1>2, <1>7, <2>4, <3>3, TimestampAssumption DEF LogOf, Slept
      <4>2. Len(sent) = 0 BY <4>1
      <4> QED BY <1>2, <2>3, <2>4, <3>2, <3>3, <4>1, <4>2
    <3>4. CASE prev_timestamp # NoTimestamp
      <4>1. /\ prev_timestamp \in Nat /\ slept = prev_timestamp - time[0]
            /\ prev_timestamp <= time[Len(sent)]
        BY <1>2, <1>7, <2>1, <2>4, <3>4 DEF LogOf, Slept
      <4> DEFINE d == ts - prev_timestamp
      <4>2. d \in Nat /\ d < P BY <2>3, <3>2, <4>1, <1>0
      <4> HIDE DEF d
      <4>3. d % P = d BY <4>2, <1>0
      <4>4. slept' = slept + d BY <1>2, <2>4, <3>4, <4>3 DEF d
      <4>5. slept' = time[Len(sent)] - time[0] BY <4>1, <4>4, <2>3, <3>2 DEF d
      <4> QED BY <1>2, <2>3, <2>4, <4>5
    <3> QED BY <3>3, <3>4
  <2>5. Slept(time)' BY <1>2, <2>4 DEF Slept, args
  <2> QED BY <2>2, <2>5
<1>8. client_quit' \in BOOLEAN BY <1>1, <1>2, Zenon DEF FlagType
<1>9. UNCHANGED <<file, loop_mode, paced>> BY <1>2 DEF args
<1> QED BY <1>3, <1>4, <1>5, <1>6, <1>7, <1>8, <1>9, <1>i, ReplayRest

\* A chunk is sent.
LEMMA WriteKeeps ==
    ASSUME RecordingInv, CaptureEnded, UNCHANGED captureVars, ReplayWrite
    PROVE  RecordingInv'
<1>1. ReplayType /\ CaptureType /\ FlagType /\ TypeOK /\ EndsInv BY TypeParts DEF RecordingInv
<1>2. /\ UNCHANGED <<args, pos, prev_timestamp, chunk, slept, cmd, client_quit, cause>>
      /\ replay = "write" /\ replay' = "chunk"
      /\ sent' = sent \o Data(chunk)
      /\ client' \in {client, "reset"} /\ (client' # client => client = "gone")
  BY DEF ReplayWrite, ReplayGoes
<1>a. WholeChunk(chunk) BY <1>2 DEF RecordingInv, InHand
<1>3. ReplayType'
  <2>1. chunk \in Nat /\ file \in Seq(Nat) /\ sent \in Seq(Nat)
    BY <1>1 DEF ReplayType, CaptureType
  <2>2. Data(chunk) \in Seq(Nat) BY <1>a, <2>1, ChunkTypes
  <2>3. sent' \in Seq(Nat) BY <1>2, <2>1, <2>2, JoinBytes
  <2> QED BY <2>3, <1>1, <1>2 DEF ReplayType, args
<1>4. StartInv'
  BY <1>2 DEF RecordingInv, StartInv, HeaderOk, Has, CaptureEnded, args, captureVars
<1>5. CauseInv' BY <1>2 DEF RecordingInv, CauseInv, args, captureVars
<1>i. InHand'
  BY <1>2 DEF RecordingInv, InHand, WholeChunk, DataStart, DataLen, Bytes, Has, args
<1>6. ASSUME ~diskError, NEW log \in Seq(Nat), NEW place \in [ends -> Nat],
             NEW time \in [ends -> Instants \cup {0}], LogOf(log, place, time)
      PROVE  /\ Aimed(place)' /\ Slept(time)'
             /\ sent' = Recorded(Len(sent')) /\ Len(sent') \in ends
  <2>1. /\ chunk = place[Len(sent)] /\ Len(sent) \in ends /\ HeaderOk
        /\ WholeChunk(chunk) /\ pos = NextChunk(chunk)
        /\ sent = Recorded(Len(sent))
    BY <1>2, <1>6 DEF RecordingInv, LogOf, Aimed, InHand, SentAsRecorded, StartInv
  <2>2. PICK f \in ends :
            /\ Len(sent) < f /\ f \in Nat /\ (f = got \/ time[Len(sent)] <= time[f])
            /\ NextChunk(chunk) = place[f]
            /\ Data(chunk) = Span(Len(sent), f)
    <3>1. Layout(log, place, time) /\ Written(log, place) BY <1>6 DEF LogOf
    <3> DEFINE e == Len(sent)
    <3>2. e \in ends /\ WholeChunk(place[e]) /\ chunk = place[e] BY <2>1
    <3> HIDE DEF e
    <3>3. \E f \in ends :
             /\ e < f /\ f \in Nat /\ (f = got \/ time[e] <= time[f])
             /\ NextChunk(place[e]) = place[f] /\ DataLen(place[e]) = f - e
             /\ Data(place[e]) = Span(e, f)
      <4>1. TypeOK /\ EndsInv /\ HeaderOk BY <1>1, <2>1
      <4> QED BY <4>1, <3>1, <3>2, WhatIsRead
    <3> QED BY <3>2, <3>3 DEF e
  <2>3. sent' = Recorded(f) /\ Len(sent') = f
    <3> DEFINE a == sent
               D == [i \in 1..(f - Len(a)) |-> Len(a) + i]
    <3>1. a \in Seq(Nat) /\ Len(a) \in Nat /\ \A i \in 1..Len(a) : a[i] = i
      <4>1. \A i \in 1..Len(sent) : Recorded(Len(sent))[i] = i BY DEF Recorded
      <4> QED BY <4>1, <2>1, <1>1 DEF ReplayType
    <3>2. f - Len(a) \in Nat /\ f \in Nat BY <2>2, <3>1
    <3>3. D \in Seq(Nat) /\ Len(D) = f - Len(a) /\ \A i \in 1..(f - Len(a)) : D[i] = Len(a) + i
      <4> DEFINE k == Len(a)
      <4>1. k \in Nat /\ f - k \in Nat BY <3>1, <3>2
      <4> HIDE DEF k
      <4>2. [i \in 1..(f - k) |-> k + i] \in [1..(f - k) -> Nat] BY <4>1
      <4>3. /\ [i \in 1..(f - k) |-> k + i] \in Seq(Nat)
            /\ Len([i \in 1..(f - k) |-> k + i]) = f - k
        BY <4>1, <4>2
      <4> QED BY <4>3 DEF k
    <3>4. sent' = a \o D BY <1>2, <2>2 DEF Span
    <3> HIDE DEF a, D
    <3>5. /\ a \o D \in Seq(Nat) /\ Len(a \o D) = Len(a) + Len(D)
          /\ \A i \in 1..Len(a) : (a \o D)[i] = a[i]
          /\ \A i \in 1..Len(D) : (a \o D)[Len(a) + i] = D[i]
      BY <3>1, <3>3, JoinBytes
    <3>6. Len(a \o D) = f BY <3>1, <3>2, <3>3, <3>5
    <3>7. ASSUME NEW i \in 1..f PROVE (a \o D)[i] = i
      <4>1. i \in Nat /\ Len(a) \in Nat /\ (i <= Len(a) \/ i > Len(a)) BY <3>1, <3>2
      <4>2. CASE i <= Len(a)
        <5>1. i \in 1..Len(a) BY <4>1, <4>2
        <5> QED BY <5>1, <3>1, <3>5
      <4>3. CASE i > Len(a)
        <5> DEFINE j == i - Len(a)
        <5>1. j \in 1..Len(D) /\ j \in 1..(f - Len(a)) /\ Len(a) + j = i
          BY <4>1, <4>3, <3>2, <3>3
        <5> HIDE DEF j
        <5>2. (a \o D)[Len(a) + j] = D[j] /\ D[j] = Len(a) + j BY <5>1, <3>3, <3>5
        <5> QED BY <5>1, <5>2
      <4> QED BY <4>1, <4>2, <4>3, Zenon
    <3>8. Recorded(f) \in Seq(Nat) /\ Len(Recorded(f)) = f /\ \A i \in 1..f : Recorded(f)[i] = i
      <4>1. Recorded(f) \in [1..f -> Nat] BY <3>2 DEF Recorded
      <4>2. Recorded(f) \in Seq(Nat) /\ Len(Recorded(f)) = f BY <4>1, <3>2
      <4> QED BY <4>2 DEF Recorded
    <3>9. a \o D = Recorded(f)
      <4>1. \A i \in 1..Len(a \o D) : (a \o D)[i] = Recorded(f)[i] BY <3>6, <3>7, <3>8
      <4> QED BY <4>1, <3>5, <3>6, <3>8, SameBytes
    <3> QED BY <3>4, <3>6, <3>9
  <2>4. Aimed(place)' BY <1>2, <2>1, <2>2, <2>3 DEF Aimed
  <2>5. Slept(time)'
    <3>1. ASSUME paced
          PROVE  /\ prev_timestamp = time[Len(sent)] /\ slept = prev_timestamp - time[0]
                 /\ prev_timestamp \in Nat
      <4>1. prev_timestamp = time[Len(sent)] /\ slept = prev_timestamp - time[0]
        BY <1>2, <1>6, <3>1 DEF LogOf, Slept
      <4>2. time[Len(sent)] \in Instants \cup {0} BY <2>1
      <4> QED BY <4>1, <4>2, Fits
    <3> QED BY <3>1, <1>2, <2>2, <2>3 DEF Slept, args, captureVars
  <2> QED BY <2>2, <2>3, <2>4, <2>5
<1>7. SentAsRecorded'
  <2>1. CASE diskError BY <2>1 DEF SentAsRecorded, captureVars
  <2>2. CASE ~diskError
    <3>1. PICK log \in Seq(Nat), place \in [ends -> Nat],
               time \in [ends -> Instants \cup {0}] : LogOf(log, place, time)
      BY <2>2 DEF RecordingInv, LogInv
    <3> QED BY <2>2, <3>1, <1>6 DEF SentAsRecorded, Recorded, captureVars
  <2> QED BY <2>1, <2>2
<1>8. client_quit' \in BOOLEAN BY <1>1, <1>2, Zenon DEF FlagType
<1>9. UNCHANGED <<file, loop_mode, paced>> BY <1>2 DEF args
<1> QED BY <1>3, <1>4, <1>5, <1>6, <1>7, <1>8, <1>9, <1>i, ReplayRest

\* Every step of the replay tool keeps the invariant.
LEMMA ReplayKeeps ==
    ASSUME RecordingInv, CaptureEnded, UNCHANGED captureVars, ReplayNext
    PROVE  RecordingInv'
BY OthersKeep, OutsideKeep, BreaksKeep, PassStarts, ChunkKeeps, PaceKeeps, WriteKeeps
   DEF ReplayNext, ReplayStep

\* Nothing changes.
LEMMA StutterKeeps ==
    ASSUME RecordingInv, UNCHANGED vars
    PROVE  RecordingInv'
<1>1. ReplayType /\ CaptureType /\ FlagType /\ EndsInv BY TypeParts DEF RecordingInv
<1>2. ReplayType' /\ CaptureType' /\ EndsInv'
  BY <1>1 DEF ReplayType, CaptureType, EndsInv, vars, captureVars, replayVars
<1>3. FlagType' BY <1>1, Zenon DEF FlagType, vars, captureVars, replayVars
<1>4. StartInv' /\ CauseInv'
  BY DEF RecordingInv, StartInv, CauseInv, HeaderOk, Has, CaptureEnded, vars, captureVars,
         replayVars
<1>5. InHand' /\ SentAsRecorded'
  BY DEF RecordingInv, InHand, WholeChunk, DataStart, DataLen, Bytes, Has, SentAsRecorded,
         Recorded, vars, captureVars, replayVars
<1>6. LogInv'
  <2>1. CASE diskError BY <2>1 DEF LogInv, vars, captureVars
  <2>2. CASE ~diskError
    <3>1. PICK log \in Seq(Nat), place \in [ends -> Nat],
               time \in [ends -> Instants \cup {0}] : LogOf(log, place, time)
      BY <2>2 DEF RecordingInv, LogInv
    <3>2. Layout(log, place, time)' BY <3>1, LayoutStays DEF LogOf, vars, captureVars
    <3>3. Written(log, place)' /\ Dated(time)'
      BY <3>1 DEF LogOf, Written, Dated, Starting, CaptureEnded, vars, captureVars
    <3>4. Aimed(place)' /\ Slept(time)'
      BY <3>1 DEF LogOf, Aimed, Slept, NextChunk, DataStart, DataLen, Bytes, vars,
         captureVars, replayVars
    <3>5. LogOf(log, place, time)' BY <3>2, <3>3, <3>4 DEF LogOf
    <3>6. place \in [ends' -> Nat] /\ time \in [ends' -> Instants \cup {0}]
      BY DEF vars, captureVars
    <3> QED BY <3>5, <3>6 DEF LogInv
  <2> QED BY <2>1, <2>2
<1>7. TypeOK' BY <1>2, <1>3, TypeParts, PTL
<1> QED BY <1>2, <1>4, <1>5, <1>6, <1>7 DEF RecordingInv

\* RecordingInv is an invariant of the recorder and the replay tool.
THEOREM Invariance == Spec => []RecordingInv
<1>1. RecordingInv /\ [Next]_vars => RecordingInv'
  BY CaptureKeeps, ReplayKeeps, StutterKeeps DEF Next
<1> QED BY <1>1, InitRecording, PTL DEF Spec

-----------------------------------------------------------------------------
(* The properties *)

\* The type invariant, for every width of timestamps and lengths, any number of
\* bytes, any reads, flush threshold, duration and times.
THEOREM TypeCorrect == Spec => []TypeOK
<1>1. RecordingInv => TypeOK BY DEF RecordingInv
<1> QED BY <1>1, Invariance, PTL

\* What rtltcp-replay sends is a prefix of what rtltcp-capture received, in whole
\* chunks, however the capture ended, unless a write to the disk failed.
THEOREM ReplaySendsRecorded == Spec => []SentAsRecorded
<1>1. RecordingInv => SentAsRecorded BY DEF RecordingInv
<1> QED BY <1>1, Invariance, PTL

\* A pass of the replay that reaches the end of the file has sent all that the
\* capture received, or what a killed one had flushed.
THEOREM PassesAreComplete == Spec => []PassComplete
<1>1. RecordingInv => PassComplete
  <2> SUFFICES ASSUME RecordingInv, replay = "chunk", ~WholeChunk(pos), ~diskError
               PROVE  Len(sent) \in (IF capture = "killed" THEN safe ELSE got)..got
    BY DEF PassComplete
  <2>1. PICK log \in Seq(Nat), place \in [ends -> Nat],
             time \in [ends -> Instants \cup {0}] : LogOf(log, place, time)
    BY DEF RecordingInv, LogInv
  <2>2. /\ pos = place[Len(sent)] /\ Len(sent) \in ends /\ HeaderOk /\ CaptureEnded
        /\ TypeOK /\ EndsInv /\ Layout(log, place, time) /\ Written(log, place)
    BY <2>1 DEF RecordingInv, LogOf, Aimed, SentAsRecorded, StartInv
  <2>3. got \in Nat /\ safe \in Nat /\ safe <= got
    BY <2>2, TypeParts, CaptureAssumption DEF CaptureType
  <2>4. /\ Len(sent) \in Nat /\ Len(sent) <= got
        /\ Len(sent) # got => capture = "killed" /\ ~(Len(sent) < safe)
    BY <2>2, WhatIsRead
  <2> QED BY <2>3, <2>4
<1> QED BY <1>1, Invariance, PTL

\* The sleeps of a pass add up to the time between its first chunk and the one
\* about to be sent, and no difference of timestamps wraps around.
THEOREM PacingIsRecorded == Spec => []PacedAsRecorded
<1>1. RecordingInv => PacedAsRecorded
  <2> SUFFICES ASSUME RecordingInv, replay = "write", paced, ~diskError
               PROVE  slept = Timestamp(chunk) - Timestamp(ChunksStart)
    BY DEF PacedAsRecorded
  <2>1. PICK log \in Seq(Nat), place \in [ends -> Nat],
             time \in [ends -> Instants \cup {0}] : LogOf(log, place, time)
    BY DEF RecordingInv, LogInv
  <2>2. /\ chunk = place[Len(sent)] /\ Len(sent) \in ends /\ HeaderOk /\ CaptureEnded
        /\ TypeOK /\ EndsInv /\ Layout(log, place, time) /\ Written(log, place)
        /\ WholeChunk(chunk) /\ Len(sent) # got
        /\ slept = time[Len(sent)] - time[0]
    BY <2>1 DEF RecordingInv, LogOf, Aimed, InHand, SentAsRecorded, StartInv, Slept
  <2>3. /\ ChunksStart = place[0] /\ place[0] <= chunk /\ chunk \in Nat /\ Has(chunk, TsLen)
        /\ Timestamp(chunk) = time[Len(sent)]
        /\ Len(sent) \in Nat /\ Len(sent) <= got
    BY <2>2, WhatIsRead
  <2>4. 0 \in ends /\ got \in Nat /\ Len(file) \in Nat
    BY <2>2, TypeParts, CaptureAssumption DEF EndsInv, CaptureType
  <2>5. 0 # got BY <2>2, <2>3, <2>4
  <2>6. Has(place[0], TsLen)
    <3>1. place[0] \in Nat BY <2>4
    <3> QED BY <3>1, <2>3, <2>4, FormatAssumption DEF Has
  <2>7. Timestamp(place[0]) = time[0] BY <2>2, <2>4, <2>5, <2>6, WhatIsRead
  <2> QED BY <2>2, <2>3, <2>7
<1> QED BY <1>1, Invariance, PTL

\* A replay in a loop ends only when its client has gone, by a failed seek, or in
\* the torn file of a recorder that was killed or could not write.
THEOREM OnlyTornFilesEndLoops == Spec => []LoopGoesOn
<1>1. RecordingInv => LoopGoesOn
  <2> SUFFICES ASSUME RecordingInv PROVE LoopGoesOn OBVIOUS
  <2>1. CauseInv /\ ReplayType BY TypeParts DEF RecordingInv
  <2> QED BY <2>1 DEF LoopGoesOn, CauseInv, ReplayType, Connected
<1> QED BY <1>1, Invariance, PTL
=============================================================================
