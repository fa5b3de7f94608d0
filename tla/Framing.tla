------------------------------ MODULE Framing ------------------------------
(***************************************************************************)
(* Streams of bytes that consist of whole frames of one size.  Commands    *)
(* reach a control thread this way (src/src/control.rs, read_exact of      *)
(* COMMAND_HEADER_SIZE bytes), and the reader stays in step only as long   *)
(* as its reads begin at the borders between frames.                       *)
(***************************************************************************)
EXTENDS Integers, Sequences, TLAPS

\* A frame of F begins behind the first b bytes of s.
FrameAt(s, b, size, F) == \E f \in F : \A i \in 1..size : s[b + i] = f[i]

\* s consists of frames of F: it begins at a border between frames, and behind
\* each border but the last there is a frame and then the next border.
Framed(s, size, F) ==
    \E B \in SUBSET (0..Len(s)) :
        /\ 0 \in B
        /\ \A b \in B : b < Len(s) => b + size \in B /\ FrameAt(s, b, size, F)

\* The bytes of two parts put together.
LEMMA ConcatElements ==
    ASSUME NEW S, NEW s \in Seq(S), NEW t \in Seq(S)
    PROVE  /\ s \o t \in Seq(S)
           /\ Len(s \o t) = Len(s) + Len(t)
           /\ \A i \in 1..Len(s) : (s \o t)[i] = s[i]
           /\ \A i \in 1..Len(t) : (s \o t)[Len(s) + i] = t[i]
OBVIOUS

\* Sequences of the same length and elements are equal.
LEMMA SameElements ==
    ASSUME NEW S, NEW s \in Seq(S), NEW t \in Seq(S), Len(s) = Len(t),
           \A i \in 1..Len(s) : s[i] = t[i]
    PROVE  s = t
OBVIOUS

\* The bytes of a part.
LEMMA PartElements ==
    ASSUME NEW S, NEW s \in Seq(S), NEW m \in Nat, NEW n \in Nat, m <= n, n <= Len(s)
    PROVE  /\ SubSeq(s, m + 1, n) \in Seq(S)
           /\ Len(SubSeq(s, m + 1, n)) = n - m
           /\ \A i \in 1..(n - m) : SubSeq(s, m + 1, n)[i] = s[m + i]
OBVIOUS

\* A sequence that is cut in two and put together is what it was.
LEMMA CutAndJoin ==
    ASSUME NEW S, NEW s \in Seq(S), NEW n \in 0..Len(s)
    PROVE  SubSeq(s, 1, n) \o SubSeq(s, n + 1, Len(s)) = s
<1> DEFINE a == SubSeq(s, 1, n)
           c == SubSeq(s, n + 1, Len(s))
<1>1. Len(s) \in Nat /\ n \in Nat /\ n <= Len(s)
  OBVIOUS
<1>2. a \in Seq(S) /\ Len(a) = n /\ \A i \in 1..n : a[i] = s[i]
  BY <1>1
<1>3. /\ c \in Seq(S) /\ Len(c) = Len(s) - n
      /\ \A i \in 1..(Len(s) - n) : c[i] = s[n + i]
  BY <1>1, PartElements
<1> HIDE DEF a, c
<1>4. /\ a \o c \in Seq(S) /\ Len(a \o c) = Len(s)
      /\ \A i \in 1..n : (a \o c)[i] = s[i]
      /\ \A i \in 1..(Len(s) - n) : (a \o c)[n + i] = s[n + i]
  BY <1>1, <1>2, <1>3, ConcatElements
<1>5. ASSUME NEW i \in 1..Len(s) PROVE (a \o c)[i] = s[i]
  <2>1. CASE i <= n
    BY <2>1, <1>1, <1>4
  <2>2. CASE i > n
    <3>1. i - n \in 1..(Len(s) - n) /\ n + (i - n) = i
      BY <2>2, <1>1
    <3> QED
      BY <3>1, <1>4
  <2>3. i <= n \/ i > n
    BY <1>1
  <2> QED
    BY <2>1, <2>2, <2>3, Zenon
<1>6. a \o c = s
  BY <1>4, <1>5, SameElements
<1> QED
  BY <1>6 DEF a, c

\* Putting together is associative.
LEMMA JoinAssociative ==
    ASSUME NEW S, NEW s \in Seq(S), NEW t \in Seq(S), NEW u \in Seq(S)
    PROVE  (s \o t) \o u = s \o (t \o u)
OBVIOUS

\* Two parts that were put together are cut apart where they meet.
LEMMA JoinAndCut ==
    ASSUME NEW S, NEW s \in Seq(S), NEW t \in Seq(S), NEW n, n = Len(s)
    PROVE  /\ s \o t \in Seq(S)
           /\ SubSeq(s \o t, 1, n) = s
           /\ SubSeq(s \o t, n + 1, Len(s \o t)) = t
OBVIOUS

\* Nothing is a stream of no frames.
LEMMA FramedEmpty ==
    ASSUME NEW size, NEW F
    PROVE  Framed(<< >>, size, F)
<1>1. /\ {0} \in SUBSET (0..Len(<< >>))
      /\ 0 \in {0} /\ \A b \in {0} : ~(b < Len(<< >>))
  OBVIOUS
<1> QED
  BY <1>1, Zenon DEF Framed

\* A stream of frames is one of more kinds of frames.
LEMMA FramedMore ==
    ASSUME NEW s, NEW size, NEW F, NEW G, F \subseteq G, Framed(s, size, F)
    PROVE  Framed(s, size, G)
BY Zenon DEF Framed, FrameAt

\* A frame sent makes a longer stream of frames.
LEMMA FramedAppend ==
    ASSUME NEW S, NEW size \in Nat \ {0}, NEW F, NEW s \in Seq(S),
           Framed(s, size, F), NEW f \in F, f \in Seq(S), Len(f) = size
    PROVE  Framed(s \o f, size, F)
<1> DEFINE L == Len(s)
           t == s \o f
<1>1. L \in Nat /\ size \in Nat \ {0}
  OBVIOUS
<1>2. /\ Len(t) = L + size
      /\ \A i \in 1..L : t[i] = s[i]
      /\ \A i \in 1..size : t[L + i] = f[i]
  <2>1. f \in Seq(S) /\ Len(f) = size
    OBVIOUS
  <2>2. /\ Len(t) = L + Len(f)
        /\ \A i \in 1..L : t[i] = s[i]
        /\ \A i \in 1..Len(f) : t[L + i] = f[i]
    BY <2>1
  <2> HIDE DEF t, L
  <2> QED
    BY <2>1, <2>2
<1> HIDE DEF t
<1>3. PICK B \in SUBSET (0..L) :
        0 \in B /\ \A b \in B : b < L => b + size \in B /\ FrameAt(s, b, size, F)
  BY DEF Framed
<1> HIDE DEF L
<1> DEFINE C == B \cup {L + size}
<1>4. C \in SUBSET (0..Len(t)) /\ 0 \in C
  <2>1. 0 \in B
    BY <1>3, Zenon
  <2>2. L + size \in 0..Len(t) /\ 0..L \subseteq 0..Len(t)
    BY <1>1, <1>2
  <2> QED
    BY <2>1, <2>2, Zenon
<1>5. ASSUME NEW b \in C, b < Len(t) PROVE b + size \in C /\ FrameAt(t, b, size, F)
  <2>1. b \in B /\ b \in 0..L
    <3>1. b # L + size
      BY <1>1, <1>2, <1>5
    <3> QED
      BY <3>1, Zenon
  <2>2. CASE b = L
    BY <2>2, <1>2 DEF FrameAt
  <2>3. CASE b < L
    <3>1. b + size \in B /\ FrameAt(s, b, size, F)
      BY <2>1, <2>3, <1>3, Zenon
    <3>2. b + size \in 0..L
      BY <3>1, Zenon
    <3>3. PICK g \in F : \A i \in 1..size : s[b + i] = g[i]
      BY <3>1 DEF FrameAt
    <3>4. ASSUME NEW i \in 1..size PROVE t[b + i] = g[i]
      <4>1. b + i \in 1..L
        BY <3>2, <2>1, <1>1
      <4> QED
        BY <4>1, <3>3, <1>2
    <3> QED
      BY <3>1, <3>4, Zenon DEF FrameAt
  <2> QED
    BY <2>1, <2>2, <2>3, <1>1
<1>6. Framed(t, size, F)
  BY <1>4, <1>5, Zenon DEF Framed
<1> QED
  BY <1>6 DEF t

\* A read at the beginning of a stream of frames returns a frame and leaves a
\* stream of frames; a stream that is not empty is long enough for it.
LEMMA FramedRead ==
    ASSUME NEW S, NEW size \in Nat \ {0}, NEW F, NEW s \in Seq(S),
           \A f \in F : f \in Seq(S) /\ Len(f) = size,
           Framed(s, size, F), s # << >>
    PROVE  /\ Len(s) >= size
           /\ SubSeq(s, 1, size) \in F
           /\ Framed(SubSeq(s, size + 1, Len(s)), size, F)
<1> DEFINE L == Len(s)
           t == SubSeq(s, size + 1, L)
<1>1. L \in Nat \ {0}
  OBVIOUS
<1>2. PICK B \in SUBSET (0..L) :
        0 \in B /\ \A b \in B : b < L => b + size \in B /\ FrameAt(s, b, size, F)
  BY DEF Framed
<1>3. size \in B /\ FrameAt(s, 0, size, F)
  <2>1. 0 < L /\ 0 + size = size
    BY <1>1
  <2> QED
    BY <2>1, <1>2, Zenon
<1>4. size <= L
  <2>1. size \in 0..L
    BY <1>3, Zenon
  <2> QED
    BY <2>1
<1>5. SubSeq(s, 1, size) \in F
  <2>1. PICK f \in F : \A i \in 1..size : s[0 + i] = f[i]
    BY <1>3 DEF FrameAt
  <2>2. f \in Seq(S) /\ Len(f) = size
    BY <2>1
  <2>3. /\ SubSeq(s, 1, size) \in Seq(S) /\ Len(SubSeq(s, 1, size)) = size
        /\ \A i \in 1..size : SubSeq(s, 1, size)[i] = s[i]
    BY <1>4
  <2>4. \A i \in 1..size : SubSeq(s, 1, size)[i] = f[i]
    BY <2>1, <2>3
  <2>5. SubSeq(s, 1, size) = f
    BY <2>2, <2>3, <2>4, SameElements
  <2> QED
    BY <2>5
<1>6. Len(t) = L - size /\ \A i \in 1..(L - size) : t[i] = s[size + i]
  BY <1>1, <1>4, PartElements
<1> HIDE DEF t, L
<1> DEFINE C == {b \in 0..(L - size) : b + size \in B}
<1>7. C \in SUBSET (0..Len(t)) /\ 0 \in C
  <2>1. 0 \in 0..(L - size) /\ 0 + size = size /\ Len(t) = L - size
    BY <1>1, <1>4, <1>6
  <2> QED
    BY <2>1, <1>3, Zenon
<1>8. ASSUME NEW b \in C, b < Len(t) PROVE b + size \in C /\ FrameAt(t, b, size, F)
  <2>1. b \in 0..(L - size) /\ b + size \in B
    BY Zenon
  <2>2. b + size < L
    BY <2>1, <1>1, <1>4, <1>6, <1>8
  <2>3. (b + size) + size \in B /\ FrameAt(s, b + size, size, F)
    BY <2>1, <2>2, <1>2, Zenon
  <2>4. (b + size) + size \in 0..L
    BY <2>3, Zenon
  <2>5. b + size \in 0..(L - size)
    BY <2>1, <2>4, <1>1, <1>4
  <2>6. b + size \in C
    BY <2>3, <2>5, Zenon
  <2>7. PICK g \in F : \A i \in 1..size : s[b + size + i] = g[i]
    BY <2>3 DEF FrameAt
  <2>8. ASSUME NEW i \in 1..size PROVE t[b + i] = g[i]
    <3>1. b + i \in 1..(L - size) /\ size + (b + i) = b + size + i
      BY <2>1, <2>4, <1>1, <1>4
    <3> QED
      BY <3>1, <2>7, <1>6
  <2> QED
    BY <2>6, <2>8, Zenon DEF FrameAt
<1>9. Framed(t, size, F)
  BY <1>7, <1>8, Zenon DEF Framed
<1> QED
  BY <1>4, <1>5, <1>9 DEF t, L
=============================================================================
