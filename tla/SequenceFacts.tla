---------------------------- MODULE SequenceFacts ---------------------------
(* Facts about sequences that are put together or cut, and about sequences   *)
(* without repetition, for the proofs about queues and lists.                *)
EXTENDS Integers, Sequences, Functions, TLAPS

(* Nothing is in a sequence twice.                                           *)
NoRepeats(s) == \A i, j \in 1 .. Len(s) : s[i] = s[j] => i = j

(* Two sequences are the same if they agree at every place.                  *)
LEMMA SameSequence ==
  ASSUME NEW S, NEW s \in Seq(S), NEW t \in Seq(S), Len(s) = Len(t),
         \A i \in 1 .. Len(s) : s[i] = t[i]
  PROVE  s = t
  OBVIOUS

(* What is at a place of a sequence is an element.                           *)
LEMMA AtPlace ==
  ASSUME NEW S, NEW s \in Seq(S), NEW i \in 1 .. Len(s)
  PROVE  s[i] \in S
  OBVIOUS

(* What is left when the head is taken away.                                 *)
LEMMA HeadAndTail ==
  ASSUME NEW S, NEW s \in Seq(S), s # <<>>
  PROVE  /\ Head(s) \in S /\ Head(s) = s[1] /\ Tail(s) \in Seq(S)
         /\ Len(s) \in Nat \ {0} /\ Len(Tail(s)) = Len(s) - 1
         /\ \A i \in 1 .. Len(Tail(s)) : Tail(s)[i] = s[i + 1]
  OBVIOUS

(* Something appended to the second of two sequences goes to the end of      *)
(* both, ...                                                                 *)
LEMMA AppendRight ==
  ASSUME NEW S, NEW s \in Seq(S), NEW t \in Seq(S), NEW e \in S
  PROVE  s \o Append(t, e) = Append(s \o t, e)
<1> DEFINE x == s \o Append(t, e)
           y == Append(s \o t, e)
<1>1. x \in Seq(S) /\ y \in Seq(S) /\ Len(x) = Len(y)
  OBVIOUS
<1>2. \A i \in 1..Len(x) : x[i] = y[i]
  OBVIOUS
<1> QED BY <1>1, <1>2, SameSequence

(* ... what moves from the head of the second to the end of the first stays  *)
(* in its place, ...                                                         *)
LEMMA Moved ==
  ASSUME NEW S, NEW s \in Seq(S), NEW t \in Seq(S), t # <<>>
  PROVE  Append(s, Head(t)) \o Tail(t) = s \o t
<1> DEFINE x == Append(s, Head(t)) \o Tail(t)
           y == s \o t
<1>1. /\ Head(t) \in S /\ Tail(t) \in Seq(S) /\ Len(t) \in Nat \ {0}
      /\ Len(Tail(t)) = Len(t) - 1
      /\ \A i \in 1..Len(Tail(t)) : Tail(t)[i] = t[i + 1]
  BY HeadAndTail
<1>2. x \in Seq(S) /\ y \in Seq(S) /\ Len(x) = Len(y)
  BY <1>1
<1>3. \A i \in 1..Len(x) : x[i] = y[i]
  BY <1>1
<1> QED BY <1>2, <1>3, SameSequence

(* ... taking the head of the first takes it from both, ...                  *)
LEMMA TailLeft ==
  ASSUME NEW S, NEW s \in Seq(S), NEW t \in Seq(S), s # <<>>
  PROVE  /\ s \o t # <<>> /\ Head(s \o t) = Head(s)
         /\ Tail(s) \o t = Tail(s \o t)
<1> DEFINE x == Tail(s) \o t
           y == Tail(s \o t)
<1>1. /\ Tail(s) \in Seq(S) /\ Len(s) \in Nat \ {0}
      /\ Len(Tail(s)) = Len(s) - 1
      /\ \A i \in 1..Len(Tail(s)) : Tail(s)[i] = s[i + 1]
  BY HeadAndTail
<1>2. /\ s \o t \in Seq(S) /\ Len(s \o t) = Len(s) + Len(t) /\ s \o t # <<>>
      /\ (s \o t)[1] = s[1]
  BY <1>1
<1>3. /\ y \in Seq(S) /\ Len(y) = Len(s) + Len(t) - 1
      /\ \A i \in 1..Len(y) : y[i] = (s \o t)[i + 1]
  BY <1>2, HeadAndTail
<1>4. x \in Seq(S) /\ Len(x) = Len(y)
  BY <1>1, <1>3
<1>5. \A i \in 1..Len(x) : x[i] = y[i]
  BY <1>1, <1>3, <1>4
<1>6. x = y
  BY <1>3, <1>4, <1>5, SameSequence
<1> QED BY <1>2, <1>6

(* ... and head and tail do not mind what is appended.                       *)
LEMMA TailAppend ==
  ASSUME NEW S, NEW s \in Seq(S), NEW e \in S, s # <<>>
  PROVE  /\ Append(s, e) # <<>> /\ Head(Append(s, e)) = Head(s)
         /\ Tail(Append(s, e)) = Append(Tail(s), e)
<1> DEFINE x == Tail(Append(s, e))
           y == Append(Tail(s), e)
<1>1. /\ Tail(s) \in Seq(S) /\ Len(s) \in Nat \ {0}
      /\ Len(Tail(s)) = Len(s) - 1
      /\ \A i \in 1..Len(Tail(s)) : Tail(s)[i] = s[i + 1]
  BY HeadAndTail
<1>2. Append(s, e) \in Seq(S) /\ Append(s, e) # <<>> /\ Len(Append(s, e)) = Len(s) + 1
  OBVIOUS
<1>3. /\ x \in Seq(S) /\ Len(x) = Len(s)
      /\ \A i \in 1..Len(x) : x[i] = Append(s, e)[i + 1]
  BY <1>1, <1>2, HeadAndTail
<1>4. y \in Seq(S) /\ Len(y) = Len(s)
  BY <1>1
<1> HIDE DEF x, y
<1>5. ASSUME NEW i \in 1..Len(x) PROVE x[i] = y[i]
  <2>1. x[i] = Append(s, e)[i + 1] /\ i \in 1..Len(s)
    BY <1>3
  <2>2. CASE i = Len(s)
    BY <1>1, <2>1, <2>2 DEF y
  <2>3. CASE i # Len(s)
    <3>1. i \in 1..Len(Tail(s)) /\ i + 1 \in 1..Len(s)
      BY <1>1, <2>1, <2>3
    <3>2. y[i] = Tail(s)[i]
      BY <1>1, <3>1 DEF y
    <3>3. Append(s, e)[i + 1] = s[i + 1]
      BY <3>1
    <3> QED BY <1>1, <2>1, <3>1, <3>2, <3>3
  <2> QED BY <2>2, <2>3
<1>6. x = y
  BY <1>3, <1>4, <1>5, SameSequence
<1> QED BY <1>1, <1>2, <1>6 DEF x, y

-----------------------------------------------------------------------------
(* An array s of length n that is t followed by r: what is in s is in one of *)
(* the two, and nothing is in s twice exactly if that holds of both and they *)
(* have nothing in common.                                                   *)
Image(s, n) == {s[i] : i \in 1 .. n}
Once(s, n) == \A i, j \in 1 .. n : s[i] = s[j] => i = j
Splits(s, n, t, k, r) ==
  (\A i \in 1 .. k : t[i] = s[i]) /\ (\A i \in 1 .. n - k : r[i] = s[k + i])

(* The elements of a sequence are those of its two parts, and none repeats   *)
(* exactly when none repeats in a part and no element is in both.            *)
LEMMA Parts ==
  ASSUME NEW n \in Nat, NEW k \in 0 .. n, NEW s, NEW t, NEW r, Splits(s, n, t, k, r)
  PROVE  /\ Image(s, n) = Image(t, k) \cup Image(r, n - k)
         /\ Once(s, n) <=> /\ Once(t, k) /\ Once(r, n - k)
                           /\ Image(t, k) \cap Image(r, n - k) = {}
<1> USE DEF Splits
<1>1. \A i \in 1 .. n : i > k => i - k \in 1 .. n - k /\ r[i - k] = s[i]
  <2> TAKE i \in 1 .. n
  <2> HAVE i > k
  <2>1. i - k \in 1 .. n - k /\ k + (i - k) = i
    OBVIOUS
  <2> QED BY <2>1
<1>2. /\ \A i \in 1 .. n : i \in 1 .. k \/ i > k
      /\ \A i \in 1 .. k : i \in 1 .. n
      /\ \A i \in 1 .. n - k : k + i \in 1 .. n /\ k + i > k
  OBVIOUS
<1>3. Image(s, n) = Image(t, k) \cup Image(r, n - k)
  BY <1>1, <1>2 DEF Image
<1>4. ASSUME Once(s, n)
      PROVE  Once(t, k) /\ Once(r, n - k) /\ Image(t, k) \cap Image(r, n - k) = {}
  <2>1. Once(t, k)
    BY <1>2, <1>4 DEF Once
  <2>2. Once(r, n - k)
    <3> SUFFICES ASSUME NEW i \in 1 .. n - k, NEW j \in 1 .. n - k, r[i] = r[j] PROVE i = j
      BY DEF Once
    <3>1. k + i = k + j
      BY <1>2, <1>4 DEF Once
    <3> QED BY <3>1
  <2>3. \A i \in 1 .. k, j \in 1 .. n - k : t[i] # r[j]
    <3> SUFFICES ASSUME NEW i \in 1 .. k, NEW j \in 1 .. n - k, t[i] = r[j] PROVE FALSE
      OBVIOUS
    <3>1. i = k + j
      BY <1>2, <1>4 DEF Once
    <3> QED BY <3>1
  <2> QED BY <2>1, <2>2, <2>3 DEF Image
<1>5. ASSUME Once(t, k), Once(r, n - k), Image(t, k) \cap Image(r, n - k) = {}
      PROVE  Once(s, n)
  <2>1. \A i \in 1 .. k, j \in 1 .. n - k : t[i] # r[j]
    BY <1>5 DEF Image
  <2>2. ASSUME NEW i \in 1 .. n, NEW j \in 1 .. n, s[i] = s[j] PROVE i = j
    <3>1. CASE i \in 1 .. k /\ j \in 1 .. k
      BY <1>5, <2>2, <3>1 DEF Once
    <3>2. CASE i > k /\ j > k
      <4>1. i - k = j - k
        BY <1>1, <1>5, <2>2, <3>2 DEF Once
      <4> QED BY <4>1
    <3>3. CASE i \in 1 .. k /\ j > k
      BY <1>1, <2>1, <2>2, <3>3
    <3>4. CASE i > k /\ j \in 1 .. k
      BY <1>1, <2>1, <2>2, <3>4
    <3> QED BY <1>2, <3>1, <3>2, <3>3, <3>4
  <2> QED BY <2>2 DEF Once
<1> QED BY <1>3, <1>4, <1>5, Zenon

(* What is in a sequence.                                                    *)
LEMMA InRange ==
  ASSUME NEW S, NEW s \in Seq(S)
  PROVE  /\ Range(s) = Image(s, Len(s)) /\ Len(s) \in Nat /\ Range(s) \subseteq S
         /\ NoRepeats(s) <=> Once(s, Len(s))
  BY DEF Range, Image, Once, NoRepeats

(* A sequence is cut in two: each element is in one part.                    *)
LEMMA Cut ==
  ASSUME NEW S, NEW s \in Seq(S), NEW k \in 0 .. Len(s), NoRepeats(s)
  PROVE  LET t == SubSeq(s, 1, k)
             r == SubSeq(s, k + 1, Len(s))
         IN  /\ t \in Seq(S) /\ Len(t) = k /\ NoRepeats(t)
             /\ r \in Seq(S) /\ Len(r) = Len(s) - k /\ NoRepeats(r)
             /\ Range(t) \cup Range(r) = Range(s) /\ Range(t) \cap Range(r) = {}
<1> DEFINE t == SubSeq(s, 1, k)
           r == SubSeq(s, k + 1, Len(s))
<1>1. Len(s) \in Nat /\ k \in 0 .. Len(s) /\ \A i \in 1 .. Len(s) : s[i] \in S
  OBVIOUS
<1>2. t \in Seq(S) /\ Len(t) = k /\ \A i \in 1 .. k : t[i] = s[i]
  <2>1. \A i \in 1 .. k : s[i] \in S
    BY <1>1
  <2> QED BY <1>1, <2>1
<1>3. r \in Seq(S) /\ Len(r) = Len(s) - k /\ \A i \in 1 .. Len(s) - k : r[i] = s[k + i]
  <2>1. \A i \in k + 1 .. Len(s) : s[i] \in S
    BY <1>1
  <2>2. /\ r \in Seq(S) /\ Len(r) = IF k + 1 <= Len(s) THEN Len(s) - (k + 1) + 1 ELSE 0
        /\ \A i \in 1 .. Len(s) - (k + 1) + 1 : r[i] = s[k + 1 + i - 1]
    BY <1>1, <2>1
  <2> QED BY <1>1, <2>2
<1> HIDE DEF t, r
<1>4. /\ Range(s) = Image(s, Len(s)) /\ Once(s, Len(s))
      /\ Range(t) = Image(t, k) /\ (NoRepeats(t) <=> Once(t, k))
      /\ Range(r) = Image(r, Len(s) - k) /\ (NoRepeats(r) <=> Once(r, Len(s) - k))
  BY <1>2, <1>3, InRange, Zenon
<1>p. Splits(s, Len(s), t, k, r)
  BY <1>2, <1>3 DEF Splits
<1>5. /\ Image(s, Len(s)) = Image(t, k) \cup Image(r, Len(s) - k)
      /\ Once(s, Len(s)) <=> /\ Once(t, k) /\ Once(r, Len(s) - k)
                              /\ Image(t, k) \cap Image(r, Len(s) - k) = {}
  BY <1>1, <1>p, Parts
<1>6. /\ t \in Seq(S) /\ Len(t) = k /\ NoRepeats(t)
      /\ r \in Seq(S) /\ Len(r) = Len(s) - k /\ NoRepeats(r)
      /\ Range(t) \cup Range(r) = Range(s) /\ Range(t) \cap Range(r) = {}
  BY <1>2, <1>3, <1>4, <1>5, Zenon
<1> QED BY <1>6, Zenon DEF t, r

(* Two sequences with nothing in common are put together.                    *)
LEMMA Joined ==
  ASSUME NEW S, NEW s \in Seq(S), NEW t \in Seq(S), NoRepeats(s), NoRepeats(t),
         Range(s) \cap Range(t) = {}
  PROVE  /\ s \o t \in Seq(S) /\ Len(s \o t) = Len(s) + Len(t) /\ NoRepeats(s \o t)
         /\ Range(s \o t) = Range(s) \cup Range(t)
<1> DEFINE w == s \o t
           n == Len(s) + Len(t)
           k == Len(s)
<1>1. /\ w \in Seq(S) /\ Len(w) = n /\ n \in Nat /\ k \in 0 .. n /\ Len(t) = n - k
      /\ \A i \in 1 .. k : s[i] = w[i]
      /\ \A i \in 1 .. n - k : t[i] = w[k + i]
  OBVIOUS
<1>2. /\ Range(s) = Image(s, k) /\ Once(s, k) /\ Range(t) = Image(t, Len(t)) /\ Once(t, Len(t))
  BY InRange
<1> HIDE DEF w, n, k
<1>3. Range(w) = Image(w, n) /\ (NoRepeats(w) <=> Once(w, n))
  BY <1>1, InRange
<1>p. Splits(w, n, s, k, t)
  BY <1>1 DEF Splits
<1>4. /\ Image(w, n) = Image(s, k) \cup Image(t, n - k)
      /\ Once(w, n) <=> Once(s, k) /\ Once(t, n - k) /\ Image(s, k) \cap Image(t, n - k) = {}
  BY <1>1, <1>p, Parts
<1>5. w \in Seq(S) /\ Len(w) = n /\ NoRepeats(w) /\ Range(w) = Range(s) \cup Range(t)
  BY <1>1, <1>2, <1>3, <1>4, Zenon
<1> QED BY <1>5, Zenon DEF w, n, k

(* The first element goes to the end.                                        *)
LEMMA Rotated ==
  ASSUME NEW S, NEW s \in Seq(S), s # <<>>, NoRepeats(s)
  PROVE  LET w == Append(Tail(s), Head(s))
         IN  w \in Seq(S) /\ Len(w) = Len(s) /\ NoRepeats(w) /\ Range(w) = Range(s)
<1> DEFINE w == Append(Tail(s), Head(s))
           r == Tail(s)
           h == [i \in 1 .. 1 |-> Head(s)]
           n == Len(s)
<1>1. /\ Head(s) \in S /\ Head(s) = s[1] /\ r \in Seq(S) /\ n \in Nat /\ 1 \in 0 .. n
      /\ n - 1 \in 0 .. n /\ n - (n - 1) = 1
      /\ Len(r) = n - 1 /\ \A i \in 1 .. n - 1 : r[i] = s[1 + i]
  BY HeadAndTail
<1>2. /\ w \in Seq(S) /\ Len(w) = n /\ w[n] = Head(s)
      /\ \A i \in 1 .. n - 1 : r[i] = w[i]
  BY <1>1
<1>3. Splits(s, n, h, 1, r)
  BY <1>1 DEF Splits
<1>4. Splits(w, n, r, n - 1, h)
  <2>1. \A i \in 1 .. n - (n - 1) : h[i] = Head(s) /\ n - 1 + i = n
    BY <1>1
  <2> QED BY <1>2, <2>1 DEF Splits
<1>5. Range(s) = Image(s, n) /\ Once(s, n)
  BY InRange
<1>6. Range(w) = Image(w, n) /\ (NoRepeats(w) <=> Once(w, n))
  BY <1>2, InRange, Zenon
<1> HIDE DEF w, r, h, n
<1>7. /\ Image(s, n) = Image(h, 1) \cup Image(r, n - 1)
      /\ Once(h, 1) /\ Once(r, n - 1) /\ Image(h, 1) \cap Image(r, n - 1) = {}
  BY <1>1, <1>3, <1>5, Parts
<1>8. /\ Image(w, n) = Image(r, n - 1) \cup Image(h, 1)
      /\ Once(w, n) <=> Once(r, n - 1) /\ Once(h, 1) /\ Image(r, n - 1) \cap Image(h, 1) = {}
  <2>1. /\ Image(w, n) = Image(r, n - 1) \cup Image(h, n - (n - 1))
        /\ Once(w, n) <=> /\ Once(r, n - 1) /\ Once(h, n - (n - 1))
                          /\ Image(r, n - 1) \cap Image(h, n - (n - 1)) = {}
    BY <1>1, <1>4, Parts
  <2> QED BY <1>1, <2>1
<1>9. w \in Seq(S) /\ Len(w) = n /\ NoRepeats(w) /\ Range(w) = Range(s)
  BY <1>2, <1>5, <1>6, <1>7, <1>8, Zenon
<1> QED BY <1>9, Zenon DEF w, n

=============================================================================
