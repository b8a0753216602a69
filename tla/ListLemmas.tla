----------------------------- MODULE ListLemmas -----------------------------
(***************************************************************************)
(* What removing an element leaves of a list.  Both proofs about the home   *)
(* server's list of clients, of the thread that changes it and of the one   *)
(* that walks over it, rest on these lemmas.                                *)
(***************************************************************************)
EXTENDS Integers, SequencesExt, SequenceTheorems, TLAPS

(* Removing the element at k moves the later ones up by one position.       *)
LEMMA RemoveAtProperties ==
    ASSUME NEW S, NEW s \in Seq(S), NEW k \in 1..Len(s)
    PROVE  /\ RemoveAt(s, k) \in Seq(S)
           /\ Len(RemoveAt(s, k)) = Len(s) - 1
           /\ \A i \in 1..(k - 1) : RemoveAt(s, k)[i] = s[i]
           /\ \A i \in k..(Len(s) - 1) : RemoveAt(s, k)[i] = s[i + 1]
  <1> DEFINE a == SubSeq(s, 1, k - 1)
             b == SubSeq(s, k + 1, Len(s))
  <1>1. a \in Seq(S) /\ Len(a) = k - 1 /\ \A i \in 1..(k - 1) : a[i] = s[i]
    BY SubSeqProperties
  <1>2. b \in Seq(S) /\ Len(b) = Len(s) - k
        /\ \A i \in 1..(Len(s) - k) : b[i] = s[k + i]
    BY SubSeqProperties
  <1>3. RemoveAt(s, k) = a \o b
    BY DEF RemoveAt
  <1>4. /\ a \o b \in Seq(S)
        /\ Len(a \o b) = Len(a) + Len(b)
        /\ \A i \in 1..(Len(a) + Len(b)) :
              (a \o b)[i] = IF i <= Len(a) THEN a[i] ELSE b[i - Len(a)]
    BY <1>1, <1>2, ConcatProperties
  <1>5. Len(s) \in Nat /\ k \in Nat /\ 1 <= k /\ k <= Len(s)
    OBVIOUS
  <1> HIDE DEF a, b
  <1>6. Len(a) + Len(b) = Len(s) - 1
    BY <1>1, <1>2, <1>5
  <1>7. ASSUME NEW i \in 1..(k - 1) PROVE (a \o b)[i] = s[i]
    <2>1. i \in 1..(Len(a) + Len(b)) /\ i <= Len(a)
      BY <1>1, <1>5, <1>6
    <2> QED
      BY <1>1, <1>4, <2>1
  <1>8. ASSUME NEW i \in k..(Len(s) - 1) PROVE (a \o b)[i] = s[i + 1]
    <2>1. i \in 1..(Len(a) + Len(b)) /\ ~(i <= Len(a))
      BY <1>1, <1>5, <1>6
    <2>2. (a \o b)[i] = b[i - Len(a)]
      BY <1>4, <2>1
    <2>3. i - Len(a) \in 1..(Len(s) - k) /\ k + (i - Len(a)) = i + 1
      BY <1>1, <1>5
    <2> QED
      BY <1>2, <2>2, <2>3
  <1> QED
    BY <1>3, <1>4, <1>6, <1>7, <1>8

(* Appending an element that is not in a list without doubles.               *)
LEMMA AppendOnce ==
    ASSUME NEW S, NEW s \in Seq(S), NEW e \in S,
           \A i, j \in DOMAIN s : s[i] = s[j] => i = j,
           \A i \in DOMAIN s : s[i] # e
    PROVE  LET r == Append(s, e)
           IN  /\ r \in Seq(S)
               /\ \A i, j \in DOMAIN r : r[i] = r[j] => i = j
               /\ \A x : (\E i \in DOMAIN r : r[i] = x) <=>
                             x = e \/ \E i \in DOMAIN s : s[i] = x
               /\ DOMAIN s \subseteq DOMAIN r
               /\ \A i \in DOMAIN s : r[i] = s[i]
  <1> DEFINE r == Append(s, e)
  <1>1. /\ r \in Seq(S) /\ Len(r) = Len(s) + 1 /\ Len(s) \in Nat
        /\ \A i \in 1 .. Len(s) : r[i] = s[i]
        /\ r[Len(s) + 1] = e
    BY AppendProperties
  <1>2. DOMAIN s = 1 .. Len(s) /\ DOMAIN r = 1 .. Len(s) + 1
    BY <1>1
  <1> HIDE DEF r
  <1>3. \A i \in DOMAIN r : i \in DOMAIN s \/ i = Len(s) + 1
    BY <1>1, <1>2
  <1>4. DOMAIN s \subseteq DOMAIN r /\ Len(s) + 1 \in DOMAIN r
    BY <1>1, <1>2
  <1>5. \A i \in DOMAIN s : r[i] = s[i]
    BY <1>1, <1>2
  <1>6. \A i, j \in DOMAIN r : r[i] = r[j] => i = j
    BY <1>1, <1>3, <1>5
  <1>7. \A x : (\E i \in DOMAIN r : r[i] = x) <=>
                   x = e \/ \E i \in DOMAIN s : s[i] = x
    BY <1>1, <1>3, <1>4, <1>5
  <1> QED
    BY <1>1, <1>4, <1>5, <1>6, <1>7 DEF r

(* Removing one element of a list without doubles takes it out and leaves     *)
(* all others.                                                              *)
LEMMA RemoveAtOnce ==
    ASSUME NEW S, NEW s \in Seq(S), NEW k \in 1 .. Len(s),
           \A i, j \in DOMAIN s : s[i] = s[j] => i = j
    PROVE  LET r == RemoveAt(s, k)
           IN  /\ r \in Seq(S)
               /\ \A i, j \in DOMAIN r : r[i] = r[j] => i = j
               /\ \A x : (\E i \in DOMAIN r : r[i] = x) <=>
                             x # s[k] /\ \E i \in DOMAIN s : s[i] = x
  <1> DEFINE r == RemoveAt(s, k)
             old(i) == IF i < k THEN i ELSE i + 1
  <1>1. /\ r \in Seq(S) /\ Len(r) = Len(s) - 1
        /\ \A i \in 1 .. (k - 1) : r[i] = s[i]
        /\ \A i \in k .. (Len(s) - 1) : r[i] = s[i + 1]
    BY RemoveAtProperties
  <1>2. Len(s) \in Nat /\ DOMAIN s = 1 .. Len(s) /\ DOMAIN r = 1 .. (Len(s) - 1)
    BY <1>1
  <1> HIDE DEF r
  <1>3. \A i \in DOMAIN r : r[i] = s[old(i)] /\ old(i) \in DOMAIN s /\ old(i) # k
    BY <1>1, <1>2
  <1>4. \A i, j \in DOMAIN r : old(i) = old(j) => i = j
    BY <1>2
  <1>5. \A i \in DOMAIN s : i # k => \E j \in DOMAIN r : old(j) = i
    <2> SUFFICES ASSUME NEW i \in DOMAIN s, i # k
                 PROVE  \E j \in DOMAIN r : old(j) = i
      OBVIOUS
    <2>1. CASE i < k
      <3>1. i \in DOMAIN r /\ old(i) = i
        BY <1>2, <2>1
      <3> QED
        BY <3>1
    <2>2. CASE i > k
      <3>1. i - 1 \in DOMAIN r /\ old(i - 1) = i
        BY <1>2, <2>2
      <3> QED
        BY <3>1
    <2> QED
      BY <1>2, <2>1, <2>2
  <1>6. k \in DOMAIN s
    BY <1>2
  <1> HIDE DEF old
  <1>7. \A i, j \in DOMAIN r : r[i] = r[j] => i = j
    BY <1>3, <1>4
  <1>8. \A x : (\E i \in DOMAIN r : r[i] = x) <=>
                   x # s[k] /\ \E i \in DOMAIN s : s[i] = x
    BY <1>3, <1>5, <1>6
  <1> QED
    BY <1>1, <1>7, <1>8 DEF r
=============================================================================
