--------------------------- MODULE SequenceLemmas ---------------------------
(* What the proofs about the agent need to know of sequences and of numbers: *)
(* how a property climbs from each element to the next, what is put together *)
(* of a sequence of sequences, and what is at which place of it.             *)
EXTENDS SequencesExt, Integers, FiniteSetTheorems, SequenceTheorems, WellFoundedInduction, TLAPS

(* A set of numbers that is not empty has a least one: the first place where *)
(* a text occurs is chosen so (tool/edit.ts:637).                            *)
LEMMA LeastOf ==
  ASSUME NEW S \in SUBSET Nat, S # {}
  PROVE  \E k \in S : \A m \in S : k <= m
<1> DEFINE R == {ss \in Nat \X Nat : ss[1] < ss[2]}
<1>1. IsWellFoundedOn(R, Nat)
  BY NatLessThanWellFounded, Zenon DEF OpToRel
<1>2. PICK k \in S : \A m \in S : <<m, k>> \notin R
  <2> HIDE DEF R
  <2> QED BY <1>1, WFMin
<1>3. \A m \in S : m < k => <<m, k>> \in R
  OBVIOUS
<1>4. \A m \in S : ~(m < k)
  <2> HIDE DEF R
  <2> QED BY <1>2, <1>3
<1> QED BY <1>4

(* What holds at the start, and after every part if before it, holds up to   *)
(* the end: messages, parts and tokens are worked on one after the other     *)
(* (session/message-v2.ts:421-542, tool/edit.ts:364).                        *)
LEMMA UpwardsTo ==
  ASSUME NEW n \in Nat, NEW S, 0 \in S, \A i \in 1..n : i - 1 \in S => i \in S
  PROVE  \A i \in 0..n : i \in S
<1> DEFINE T == {k \in 0..n : k \notin S}
<1>1. SUFFICES ASSUME T # {} PROVE FALSE
  OBVIOUS
<1>2. PICK k \in T : \A m \in T : k <= m
  <2>1. T \in SUBSET Nat
    OBVIOUS
  <2> HIDE DEF T
  <2> QED BY <1>1, <2>1, LeastOf
<1>3. k \in 1..n /\ k - 1 \notin T
  BY <1>2
<1>4. k - 1 \in S
  BY <1>3
<1> QED BY <1>2, <1>3, <1>4

\* What is put together of the first sequences.
FlatRule(seqs, n, f) ==
  f = [i \in 1..n |-> IF i = 1 THEN seqs[i] ELSE f[i - 1] \o seqs[i]]

(* There is a function that tells what is put together of the first          *)
(* sequences (session/message-v2.ts:421-542).                                *)
LEMMA FlatExists ==
  ASSUME NEW seqs, NEW n \in Nat
  PROVE  \E f : FlatRule(seqs, n, f)
<1> DEFINE S == {k \in Nat : \E f : FlatRule(seqs, k, f)}
<1>1. 0 \in S
  <2> DEFINE f == [i \in 1..0 |-> <<>>]
  <2>1. f = [i \in 1..0 |-> IF i = 1 THEN seqs[i] ELSE f[i - 1] \o seqs[i]]
    OBVIOUS
  <2>2. FlatRule(seqs, 0, f)
    BY <2>1 DEF FlatRule
  <2> HIDE DEF f
  <2> QED BY <2>2
<1>2. ASSUME NEW k \in 1..n, k - 1 \in S PROVE k \in S
  <2>1. PICK f : FlatRule(seqs, k - 1, f)
    BY <1>2
  <2> DEFINE g == [i \in 1..k |-> IF i < k THEN f[i] ELSE IF k = 1 THEN seqs[k] ELSE f[k - 1] \o seqs[k]]
  <2>2. \A i \in 1..(k - 1) : f[i] = IF i = 1 THEN seqs[i] ELSE f[i - 1] \o seqs[i]
    BY <2>1 DEF FlatRule
  <2>3. \A i \in 1..k : g[i] = IF i = 1 THEN seqs[i] ELSE g[i - 1] \o seqs[i]
    <3> TAKE i \in 1..k
    <3>1. CASE i = k /\ k = 1
      BY <3>1
    <3>2. CASE i = k /\ k # 1
      <4>1. k - 1 \in 1..k /\ k - 1 < k /\ ~(k < k)
        BY <3>2
      <4>2. g[k - 1] = f[k - 1] /\ g[k] = f[k - 1] \o seqs[k]
        BY <4>1, <3>2
      <4> QED BY <3>2, <4>2
    <3>3. CASE i # k
      BY <3>3, <2>2
    <3> QED BY <3>1, <3>2, <3>3
  <2>4. g = [i \in 1..k |-> IF i = 1 THEN seqs[i] ELSE g[i - 1] \o seqs[i]]
    BY <2>3
  <2>5. FlatRule(seqs, k, g)
    BY <2>4 DEF FlatRule
  <2> HIDE DEF g
  <2> QED BY <2>5
<1>3. n \in S
  <2> HIDE DEF S
  <2> QED BY <1>1, <1>2, UpwardsTo
<1> QED BY <1>3

\* The sequences put together.
Joins(seqs, n, t) == \E f : FlatRule(seqs, n, f) /\ t = IF n = 0 THEN <<>> ELSE f[n]

(* A sequence of sequences put together is the last value of that function   *)
(* (session/message-v2.ts:421-542).                                          *)
LEMMA FlattenIs ==
  ASSUME NEW A, NEW s \in Seq(Seq(A))
  PROVE  Joins(s, Len(s), FlattenSeq(s))
<1>1. CASE s = <<>>
  <2>1. FlattenSeq(s) = <<>>
    BY <1>1 DEF FlattenSeq
  <2>2. PICK f : FlatRule(s, 0, f)
    BY FlatExists
  <2> QED BY <1>1, <2>1, <2>2 DEF Joins
<1>2. CASE s # <<>>
  <2>1. Len(s) \in Nat /\ Len(s) # 0
    BY <1>2, EmptySeq
  <2>2. \E f : FlatRule(s, Len(s), f)
    BY <2>1, FlatExists
  <2> DEFINE f == CHOOSE g : g = [i \in 1..Len(s) |-> IF i = 1 THEN s[i] ELSE g[i - 1] \o s[i]]
  <2>3. FlatRule(s, Len(s), f)
    BY <2>2, Zenon DEF FlatRule
  <2>4. FlattenSeq(s) = f[Len(s)]
    BY <2>1 DEF FlattenSeq
  <2> HIDE DEF f
  <2> QED BY <2>1, <2>3, <2>4 DEF Joins
<1> QED BY <1>1, <1>2

(* What holds of nothing, and with every element added, holds of all         *)
(* sequences: messages, parts and lines are pushed one after the other       *)
(* (session/message-v2.ts:421-542).                                          *)
LEMMA ByAppending ==
  ASSUME NEW X, NEW S, <<>> \in S, \A t \in Seq(X), x \in X : t \in S => Append(t, x) \in S
  PROVE  \A s \in Seq(X) : s \in S
<1> TAKE s \in Seq(X)
<1>1. Len(s) \in Nat
  OBVIOUS
<1> DEFINE K == {k \in 0..Len(s) : SubSeq(s, 1, k) \in S}
<1>2. 0 \in K
  <2>1. SubSeq(s, 1, 0) = <<>> /\ 0 \in 0..Len(s)
    OBVIOUS
  <2>2. SubSeq(s, 1, 0) \in S
    BY <2>1, Zenon
  <2> QED BY <2>1, <2>2, Zenon
<1>3. ASSUME NEW k \in 1..Len(s), k - 1 \in K PROVE k \in K
  <2>1. PICK t : t = SubSeq(s, 1, k - 1)
    OBVIOUS
  <2>2. t \in Seq(X) /\ t \in S /\ s[k] \in X
    BY <1>3, <2>1
  <2>3. SubSeq(s, 1, k) = Append(t, s[k])
    <3>1. Len(SubSeq(s, 1, k)) = k /\ Len(t) = k - 1 /\ SubSeq(s, 1, k) \in Seq(X)
      BY <2>1
    <3>2. Append(t, s[k]) \in Seq(X) /\ Len(Append(t, s[k])) = k
      BY <2>2, <3>1
    <3>3. \A i \in 1..k : SubSeq(s, 1, k)[i] = Append(t, s[k])[i]
      <4> TAKE i \in 1..k
      <4>1. SubSeq(s, 1, k)[i] = s[i]
        OBVIOUS
      <4>2. Append(t, s[k])[i] = IF i = k THEN s[k] ELSE t[i]
        BY <2>2, <3>1
      <4>3. i # k => t[i] = s[i]
        BY <2>1
      <4> QED BY <4>1, <4>2, <4>3
    <3> QED BY <3>1, <3>2, <3>3, SeqEqual
  <2>4. k \in 0..Len(s)
    OBVIOUS
  <2>5. SubSeq(s, 1, k) \in S
    BY <2>2, <2>3, Zenon
  <2> QED BY <2>4, <2>5, Zenon
<1>4. Len(s) \in K
  <2> HIDE DEF K
  <2>1. \A k \in 1..Len(s) : k - 1 \in K => k \in K
    BY <1>3
  <2>2. \A k \in 0..Len(s) : k \in K
    BY <1>1, <1>2, <2>1, UpwardsTo, Zenon
  <2> QED BY <1>1, <2>2
<1>5. SubSeq(s, 1, Len(s)) = s
  OBVIOUS
<1> QED BY <1>4, <1>5

(* Of nothing, nothing is put together (session/message-v2.ts:421-542).      *)
LEMMA FlattenEmpty == FlattenSeq(<<>>) = <<>>
BY DEF FlattenSeq

(* One sequence more is put behind the others                                *)
(* (session/message-v2.ts:421-542).                                          *)
LEMMA FlattenGrows ==
  ASSUME NEW A, NEW s \in Seq(Seq(A)), NEW x \in Seq(A)
  PROVE  FlattenSeq(Append(s, x)) = IF s = <<>> THEN x ELSE FlattenSeq(s) \o x
<1>1. PICK n \in Nat : n = Len(s)
  OBVIOUS
<1>2. PICK r : r = Append(s, x)
  OBVIOUS
<1>3. r \in Seq(Seq(A)) /\ Len(r) = n + 1 /\ r[n + 1] = x /\ \A i \in 1..n : r[i] = s[i]
  BY <1>1, <1>2
<1>4. PICK f : FlatRule(s, n, f) /\ FlattenSeq(s) = IF n = 0 THEN <<>> ELSE f[n]
  BY <1>1, FlattenIs DEF Joins
<1>5. PICK g : FlatRule(r, n + 1, g) /\ FlattenSeq(r) = g[n + 1]
  <2>1. n + 1 # 0
    OBVIOUS
  <2> QED BY <1>3, <2>1, FlattenIs DEF Joins
<1>6. \A i \in 1..n : f[i] = IF i = 1 THEN s[i] ELSE f[i - 1] \o s[i]
  BY <1>4 DEF FlatRule
<1>7. \A i \in 1..(n + 1) : g[i] = IF i = 1 THEN r[i] ELSE g[i - 1] \o r[i]
  BY <1>5 DEF FlatRule
<1> DEFINE K == {k \in 0..n : k = 0 \/ f[k] = g[k]}
<1>8. ASSUME NEW k \in 1..n, k - 1 \in K PROVE k \in K
  <2>1. r[k] = s[k] /\ (k # 1 => f[k - 1] = g[k - 1])
    BY <1>3, <1>8
  <2>2. f[k] = g[k]
    BY <1>6, <1>7, <2>1
  <2> QED BY <2>2
<1>9. n \in K
  <2>1. 0 \in K
    OBVIOUS
  <2> HIDE DEF K
  <2>2. \A k \in 1..n : k - 1 \in K => k \in K
    BY <1>8
  <2>3. \A k \in 0..n : k \in K
    BY <2>1, <2>2, UpwardsTo, Zenon
  <2> QED BY <2>3
<1>10. CASE n = 0
  <2>1. s = <<>>
    BY <1>1, <1>10, EmptySeq
  <2>2. g[1] = x
    BY <1>3, <1>7, <1>10
  <2> QED BY <1>2, <1>5, <1>10, <2>1, <2>2
<1>11. CASE n # 0
  <2>1. s # <<>>
    BY <1>1, <1>11, EmptySeq
  <2>2. n + 1 \in 1..(n + 1) /\ n + 1 # 1 /\ (n + 1) - 1 = n
    BY <1>11
  <2>4. g[n + 1] = g[n] \o r[n + 1]
    BY <1>7, <2>2
  <2> QED BY <1>2, <1>3, <1>4, <1>5, <1>9, <1>11, <2>1, <2>4
<1> QED BY <1>10, <1>11

(* What is closed under putting together holds what is put together of its   *)
(* members (session/message-v2.ts:421-542).                                  *)
LEMMA FlattenIn ==
  ASSUME NEW A, NEW S \in SUBSET Seq(A), <<>> \in S, \A a \in S, b \in S : a \o b \in S
  PROVE  \A t \in Seq(S) : FlattenSeq(t) \in S
<1> DEFINE G == {t \in Seq(S) : FlattenSeq(t) \in S}
<1>1. <<>> \in G
  BY FlattenEmpty
<1>2. ASSUME NEW t \in Seq(S), NEW x \in S, t \in G PROVE Append(t, x) \in G
  <2>1. t \in Seq(Seq(A)) /\ x \in Seq(A) /\ Append(t, x) \in Seq(S)
    OBVIOUS
  <2>2. FlattenSeq(Append(t, x)) = IF t = <<>> THEN x ELSE FlattenSeq(t) \o x
    BY <2>1, FlattenGrows
  <2>3. FlattenSeq(t) \in S
    BY <1>2
  <2>4. FlattenSeq(Append(t, x)) \in S
    BY <2>2, <2>3
  <2> QED BY <2>1, <2>4
<1>3. \A t \in Seq(S) : t \in G
  <2> HIDE DEF G
  <2> QED BY <1>1, <1>2, ByAppending
<1> QED BY <1>3

(* Elements that are put together keep their type                            *)
(* (session/message-v2.ts:421-542).                                          *)
LEMMA FlattenType ==
  ASSUME NEW A, NEW s \in Seq(Seq(A))
  PROVE  FlattenSeq(s) \in Seq(A)
<1>1. <<>> \in Seq(A) /\ \A a \in Seq(A), b \in Seq(A) : a \o b \in Seq(A)
  OBVIOUS
<1> QED BY <1>1, FlattenIn

(* What is put together with one sequence more                               *)
(* (session/message-v2.ts:421-542).                                          *)
LEMMA FlattenAppend ==
  ASSUME NEW A, NEW s \in Seq(Seq(A)), NEW x \in Seq(A)
  PROVE  FlattenSeq(Append(s, x)) = FlattenSeq(s) \o x
<1>1. CASE s = <<>>
  <2>1. FlattenSeq(s) = <<>> /\ <<>> \o x = x
    BY <1>1, FlattenEmpty
  <2> QED BY <1>1, <2>1, FlattenGrows
<1>2. CASE s # <<>>
  BY <1>2, FlattenGrows
<1> QED BY <1>1, <1>2

(* What is put together of two lists, one behind the other                   *)
(* (session/message-v2.ts:421-542).                                          *)
LEMMA FlattenConcat ==
  ASSUME NEW A, NEW s \in Seq(Seq(A)), NEW t \in Seq(Seq(A))
  PROVE  FlattenSeq(s \o t) = FlattenSeq(s) \o FlattenSeq(t)
<1> DEFINE G == {r \in Seq(Seq(A)) : FlattenSeq(s \o r) = FlattenSeq(s) \o FlattenSeq(r)}
<1>1. FlattenSeq(s) \in Seq(A)
  BY FlattenType
<1>2. <<>> \in G
  <2>1. s \o <<>> = s /\ FlattenSeq(s) \o <<>> = FlattenSeq(s)
    BY <1>1
  <2>2. <<>> \in Seq(Seq(A))
    OBVIOUS
  <2> QED BY <2>1, <2>2, FlattenEmpty, Zenon
<1>3. ASSUME NEW r \in Seq(Seq(A)), NEW x \in Seq(A), r \in G PROVE Append(r, x) \in G
  <2>1. s \o Append(r, x) = Append(s \o r, x) /\ s \o r \in Seq(Seq(A)) /\ Append(r, x) \in Seq(Seq(A))
    <3>1. PICK e : e = x /\ e \in Seq(A)
      OBVIOUS
    <3>2. PICK B : B = Seq(A)
      OBVIOUS
    <3> HIDE DEF G
    <3>3. s \in Seq(B) /\ r \in Seq(B) /\ e \in B
      BY <3>1, <3>2
    <3>4. s \o Append(r, e) = Append(s \o r, e) /\ s \o r \in Seq(B) /\ Append(r, e) \in Seq(B)
      BY <3>3
    <3> QED BY <3>1, <3>2, <3>4
  <2>2. FlattenSeq(Append(s \o r, x)) = FlattenSeq(s \o r) \o x
    BY <2>1, FlattenAppend
  <2>3. FlattenSeq(Append(r, x)) = FlattenSeq(r) \o x /\ FlattenSeq(r) \in Seq(A)
    BY FlattenAppend, FlattenType
  <2>4. FlattenSeq(s \o r) = FlattenSeq(s) \o FlattenSeq(r)
    BY <1>3
  <2>5. (FlattenSeq(s) \o FlattenSeq(r)) \o x = FlattenSeq(s) \o (FlattenSeq(r) \o x)
    <3>1. PICK a, b : a = FlattenSeq(s) /\ b = FlattenSeq(r)
      OBVIOUS
    <3>2. a \in Seq(A) /\ b \in Seq(A)
      BY <1>1, <2>3, <3>1
    <3>3. (a \o b) \o x = a \o (b \o x)
      BY <3>2, ConcatAssociative
    <3> QED BY <3>1, <3>3
  <2> QED BY <2>1, <2>2, <2>3, <2>4, <2>5
<1>4. \A r \in Seq(Seq(A)) : r \in G
  <2> HIDE DEF G
  <2> QED BY <1>2, <1>3, ByAppending
<1> QED BY <1>4

(* Put together of one sequence (session/message-v2.ts:421-542).             *)
LEMMA FlattenOne ==
  ASSUME NEW A, NEW x \in Seq(A)
  PROVE  FlattenSeq(<<x>>) = x
<1>1. Append(<<>>, x) = <<x>> /\ <<>> \in Seq(Seq(A))
  OBVIOUS
<1>2. FlattenSeq(Append(<<>>, x)) = x
  BY <1>1, FlattenGrows
<1> QED BY <1>1, <1>2

(* A sequence with one element more (session/message-v2.ts:421-542).         *)
LEMMA AppendedIs ==
  ASSUME NEW A, NEW s, s \in Seq(A), NEW x, x \in A, NEW b, b = Append(s, x)
  PROVE  b \in Seq(A) /\ Len(b) = Len(s) + 1 /\ b # <<>> /\ b[Len(s) + 1] = x /\ \A i \in 1..Len(s) : b[i] = s[i]
OBVIOUS

(* The front of a sequence with one element more                             *)
(* (provider/transform.ts:37-76).                                            *)
LEMMA PrefixGrows ==
  ASSUME NEW X, NEW s \in Seq(X), NEW k \in 1..Len(s)
  PROVE  SubSeq(s, 1, k) = Append(SubSeq(s, 1, k - 1), s[k]) /\ SubSeq(s, 1, k - 1) \in Seq(X) /\ s[k] \in X
<1>1. PICK q, r : q = SubSeq(s, 1, k - 1) /\ r = SubSeq(s, 1, k)
  OBVIOUS
<1>2. q \in Seq(X) /\ Len(q) = k - 1 /\ \A i \in 1..(k - 1) : q[i] = s[i]
  BY <1>1
<1>3. r \in Seq(X) /\ Len(r) = k /\ \A i \in 1..k : r[i] = s[i]
  BY <1>1
<1>4. PICK a : a = Append(q, s[k])
  OBVIOUS
<1>5. a \in Seq(X) /\ Len(a) = k /\ a[k] = s[k] /\ \A i \in 1..(k - 1) : a[i] = q[i]
  BY <1>2, <1>4
<1>6. \A i \in 1..k : r[i] = a[i]
  <2> TAKE i \in 1..k
  <2>1. i = k \/ i \in 1..(k - 1)
    OBVIOUS
  <2> QED BY <1>2, <1>3, <1>5, <2>1
<1> QED BY <1>1, <1>2, <1>3, <1>4, <1>5, <1>6, SeqEqual

(* A set of places that is not empty has a last one                          *)
(* (provider/transform.ts:119-159).                                          *)
LEMMA GreatestOf ==
  ASSUME NEW n \in Nat, NEW S \in SUBSET (1..n), S # {}
  PROVE  \E k \in S : \A m \in S : m <= k
<1>1. PICK R : R = {n - k : k \in S}
  OBVIOUS
<1>2. R \in SUBSET Nat /\ R # {}
  <2>1. \A k \in S : n - k \in Nat
    OBVIOUS
  <2>2. R \subseteq Nat
    BY <1>1, <2>1
  <2> QED BY <1>1, <2>2
<1>3. PICK r \in R : \A m \in R : r <= m
  BY <1>2, LeastOf
<1>4. PICK k \in S : r = n - k
  BY <1>1, <1>3
<1>5. \A m \in S : n - k <= n - m
  BY <1>1, <1>3, <1>4
<1>6. \A m \in S : m <= k
  BY <1>5
<1> QED BY <1>6

(* Two sequences with the same elements are the same (tool/edit.ts:637).     *)
LEMMA SameSeq ==
  ASSUME NEW A, NEW s \in Seq(A), NEW t \in Seq(A), Len(s) = Len(t), \A i \in 1..Len(s) : s[i] = t[i]
  PROVE  s = t
OBVIOUS

(* One sequence behind another: the elements of both (tool/edit.ts:646).     *)
LEMMA ConcatIs ==
  ASSUME NEW A, NEW a \in Seq(A), NEW b \in Seq(A)
  PROVE  /\ a \o b \in Seq(A) /\ Len(a \o b) = Len(a) + Len(b)
         /\ \A i \in 1..Len(a) : (a \o b)[i] = a[i]
         /\ \A i \in 1..Len(b) : (a \o b)[Len(a) + i] = b[i]
OBVIOUS

(* The same of three: what is before a match, the match, what is behind it   *)
(* (tool/edit.ts:646).                                                       *)
LEMMA Concat3Is ==
  ASSUME NEW A, NEW a \in Seq(A), NEW m \in Seq(A), NEW b \in Seq(A)
  PROVE  /\ (a \o m) \o b \in Seq(A) /\ Len((a \o m) \o b) = Len(a) + Len(m) + Len(b)
         /\ \A i \in 1..Len(a) : ((a \o m) \o b)[i] = a[i]
         /\ \A i \in 1..Len(m) : ((a \o m) \o b)[Len(a) + i] = m[i]
         /\ \A i \in 1..Len(b) : ((a \o m) \o b)[Len(a) + Len(m) + i] = b[i]
<1>1. PICK c : c = a \o m
  OBVIOUS
<1>2. /\ c \in Seq(A) /\ Len(c) = Len(a) + Len(m)
      /\ \A i \in 1..Len(a) : c[i] = a[i]
      /\ \A j \in 1..Len(m) : c[Len(a) + j] = m[j]
  BY <1>1, ConcatIs
<1>2a. c \in Seq(A)
  BY <1>2
<1>3. /\ c \o b \in Seq(A) /\ Len(c \o b) = Len(c) + Len(b)
      /\ \A i \in 1..Len(c) : (c \o b)[i] = c[i]
      /\ \A i \in 1..Len(b) : (c \o b)[Len(c) + i] = b[i]
  BY <1>2a, ConcatIs
<1>4. Len(a) \in Nat /\ Len(m) \in Nat
  OBVIOUS
<1>5. \A i \in 1..Len(m) : Len(a) + i \in 1..Len(c)
  BY <1>2, <1>4
<1>6. \A i \in 1..Len(a) : i \in 1..Len(c)
  BY <1>2, <1>4
<1> QED BY <1>1, <1>2, <1>3, <1>5, <1>6

(* Three sequences may be put together from either side (tool/edit.ts:646).  *)
LEMMA ConcatAssoc ==
  ASSUME NEW A, NEW a \in Seq(A), NEW m \in Seq(A), NEW b \in Seq(A)
  PROVE  (a \o m) \o b = a \o (m \o b)
<1>1. PICK l, c, r : l = (a \o m) \o b /\ c = m \o b /\ r = a \o c
  OBVIOUS
<1>2. /\ l \in Seq(A) /\ Len(l) = Len(a) + Len(m) + Len(b)
      /\ \A i \in 1..Len(a) : l[i] = a[i]
      /\ \A i \in 1..Len(m) : l[Len(a) + i] = m[i]
      /\ \A i \in 1..Len(b) : l[Len(a) + Len(m) + i] = b[i]
  <2> HIDE <1>1
  <2> QED BY <1>1, Concat3Is
<1>3. /\ c \in Seq(A) /\ Len(c) = Len(m) + Len(b)
      /\ \A i \in 1..Len(m) : c[i] = m[i]
      /\ \A i \in 1..Len(b) : c[Len(m) + i] = b[i]
  BY <1>1, ConcatIs
<1>4. /\ r \in Seq(A) /\ Len(r) = Len(a) + Len(c)
      /\ \A i \in 1..Len(a) : r[i] = a[i]
      /\ \A i \in 1..Len(c) : r[Len(a) + i] = c[i]
  BY <1>1, <1>3, ConcatIs
<1>5. Len(a) \in Nat /\ Len(m) \in Nat /\ Len(b) \in Nat
  OBVIOUS
<1>6. ASSUME NEW i \in 1..Len(l) PROVE l[i] = r[i]
  <2>1. CASE i \in 1..Len(a)
    BY <1>2, <1>4, <2>1
  <2>2. CASE i \in (Len(a) + 1)..(Len(a) + Len(m))
    <3>0. i - Len(a) \in 1..Len(m) /\ i = Len(a) + (i - Len(a))
      BY <1>5, <2>2
    <3>1. PICK j \in 1..Len(m) : i = Len(a) + j
      BY <3>0
    <3>2. j \in 1..Len(c)
      BY <1>3, <1>5
    <3> QED BY <1>2, <1>3, <1>4, <3>1, <3>2
  <2>3. CASE i \in (Len(a) + Len(m) + 1)..(Len(a) + Len(m) + Len(b))
    <3>0. i - (Len(a) + Len(m)) \in 1..Len(b) /\ i = Len(a) + Len(m) + (i - (Len(a) + Len(m)))
      BY <1>5, <2>3
    <3>1. PICK j \in 1..Len(b) : i = Len(a) + Len(m) + j
      BY <3>0
    <3>2. Len(m) + j \in 1..Len(c) /\ i = Len(a) + (Len(m) + j)
      BY <1>3, <1>5, <3>1
    <3>3. r[i] = c[Len(m) + j]
      BY <1>4, <3>2
    <3> QED BY <1>2, <1>3, <3>1, <3>3
  <2> QED BY <1>2, <1>5, <2>1, <2>2, <2>3
<1>7. Len(l) = Len(r)
  BY <1>2, <1>3, <1>4, <1>5
<1>8. l = r
  BY <1>2, <1>4, <1>6, <1>7, SameSeq
<1> QED BY <1>1, <1>8

(* An element added is a sequence of one put behind (tool/edit.ts:364).      *)
LEMMA AppendConcat ==
  ASSUME NEW A, NEW s \in Seq(A), NEW x \in A
  PROVE  Append(s, x) = s \o <<x>> /\ <<x>> \in Seq(A)
OBVIOUS

(* A part of one element (tool/edit.ts:427).                                 *)
LEMMA OneOf ==
  ASSUME NEW A, NEW s \in Seq(A), NEW i \in 1..Len(s)
  PROVE  SubSeq(s, i, i) = Append(<<>>, s[i]) /\ SubSeq(s, i, i) = <<s[i]>> /\ s[i] \in A /\ <<>> \in Seq(A)
<1>1. PICK r : r = SubSeq(s, i, i)
  OBVIOUS
<1>2. r \in Seq(A) /\ Len(r) = 1 /\ r[1] = s[i]
  <2>1. i \in Int /\ i - i + 1 = 1 /\ \A k \in i..i : s[k] \in A
    OBVIOUS
  <2>2. r = [k \in 1..1 |-> s[i + k - 1]]
    BY <1>1, <2>1
  <2> QED BY <2>2
<1>3. r = <<s[i]>>
  BY <1>2
<1> QED BY <1>1, <1>3

(* Nothing is lost when sequences are put together: what one replacer yields *)
(* is among the proposals (tool/edit.ts:625-636).                            *)
LEMMA FlattenHas ==
  ASSUME NEW A, NEW s \in Seq(Seq(A))
  PROVE  \A i \in DOMAIN s : \A j \in DOMAIN s[i] : \E k \in DOMAIN FlattenSeq(s) : FlattenSeq(s)[k] = s[i][j]
<1> DEFINE Has(r) == \A i \in DOMAIN r : \A j \in DOMAIN r[i] : \E k \in DOMAIN FlattenSeq(r) : FlattenSeq(r)[k] = r[i][j]
<1> DEFINE S == {r \in Seq(Seq(A)) : Has(r)}
<1>1. <<>> \in S
  OBVIOUS
<1>2. ASSUME NEW r \in Seq(Seq(A)), NEW x \in Seq(A), r \in S PROVE Append(r, x) \in S
  <2>1. PICK q, f, g : q = Append(r, x) /\ f = FlattenSeq(r) /\ g = FlattenSeq(q)
    OBVIOUS
  <2>2. q \in Seq(Seq(A)) /\ Len(q) = Len(r) + 1 /\ q[Len(r) + 1] = x /\ \A i \in 1..Len(r) : q[i] = r[i]
    BY <2>1, AppendedIs
  <2>3. f \in Seq(A) /\ g = f \o x
    BY <2>1, FlattenType, FlattenAppend
  <2>4. /\ g \in Seq(A) /\ Len(g) = Len(f) + Len(x)
        /\ \A i \in 1..Len(f) : g[i] = f[i]
        /\ \A i \in 1..Len(x) : g[Len(f) + i] = x[i]
    <3>1. f \in Seq(A) /\ x \in Seq(A)
      BY <2>3
    <3> QED BY <2>3, <3>1, ConcatIs
  <2>5. ASSUME NEW i \in DOMAIN q, NEW j \in DOMAIN q[i] PROVE \E k \in DOMAIN g : g[k] = q[i][j]
    <3>1. CASE i = Len(r) + 1
      <4>1. j \in 1..Len(x) /\ q[i][j] = x[j]
        BY <2>2, <3>1
      <4>2. Len(f) + j \in DOMAIN g /\ g[Len(f) + j] = x[j]
        BY <2>3, <2>4, <4>1
      <4> QED BY <4>1, <4>2
    <3>2. CASE i \in 1..Len(r)
      <4>1. i \in DOMAIN r /\ q[i] = r[i] /\ j \in DOMAIN r[i]
        BY <2>2, <3>2
      <4>2. PICK k \in DOMAIN f : f[k] = r[i][j]
        BY <1>2, <2>1, <4>1
      <4>3. k \in DOMAIN g /\ g[k] = f[k]
        BY <2>3, <2>4, <4>2
      <4> QED BY <4>1, <4>2, <4>3
    <3> QED BY <2>2, <3>1, <3>2
  <2>6. Has(q)
    BY <2>1, <2>5
  <2> QED BY <2>1, <2>2, <2>6
<1>3. \A r \in Seq(Seq(A)) : r \in S
  <2> HIDE DEF S
  <2> QED BY <1>1, <1>2, ByAppending
<1> QED BY <1>3

(* A sequence is its front and the rest (tool/edit.ts:646).                  *)
LEMMA SplitAt ==
  ASSUME NEW A, NEW s \in Seq(A), NEW k \in 0..Len(s)
  PROVE  /\ s = SubSeq(s, 1, k) \o SubSeq(s, k + 1, Len(s))
         /\ SubSeq(s, 1, k) \in Seq(A) /\ Len(SubSeq(s, 1, k)) = k
         /\ SubSeq(s, k + 1, Len(s)) \in Seq(A) /\ Len(SubSeq(s, k + 1, Len(s))) = Len(s) - k
<1>1. PICK a, b, c : a = SubSeq(s, 1, k) /\ b = SubSeq(s, k + 1, Len(s)) /\ c = a \o b
  OBVIOUS
<1>2. a \in Seq(A) /\ Len(a) = k /\ \A i \in 1..k : a[i] = s[i]
  BY <1>1
<1>3. b \in Seq(A) /\ Len(b) = Len(s) - k /\ \A i \in 1..(Len(s) - k) : b[i] = s[k + i]
  BY <1>1
<1>4. c \in Seq(A) /\ Len(c) = Len(s) /\ (\A i \in 1..k : c[i] = s[i]) /\ \A i \in 1..(Len(s) - k) : c[k + i] = s[k + i]
  <2>1. a \in Seq(A) /\ b \in Seq(A)
    BY <1>2, <1>3
  <2>2. /\ a \o b \in Seq(A) /\ Len(a \o b) = Len(a) + Len(b)
        /\ \A i \in 1..Len(a) : (a \o b)[i] = a[i]
        /\ \A i \in 1..Len(b) : (a \o b)[Len(a) + i] = b[i]
    BY <2>1, ConcatIs
  <2>3. \A i \in 1..(Len(s) - k) : c[k + i] = b[i]
    BY <1>1, <1>2, <1>3, <2>2
  <2>4. Len(a) + Len(b) = Len(s)
    BY <1>2, <1>3
  <2>5. \A i \in 1..k : c[i] = a[i]
    BY <1>1, <1>2, <2>2
  <2>6. c \in Seq(A) /\ Len(c) = Len(s)
    BY <1>1, <2>2, <2>4
  <2> QED BY <1>2, <1>3, <2>3, <2>5, <2>6
<1>5. ASSUME NEW i \in 1..Len(s) PROVE s[i] = c[i]
  <2>1. CASE i \in 1..k
    BY <1>4, <2>1
  <2>2. CASE i \notin 1..k
    <3>1. i - k \in 1..(Len(s) - k) /\ k + (i - k) = i
      BY <2>2
    <3> QED BY <1>4, <3>1
  <2> QED BY <2>1, <2>2
<1>6. s = c
  BY <1>4, <1>5, SameSeq
<1> QED BY <1>1, <1>2, <1>3, <1>6

(* A sequence is its front and its last element (tool/edit.ts:189).          *)
LEMMA LastRow ==
  ASSUME NEW A, NEW s \in Seq(A), s # <<>>
  PROVE  Front(s) \in Seq(A) /\ Last(s) \in A /\ s = Append(Front(s), Last(s))
<1>1. SubSeq(s, 1, Len(s)) = s /\ Len(s) \in 1..Len(s)
  OBVIOUS
<1>2. SubSeq(s, 1, Len(s)) = Append(SubSeq(s, 1, Len(s) - 1), s[Len(s)]) /\ SubSeq(s, 1, Len(s) - 1) \in Seq(A) /\ s[Len(s)] \in A
  BY <1>1, PrefixGrows
<1> QED BY <1>1, <1>2 DEF Front, Last

(* Front and last of a sequence with one element more (tool/edit.ts:189).    *)
LEMMA LastOfAppend ==
  ASSUME NEW A, NEW s \in Seq(A), NEW x \in A
  PROVE  Front(Append(s, x)) = s /\ Last(Append(s, x)) = x
<1>1. PICK b : b = Append(s, x)
  OBVIOUS
<1>2. b \in Seq(A) /\ Len(b) = Len(s) + 1 /\ b[Len(s) + 1] = x /\ \A i \in 1..Len(s) : b[i] = s[i]
  BY <1>1, AppendedIs
<1>3. Last(b) = x
  BY <1>2 DEF Last
<1>4. Len(b) - 1 = Len(s) /\ Len(s) \in Nat
  BY <1>2
<1>5. SubSeq(b, 1, Len(s)) = s
  BY <1>1
<1> QED BY <1>1, <1>3, <1>4, <1>5 DEF Front
=============================================================================
