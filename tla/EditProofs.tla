----------------------------- MODULE EditProofs -----------------------------
(* Proofs about the edit tool (tool/edit.ts): whatever replacer finds it,    *)
(* what an edit replaces stands for oldString.  Two texts are alike when,    *)
(* behind any text and with a space after them, they are the same once       *)
(* escapes are shown and spaces are collapsed; this is kept when texts are   *)
(* trimmed, unindented, unescaped and joined line by line, and so carries    *)
(* every replacer but those that only compare the first and the last line.   *)
EXTENDS TextEdits, SequenceLemmas

\* Newlines, spaces and escapes are apart.
LEMMA TokensAre ==
  /\ NL \in Tokens /\ SP \in Tokens /\ ESC \in Tokens
  /\ NL # SP /\ ESC # NL /\ ESC # SP
<1>1. NL \in Tokens /\ SP \in Tokens /\ ESC \in Tokens
  BY DEF Tokens
<1>2. NL # SP /\ ESC # NL /\ ESC # SP
  BY DEF NL, SP, ESC
<1> QED BY <1>1, <1>2

-----------------------------------------------------------------------------
\* What is left of the first tokens.
CollapseRule(t, n, f) ==
  f = [k \in 0..n |-> IF k = 0 THEN <<>> ELSE Put(f[k - 1], t[k])]

\* There is a function that tells what is left of the first tokens.
LEMMA CollapseExists ==
  ASSUME NEW t, NEW n \in Nat
  PROVE  \E f : CollapseRule(t, n, f)
<1> DEFINE S == {k \in Nat : \E f : CollapseRule(t, k, f)}
<1>1. 0 \in S
  <2> DEFINE f == [i \in 0..0 |-> <<>>]
  <2>1. f = [i \in 0..0 |-> IF i = 0 THEN <<>> ELSE Put(f[i - 1], t[i])]
    OBVIOUS
  <2>2. CollapseRule(t, 0, f)
    BY <2>1 DEF CollapseRule
  <2> HIDE DEF f
  <2> QED BY <2>2
<1>2. ASSUME NEW k \in 1..n, k - 1 \in S PROVE k \in S
  <2>1. PICK f : CollapseRule(t, k - 1, f)
    BY <1>2
  <2> DEFINE g == [i \in 0..k |-> IF i = k THEN Put(f[k - 1], t[k]) ELSE f[i]]
  <2>2. \A i \in 0..(k - 1) : f[i] = IF i = 0 THEN <<>> ELSE Put(f[i - 1], t[i])
    BY <2>1 DEF CollapseRule
  <2>3. \A i \in 0..k : g[i] = IF i = 0 THEN <<>> ELSE Put(g[i - 1], t[i])
    <3> TAKE i \in 0..k
    <3>1. CASE i = k
      BY <3>1
    <3>2. CASE i # k
      BY <3>2, <2>2
    <3> QED BY <3>1, <3>2
  <2>4. g = [i \in 0..k |-> IF i = 0 THEN <<>> ELSE Put(g[i - 1], t[i])]
    BY <2>3
  <2>5. CollapseRule(t, k, g)
    BY <2>4 DEF CollapseRule
  <2> HIDE DEF g
  <2> QED BY <2>5
<1>3. n \in S
  <2> HIDE DEF S
  <2> QED BY <1>1, <1>2, UpwardsTo
<1> QED BY <1>3

\* What is left of a text is its last value.
LEMMA CollapsedIs ==
  ASSUME NEW t, Len(t) \in Nat
  PROVE  \E f : CollapseRule(t, Len(t), f) /\ Collapsed(t) = f[Len(t)]
<1> DEFINE f == CHOOSE g : g = [k \in 0..Len(t) |-> IF k = 0 THEN <<>> ELSE Put(g[k - 1], t[k])]
<1>1. \E g : CollapseRule(t, Len(t), g)
  BY CollapseExists
<1>2. CollapseRule(t, Len(t), f)
  BY <1>1, Zenon DEF CollapseRule
<1>3. Collapsed(t) = f[Len(t)]
  BY Zenon DEF Collapsed
<1> HIDE DEF f
<1> QED BY <1>2, <1>3

\* A token put behind is never lost; a space ends the text.
LEMMA PutIs ==
  ASSUME NEW c \in Seq(Tokens), NEW x \in Tokens
  PROVE  Put(c, x) \in Seq(Tokens) /\ Put(c, x) # <<>> /\ (IsSpace(x) => Last(Put(c, x)) = SP)
<1>1. CASE ~IsSpace(x)
  <2>1. Put(c, x) = Append(c, x)
    BY <1>1 DEF Put
  <2> QED BY <1>1, <2>1, AppendedIs
<1>2. CASE IsSpace(x) /\ c # <<>> /\ Last(c) = SP
  BY <1>2 DEF Put
<1>3. CASE IsSpace(x) /\ ~(c # <<>> /\ Last(c) = SP)
  <2>1. PICK b : b = Append(c, SP)
    OBVIOUS
  <2>2. Put(c, x) = b
    BY <1>3, <2>1 DEF Put
  <2>3. SP \in Tokens
    BY TokensAre
  <2>4. b \in Seq(Tokens) /\ Len(b) = Len(c) + 1 /\ b # <<>> /\ b[Len(c) + 1] = SP
    BY <2>1, <2>3, AppendedIs
  <2>5. Last(b) = SP
    BY <2>4 DEF Last
  <2> QED BY <2>2, <2>4, <2>5
<1> QED BY <1>1, <1>2, <1>3

\* What is collapsed of a text with one token more.
LEMMA CollapsedGrows ==
  ASSUME NEW t \in Seq(Tokens), NEW x \in Tokens
  PROVE  Collapsed(<<>>) = <<>> /\ Collapsed(Append(t, x)) = Put(Collapsed(t), x)
<1>1. Collapsed(<<>>) = <<>>
  <2>1. Len(<<>>) = 0
    OBVIOUS
  <2>2. PICK f : CollapseRule(<<>>, 0, f) /\ Collapsed(<<>>) = f[0]
    BY <2>1, CollapsedIs
  <2> QED BY <2>2 DEF CollapseRule
<1>2. PICK n \in Nat : n = Len(t)
  OBVIOUS
<1>3. PICK b : b = Append(t, x)
  OBVIOUS
<1>4. b \in Seq(Tokens) /\ Len(b) = n + 1 /\ b[n + 1] = x /\ \A i \in 1..n : b[i] = t[i]
  BY <1>2, <1>3, AppendedIs
<1>5. PICK f : CollapseRule(t, n, f) /\ Collapsed(t) = f[n]
  BY <1>2, CollapsedIs
<1>6. PICK g : CollapseRule(b, n + 1, g) /\ Collapsed(b) = g[n + 1]
  BY <1>4, CollapsedIs
<1>7. \A i \in 0..n : f[i] = IF i = 0 THEN <<>> ELSE Put(f[i - 1], t[i])
  BY <1>5 DEF CollapseRule
<1>8. \A i \in 0..(n + 1) : g[i] = IF i = 0 THEN <<>> ELSE Put(g[i - 1], b[i])
  BY <1>6 DEF CollapseRule
<1> DEFINE K == {k \in 0..n : f[k] = g[k]}
<1>9. n \in K
  <2>1. 0 \in K
    BY <1>7, <1>8
  <2>2. ASSUME NEW k \in 1..n, k - 1 \in K PROVE k \in K
    <3>1. b[k] = t[k] /\ f[k - 1] = g[k - 1]
      BY <1>4, <2>2
    <3>2. f[k] = Put(f[k - 1], t[k]) /\ g[k] = Put(g[k - 1], b[k])
      BY <1>7, <1>8
    <3> QED BY <3>1, <3>2
  <2> HIDE DEF K
  <2>3. \A k \in 0..n : k \in K
    BY <2>1, <2>2, UpwardsTo
  <2> QED BY <2>3
<1>10. g[n + 1] = Put(g[n], x)
  <2>1. n + 1 \in 0..(n + 1) /\ n + 1 # 0 /\ (n + 1) - 1 = n
    OBVIOUS
  <2> QED BY <1>4, <1>8, <2>1
<1> QED BY <1>1, <1>3, <1>5, <1>6, <1>9, <1>10

\* What is left of a text is a text.
LEMMA CollapsedType ==
  ASSUME NEW t \in Seq(Tokens)
  PROVE  Collapsed(t) \in Seq(Tokens)
<1> DEFINE S == {s \in Seq(Tokens) : Collapsed(s) \in Seq(Tokens)}
<1>1. <<>> \in S
  <2>1. NL \in Tokens /\ <<>> \in Seq(Tokens)
    BY TokensAre
  <2> QED BY <2>1, CollapsedGrows
<1>2. ASSUME NEW s \in Seq(Tokens), NEW x \in Tokens, s \in S PROVE Append(s, x) \in S
  <2>1. Append(s, x) \in Seq(Tokens)
    OBVIOUS
  <2> QED BY <1>2, <2>1, CollapsedGrows, PutIs
<1>3. \A s \in Seq(Tokens) : s \in S
  <2> HIDE DEF S
  <2> QED BY <1>1, <1>2, ByAppending
<1> QED BY <1>3

\* Texts that collapse to the same still do with the same text behind them.
LEMMA CollapsedTogether ==
  \A p, q, t : p \in Seq(Tokens) /\ q \in Seq(Tokens) /\ t \in Seq(Tokens) /\ Collapsed(p) = Collapsed(q)
                => Collapsed(p \o t) = Collapsed(q \o t)
<1> TAKE p, q, t
<1> SUFFICES ASSUME p \in Seq(Tokens), q \in Seq(Tokens), t \in Seq(Tokens), Collapsed(p) = Collapsed(q)
             PROVE  Collapsed(p \o t) = Collapsed(q \o t)
  OBVIOUS
<1> DEFINE S == {s \in Seq(Tokens) : Collapsed(p \o s) = Collapsed(q \o s)}
<1>1. <<>> \in S
  <2>1. p \o <<>> = p /\ q \o <<>> = q /\ <<>> \in Seq(Tokens)
    OBVIOUS
  <2> QED BY <2>1
<1>2. ASSUME NEW s \in Seq(Tokens), NEW x \in Tokens, s \in S PROVE Append(s, x) \in S
  <2>1. p \o Append(s, x) = Append(p \o s, x) /\ q \o Append(s, x) = Append(q \o s, x)
    OBVIOUS
  <2>2. p \o s \in Seq(Tokens) /\ q \o s \in Seq(Tokens) /\ Append(s, x) \in Seq(Tokens)
    OBVIOUS
  <2>3. Collapsed(Append(p \o s, x)) = Put(Collapsed(p \o s), x) /\ Collapsed(Append(q \o s, x)) = Put(Collapsed(q \o s), x)
    BY <2>2, CollapsedGrows
  <2> QED BY <1>2, <2>1, <2>2, <2>3
<1>3. \A s \in Seq(Tokens) : s \in S
  <2> HIDE DEF S
  <2> QED BY <1>1, <1>2, ByAppending
<1> QED BY <1>3

\* One space is as good as another, and as good as two.
LEMMA SpacesPut ==
  ASSUME NEW c \in Seq(Tokens), NEW x \in {NL, SP}, NEW y \in {NL, SP}
  PROVE  Put(c, x) = Put(c, y) /\ Put(Put(c, x), y) = Put(c, x)
<1>1. IsSpace(x) /\ IsSpace(y) /\ x \in Tokens /\ y \in Tokens
  BY TokensAre DEF IsSpace
<1>2. Put(c, x) = Put(c, y)
  BY <1>1 DEF Put
<1>3. Put(c, x) # <<>> /\ Last(Put(c, x)) = SP
  BY <1>1, PutIs
<1> QED BY <1>1, <1>2, <1>3 DEF Put

\* Spaces behind a space add nothing.
LEMMA SpacesBehind ==
  ASSUME NEW q \in Seq(Tokens), NEW s \in Seq({NL, SP})
  PROVE  Collapsed(Append(q, SP) \o s) = Collapsed(Append(q, SP))
<1>0. SP \in Tokens /\ NL \in Tokens /\ SP \in {NL, SP}
  BY TokensAre
<1>1. PICK p : p = Append(q, SP)
  OBVIOUS
<1>2. p \in Seq(Tokens) /\ Collapsed(p) = Put(Collapsed(q), SP) /\ Collapsed(q) \in Seq(Tokens)
  BY <1>0, <1>1, AppendedIs, CollapsedGrows, CollapsedType
<1> DEFINE S == {r \in Seq({NL, SP}) : Collapsed(p \o r) = Collapsed(p)}
<1>3. <<>> \in S
  <2>1. p \o <<>> = p /\ <<>> \in Seq({NL, SP})
    BY <1>2
  <2> QED BY <2>1
<1>4. ASSUME NEW r \in Seq({NL, SP}), NEW x \in {NL, SP}, r \in S PROVE Append(r, x) \in S
  <2>1. r \in Seq(Tokens) /\ x \in Tokens
    BY <1>0
  <2>2. p \o Append(r, x) = Append(p \o r, x) /\ p \o r \in Seq(Tokens) /\ Append(r, x) \in Seq({NL, SP})
    BY <1>2, <2>1
  <2>3. Collapsed(p \o Append(r, x)) = Put(Collapsed(p), x)
    BY <1>4, <2>1, <2>2, CollapsedGrows
  <2>4. Put(Collapsed(p), x) = Collapsed(p)
    BY <1>0, <1>2, SpacesPut
  <2> QED BY <2>2, <2>3, <2>4
<1>5. \A r \in Seq({NL, SP}) : r \in S
  <2> HIDE DEF S
  <2> QED BY <1>3, <1>4, ByAppending
<1> QED BY <1>1, <1>5

\* Spaces before a space add nothing.
LEMMA SpacesBefore ==
  ASSUME NEW q \in Seq(Tokens), NEW s \in Seq({NL, SP})
  PROVE  Collapsed(Append(q \o s, SP)) = Collapsed(Append(q, SP))
<1>0. SP \in Tokens /\ NL \in Tokens /\ SP \in {NL, SP}
  BY TokensAre
<1> DEFINE S == {r \in Seq({NL, SP}) : Collapsed(Append(q \o r, SP)) = Collapsed(Append(q, SP))}
<1>1. <<>> \in S
  <2>1. q \o <<>> = q /\ <<>> \in Seq({NL, SP})
    OBVIOUS
  <2> QED BY <2>1
<1>2. ASSUME NEW r \in Seq({NL, SP}), NEW x \in {NL, SP}, r \in S PROVE Append(r, x) \in S
  <2>1. r \in Seq(Tokens) /\ x \in Tokens
    BY <1>0
  <2>2. q \o Append(r, x) = Append(q \o r, x) /\ q \o r \in Seq(Tokens) /\ Append(q \o r, x) \in Seq(Tokens)
        /\ Append(r, x) \in Seq({NL, SP})
    BY <2>1
  <2>3. PICK c : c = Collapsed(q \o r)
    OBVIOUS
  <2>4. c \in Seq(Tokens) /\ Collapsed(Append(q \o r, SP)) = Put(c, SP)
        /\ Collapsed(Append(Append(q \o r, x), SP)) = Put(Put(c, x), SP)
    BY <1>0, <2>1, <2>2, <2>3, CollapsedGrows, CollapsedType
  <2>5. Put(Put(c, x), SP) = Put(c, SP)
    BY <1>0, <2>4, SpacesPut
  <2> QED BY <1>2, <2>2, <2>4, <2>5
<1>3. \A r \in Seq({NL, SP}) : r \in S
  <2> HIDE DEF S
  <2> QED BY <1>1, <1>2, ByAppending
<1> QED BY <1>3

\* Two texts are a text.
LEMMA TextConcat == \A a, b : a \in Seq(Tokens) /\ b \in Seq(Tokens) => a \o b \in Seq(Tokens)
OBVIOUS

\* Texts may be put together from either side.
LEMMA TextAssoc ==
  \A a, b, c : a \in Seq(Tokens) /\ b \in Seq(Tokens) /\ c \in Seq(Tokens) => a \o (b \o c) = (a \o b) \o c
BY ConcatAssoc

\* A token added is a text of one put behind.
LEMMA TextAppend == \A s, x : s \in Seq(Tokens) /\ x \in Tokens => Append(s, x) = s \o <<x>>
OBVIOUS

-----------------------------------------------------------------------------
(* Trimming *)

\* What is trimmed off, and what is not (tool/edit.ts:200).
Spaces == {NL, SP}
Solid(t) == {i \in DOMAIN t : ~IsSpace(t[i])}

\* Nothing is left of spaces.
LEMMA TrimNone ==
  ASSUME NEW t \in Seq(Spaces)
  PROVE  Trim(t) = <<>>
<1>1. \A i \in DOMAIN t : IsSpace(t[i])
  BY DEF IsSpace, Spaces
<1> QED BY <1>1 DEF Trim

\* Spaces are a text.
LEMMA SpacesText ==
  ASSUME NEW s \in Seq(Spaces)
  PROVE  s \in Seq(Tokens)
BY TokensAre DEF Spaces

\* From the first token that is no space to the last one.
LEMMA TrimSome ==
  ASSUME NEW t \in Seq(Tokens), NEW a \in Solid(t), NEW b \in Solid(t), \A j \in Solid(t) : a <= j /\ j <= b
  PROVE  Trim(t) = SubSeq(t, a, b)
<1> DEFINE solid == {i \in DOMAIN t : ~IsSpace(t[i])}
<1>1. solid = Solid(t)
  BY DEF Solid
<1>2. Solid(t) \in SUBSET Nat
  BY DEF Solid
<1>3. (CHOOSE i \in Solid(t) : \A j \in Solid(t) : i <= j) = a
  <2>1. \A i \in Solid(t) : (\A j \in Solid(t) : i <= j) => i = a
    BY <1>2
  <2> QED BY <2>1
<1>4. (CHOOSE i \in Solid(t) : \A j \in Solid(t) : j <= i) = b
  <2>1. \A i \in Solid(t) : (\A j \in Solid(t) : j <= i) => i = b
    BY <1>2
  <2> QED BY <2>1
<1>5. Trim(t) = IF solid = {} THEN <<>>
                ELSE SubSeq(t, CHOOSE i \in solid : \A j \in solid : i <= j, CHOOSE i \in solid : \A j \in solid : j <= i)
  BY Zenon DEF Trim
<1> HIDE DEF solid
<1>6. solid # {}
  BY <1>1
<1> QED BY <1>1, <1>3, <1>4, <1>5, <1>6

\* A text with a token that is no space has a first and a last one.
LEMMA SolidIs ==
  ASSUME NEW t \in Seq(Tokens), Solid(t) # {}
  PROVE  \E a \in Solid(t), b \in Solid(t) : \A j \in Solid(t) : a <= j /\ j <= b
<1>1. Solid(t) \in SUBSET Nat /\ Solid(t) \in SUBSET (1..Len(t)) /\ Len(t) \in Nat
  BY DEF Solid
<1>2. PICK a \in Solid(t) : \A j \in Solid(t) : a <= j
  BY <1>1, LeastOf
<1>3. PICK b \in Solid(t) : \A j \in Solid(t) : j <= b
  BY <1>1, GreatestOf
<1> QED BY <1>2, <1>3

\* A text is what is trimmed of it between spaces.
LEMMA TrimOf ==
  ASSUME NEW t \in Seq(Tokens)
  PROVE  /\ Trim(t) \in Seq(Tokens)
         /\ \E a \in Seq(Spaces), b \in Seq(Spaces) : t = (a \o Trim(t)) \o b
         /\ Trim(t) # <<>> => ~IsSpace(Trim(t)[1]) /\ ~IsSpace(Trim(t)[Len(Trim(t))])
<1>1. CASE Solid(t) = {}
  <2>1. \A i \in DOMAIN t : t[i] \in Spaces
    BY <1>1 DEF Solid, IsSpace, Spaces
  <2>2. t \in Seq(Spaces)
    BY <2>1
  <2>3. Trim(t) = <<>>
    BY <2>2, TrimNone
  <2>4. t = (t \o <<>>) \o <<>> /\ <<>> \in Seq(Spaces) /\ <<>> \in Seq(Tokens)
    BY TokensAre
  <2> QED BY <2>2, <2>3, <2>4
<1>2. CASE Solid(t) # {}
  <2>1. PICK a \in Solid(t), b \in Solid(t) : \A j \in Solid(t) : a <= j /\ j <= b
    BY <1>2, SolidIs
  <2>2. PICK m : m = SubSeq(t, a, b)
    OBVIOUS
  <2>3. Trim(t) = m
    BY <2>1, <2>2, TrimSome
  <2>4. a \in 1..Len(t) /\ b \in 1..Len(t) /\ a <= b /\ ~IsSpace(t[a]) /\ ~IsSpace(t[b])
    BY <2>1 DEF Solid
  <2>5. m \in Seq(Tokens) /\ Len(m) = b - a + 1 /\ \A i \in 1..(b - a + 1) : m[i] = t[a + i - 1]
    BY <2>2, <2>4
  <2>6. PICK u, v : u = SubSeq(t, 1, a - 1) /\ v = SubSeq(t, b + 1, Len(t))
    OBVIOUS
  <2>7. u \in Seq(Tokens) /\ Len(u) = a - 1 /\ \A i \in 1..(a - 1) : u[i] = t[i]
    BY <2>4, <2>6
  <2>8. v \in Seq(Tokens) /\ Len(v) = Len(t) - b /\ \A i \in 1..(Len(t) - b) : v[i] = t[b + i]
    BY <2>4, <2>6
  <2>9. u \in Seq(Spaces)
    <3>1. \A i \in 1..(a - 1) : t[i] \in Spaces
      BY <2>1, <2>4 DEF Solid, IsSpace, Spaces
    <3> QED BY <2>7, <3>1
  <2>10. v \in Seq(Spaces)
    <3>1. \A i \in (b + 1)..Len(t) : t[i] \in Spaces
      BY <2>1, <2>4 DEF Solid, IsSpace, Spaces
    <3>2. \A i \in 1..(Len(t) - b) : v[i] \in Spaces
      BY <2>4, <2>8, <3>1
    <3> QED BY <2>8, <3>2
  <2>11. t = (u \o m) \o v
    <3>1. PICK w : w = (u \o m) \o v
      OBVIOUS
    <3>2. /\ w \in Seq(Tokens) /\ Len(w) = Len(u) + Len(m) + Len(v)
          /\ \A i \in 1..Len(u) : w[i] = u[i]
          /\ \A i \in 1..Len(m) : w[Len(u) + i] = m[i]
          /\ \A i \in 1..Len(v) : w[Len(u) + Len(m) + i] = v[i]
      <4>1. u \in Seq(Tokens) /\ m \in Seq(Tokens) /\ v \in Seq(Tokens)
        BY <2>5, <2>7, <2>8
      <4> QED BY <3>1, <4>1, Concat3Is
    <3>3. ASSUME NEW i \in 1..Len(t) PROVE t[i] = w[i]
      <4>1. CASE i < a
        BY <2>4, <2>7, <3>2, <4>1
      <4>2. CASE i \in a..b
        <5>1. i - (a - 1) \in 1..Len(m) /\ Len(u) + (i - (a - 1)) = i /\ a + (i - (a - 1)) - 1 = i
          BY <2>4, <2>5, <2>7, <4>2
        <5> QED BY <2>5, <3>2, <5>1
      <4>3. CASE i > b
        <5>1. i - b \in 1..Len(v) /\ Len(u) + Len(m) + (i - b) = i /\ b + (i - b) = i
          BY <2>4, <2>5, <2>7, <2>8, <4>3
        <5> QED BY <2>8, <3>2, <5>1
      <4> QED BY <2>4, <4>1, <4>2, <4>3
    <3>4. Len(t) = Len(w)
      BY <2>4, <2>5, <2>7, <2>8, <3>2
    <3>5. t = w
      BY <3>2, <3>3, <3>4, SameSeq
    <3> QED BY <3>1, <3>5
  <2>12. m # <<>> /\ m[1] = t[a] /\ m[Len(m)] = t[b]
    BY <2>4, <2>5
  <2> QED BY <2>3, <2>4, <2>5, <2>9, <2>10, <2>11, <2>12
<1> QED BY <1>1, <1>2

\* Nothing else is between spaces.
LEMMA TrimIs ==
  ASSUME NEW a \in Seq(Spaces), NEW b \in Seq(Spaces), NEW m \in Seq(Tokens),
         m # <<>> => ~IsSpace(m[1]) /\ ~IsSpace(m[Len(m)])
  PROVE  Trim((a \o m) \o b) = m
<1>1. CASE m = <<>>
  <2>1. (a \o m) \o b \in Seq(Spaces)
    BY <1>1
  <2> QED BY <1>1, <2>1, TrimNone
<1>2. CASE m # <<>>
  <2>0. a \in Seq(Tokens) /\ b \in Seq(Tokens)
    BY SpacesText
  <2>1. PICK t : t = (a \o m) \o b
    OBVIOUS
  <2>2. /\ t \in Seq(Tokens) /\ Len(t) = Len(a) + Len(m) + Len(b) /\ Len(m) > 0
        /\ \A i \in 1..Len(a) : t[i] = a[i]
        /\ \A i \in 1..Len(m) : t[Len(a) + i] = m[i]
        /\ \A i \in 1..Len(b) : t[Len(a) + Len(m) + i] = b[i]
    BY <1>2, <2>0, <2>1
  <2>3. \A i \in 1..Len(a) : IsSpace(a[i])
    BY DEF IsSpace, Spaces
  <2>4. \A i \in 1..Len(b) : IsSpace(b[i])
    BY DEF IsSpace, Spaces
  <2>5. Len(a) \in Nat /\ Len(b) \in Nat /\ Len(m) \in Nat
    OBVIOUS
  <2>6. \A j \in Solid(t) : Len(a) + 1 <= j /\ j <= Len(a) + Len(m)
    <3> TAKE j \in Solid(t)
    <3>1. j \in 1..Len(t) /\ ~IsSpace(t[j])
      BY <2>2 DEF Solid
    <3>2. j \notin 1..Len(a)
      BY <2>2, <2>3, <3>1
    <3>3. ASSUME j > Len(a) + Len(m) PROVE FALSE
      <4>1. j - (Len(a) + Len(m)) \in 1..Len(b)
        BY <2>2, <2>5, <3>1, <3>3
      <4>2. t[j] = b[j - (Len(a) + Len(m))]
        BY <2>2, <2>5, <3>1, <4>1
      <4> QED BY <2>4, <3>1, <4>1, <4>2
    <3> QED BY <2>5, <3>1, <3>2, <3>3
  <2>7. Len(a) + 1 \in Solid(t) /\ Len(a) + Len(m) \in Solid(t)
    <3>1. t[Len(a) + 1] = m[1] /\ t[Len(a) + Len(m)] = m[Len(m)]
      BY <2>2, <2>5
    <3>2. Len(a) + 1 \in DOMAIN t /\ Len(a) + Len(m) \in DOMAIN t
      BY <2>2, <2>5
    <3> QED BY <1>2, <3>1, <3>2 DEF Solid
  <2>8. Trim(t) = SubSeq(t, Len(a) + 1, Len(a) + Len(m))
    BY <2>2, <2>6, <2>7, TrimSome
  <2>9. SubSeq(t, Len(a) + 1, Len(a) + Len(m)) = m
    <3>1. PICK s : s = SubSeq(t, Len(a) + 1, Len(a) + Len(m))
      OBVIOUS
    <3>2. s \in Seq(Tokens) /\ Len(s) = Len(m) /\ \A i \in 1..Len(m) : s[i] = t[Len(a) + i]
      BY <2>2, <2>5, <3>1
    <3>3. s = m
      BY <2>2, <3>2, SameSeq
    <3> QED BY <3>1, <3>3
  <2> QED BY <2>1, <2>8, <2>9
<1> QED BY <1>1, <1>2

\* A space at either end makes no difference.
LEMMA TrimSpace ==
  ASSUME NEW c \in Seq(Tokens)
  PROVE  Trim(Append(c, SP)) = Trim(c) /\ Trim(<<SP>> \o c) = Trim(c)
<1>1. PICK m : m = Trim(c)
  OBVIOUS
<1>2. m \in Seq(Tokens) /\ (m # <<>> => ~IsSpace(m[1]) /\ ~IsSpace(m[Len(m)]))
  BY <1>1, TrimOf
<1>3. PICK a \in Seq(Spaces), b \in Seq(Spaces) : c = (a \o m) \o b
  BY <1>1, TrimOf
<1>4. SP \in Spaces /\ a \in Seq(Tokens) /\ b \in Seq(Tokens) /\ SP \in Tokens
  BY TokensAre, SpacesText DEF Spaces
<1>5. Append(b, SP) \in Seq(Spaces) /\ <<SP>> \o a \in Seq(Spaces)
  BY <1>4
<1>6. Append(c, SP) = (a \o m) \o Append(b, SP)
  <2>1. a \o m \in Seq(Tokens)
    BY <1>2, <1>4
  <2>2. <<SP>> \in Seq(Tokens) /\ Append(c, SP) = c \o <<SP>> /\ Append(b, SP) = b \o <<SP>>
    BY <1>4, AppendConcat
  <2>3. ((a \o m) \o b) \o <<SP>> = (a \o m) \o (b \o <<SP>>)
    BY <1>4, <2>1, <2>2, ConcatAssoc
  <2> QED BY <1>3, <2>2, <2>3
<1>7. <<SP>> \o c = ((<<SP>> \o a) \o m) \o b
  <2>1. <<SP>> \in Seq(Tokens) /\ a \o m \in Seq(Tokens) /\ <<SP>> \o a \in Seq(Tokens)
    BY <1>2, <1>4
  <2>2. <<SP>> \o ((a \o m) \o b) = (<<SP>> \o (a \o m)) \o b
    BY <1>4, <2>1, ConcatAssoc
  <2>3. <<SP>> \o (a \o m) = (<<SP>> \o a) \o m
    BY <1>2, <1>4, <2>1, ConcatAssoc
  <2> QED BY <1>3, <2>2, <2>3
<1>8. Trim((a \o m) \o Append(b, SP)) = m /\ Trim(((<<SP>> \o a) \o m) \o b) = m
  BY <1>2, <1>5, TrimIs
<1> QED BY <1>1, <1>6, <1>7, <1>8

-----------------------------------------------------------------------------
(* Texts that read the same: whatever is before and behind them.  A text is  *)
(* read with its escapes replaced.                                           *)

\* A token with its escapes shown, a text with them shown behind some text,
\* the same with a space after it; alike: the same behind every text.
Shown(x) == IF x = ESC THEN NL ELSE x
Behind(p, a) == Append(p, SP) \o unescapeString(a)
In(p, a) == Append(Behind(p, a), SP)
Alike(a, b) == \A p \in Seq(Tokens) : Collapsed(In(p, a)) = Collapsed(In(p, b))

\* Every token is shown by one (tool/edit.ts:436-461).
LEMMA UnescapedIs ==
  ASSUME NEW t \in Seq(Tokens)
  PROVE  /\ unescapeString(t) \in Seq(Tokens) /\ Len(unescapeString(t)) = Len(t)
         /\ \A i \in 1..Len(t) : unescapeString(t)[i] = Shown(t[i])
<1>1. \A x \in Tokens : Shown(x) \in Tokens
  BY TokensAre DEF Shown
<1>2. unescapeString(t) = [i \in 1..Len(t) |-> Shown(t[i])]
  BY DEF unescapeString, Shown
<1>3. \A i \in 1..Len(t) : Shown(t[i]) \in Tokens
  BY <1>1
<1> QED BY <1>2, <1>3

\* A token more is one shown token more.
LEMMA UnescapedGrows ==
  ASSUME NEW t \in Seq(Tokens), NEW x \in Tokens
  PROVE  unescapeString(Append(t, x)) = Append(unescapeString(t), Shown(x)) /\ Shown(x) \in Tokens
<1>0. Shown(x) \in Tokens
  BY TokensAre DEF Shown
<1>1. PICK b : b = Append(t, x)
  OBVIOUS
<1>2. b \in Seq(Tokens) /\ Len(b) = Len(t) + 1 /\ b[Len(t) + 1] = x /\ \A i \in 1..Len(t) : b[i] = t[i]
  BY <1>1, AppendedIs
<1>3. PICK u : u = unescapeString(t)
  OBVIOUS
<1>4. u \in Seq(Tokens) /\ Len(u) = Len(t) /\ \A i \in 1..Len(t) : u[i] = Shown(t[i])
  BY <1>3, UnescapedIs
<1>5. PICK v : v = unescapeString(b)
  OBVIOUS
<1>6. v \in Seq(Tokens) /\ Len(v) = Len(b) /\ \A i \in 1..Len(b) : v[i] = Shown(b[i])
  <2>1. b \in Seq(Tokens)
    BY <1>2
  <2> QED BY <1>5, <2>1, UnescapedIs
<1>7. PICK w : w = Append(u, Shown(x))
  OBVIOUS
<1>8. w \in Seq(Tokens) /\ Len(w) = Len(u) + 1 /\ w[Len(u) + 1] = Shown(x) /\ \A i \in 1..Len(u) : w[i] = u[i]
  BY <1>0, <1>4, <1>7, AppendedIs
<1>9. v = w
  <2>1. Len(v) = Len(w)
    BY <1>2, <1>4, <1>6, <1>8
  <2>2. ASSUME NEW i \in 1..Len(v) PROVE v[i] = w[i]
    <3>1. CASE i = Len(t) + 1
      BY <1>2, <1>4, <1>6, <1>8, <3>1
    <3>2. CASE i \in 1..Len(t)
      BY <1>2, <1>4, <1>6, <1>8, <3>2
    <3> QED BY <1>2, <1>6, <3>1, <3>2
  <2>3. v \in Seq(Tokens) /\ w \in Seq(Tokens)
    BY <1>6, <1>8
  <2> QED BY <2>1, <2>2, <2>3, SameSeq
<1> QED BY <1>0, <1>1, <1>3, <1>5, <1>7, <1>9

\* Nothing is shown of nothing.
LEMMA UnescapedEmpty == unescapeString(<<>>) = <<>>
BY DEF unescapeString

\* Two texts are shown one behind the other.
LEMMA UnescapedConcat ==
  ASSUME NEW a \in Seq(Tokens), NEW b \in Seq(Tokens)
  PROVE  unescapeString(a \o b) = unescapeString(a) \o unescapeString(b)
<1>1. PICK u : u = unescapeString(a)
  OBVIOUS
<1>2. u \in Seq(Tokens)
  BY <1>1, UnescapedIs
<1> DEFINE S == {s \in Seq(Tokens) : unescapeString(a \o s) = u \o unescapeString(s)}
<1>3. <<>> \in S
  <2>1. a \o <<>> = a /\ u \o <<>> = u /\ <<>> \in Seq(Tokens)
    BY <1>2, TokensAre
  <2> QED BY <1>1, <2>1, UnescapedEmpty
<1>4. ASSUME NEW s \in Seq(Tokens), NEW x \in Tokens, s \in S PROVE Append(s, x) \in S
  <2>1. PICK v : v = unescapeString(s)
    OBVIOUS
  <2>2. PICK y : y = Shown(x)
    OBVIOUS
  <2>3. v \in Seq(Tokens) /\ y \in Tokens /\ unescapeString(Append(s, x)) = Append(v, y)
    BY <2>1, <2>2, UnescapedIs, UnescapedGrows
  <2>4. a \o s \in Seq(Tokens) /\ a \o Append(s, x) = Append(a \o s, x) /\ Append(s, x) \in Seq(Tokens)
    OBVIOUS
  <2>5. unescapeString(Append(a \o s, x)) = Append(unescapeString(a \o s), y)
    BY <2>2, <2>4, UnescapedGrows
  <2>6. unescapeString(a \o s) = u \o v
    BY <1>4, <2>1
  <2>7. Append(u \o v, y) = u \o Append(v, y)
    <3>1. <<y>> \in Seq(Tokens) /\ Append(v, y) = v \o <<y>>
      BY <2>3, AppendConcat
    <3>2. u \o v \in Seq(Tokens)
      BY <1>2, <2>3, ConcatIs
    <3>3. Append(u \o v, y) = (u \o v) \o <<y>>
      BY <2>3, <3>2, AppendConcat
    <3>4. (u \o v) \o <<y>> = u \o (v \o <<y>>)
      BY <1>2, <2>3, <3>1, ConcatAssoc
    <3> QED BY <3>1, <3>3, <3>4
  <2> QED BY <2>3, <2>4, <2>5, <2>6, <2>7
<1>5. \A s \in Seq(Tokens) : s \in S
  <2> HIDE DEF S
  <2> QED BY <1>3, <1>4, ByAppending
<1> QED BY <1>1, <1>5

\* Spaces are shown as they are.
LEMMA UnescapedSpaces ==
  ASSUME NEW s \in Seq(Spaces)
  PROVE  unescapeString(s) = s
<1>1. \A i \in DOMAIN s : s[i] # ESC
  BY TokensAre DEF Spaces
<1> QED BY <1>1 DEF unescapeString

\* What is shown has no escapes left.
LEMMA UnescapedTwice ==
  ASSUME NEW t \in Seq(Tokens)
  PROVE  unescapeString(unescapeString(t)) = unescapeString(t)
<1>1. PICK u : u = unescapeString(t)
  OBVIOUS
<1>2. u \in Seq(Tokens) /\ Len(u) = Len(t) /\ \A i \in 1..Len(t) : u[i] = Shown(t[i])
  BY <1>1, UnescapedIs
<1>3. \A i \in DOMAIN u : u[i] # ESC
  BY <1>2, TokensAre DEF Shown
<1>4. unescapeString(u) = u
  BY <1>2, <1>3 DEF unescapeString
<1> QED BY <1>1, <1>4

\* The texts that Alike compares.
LEMMA BehindIs ==
  ASSUME NEW p \in Seq(Tokens), NEW a \in Seq(Tokens)
  PROVE  /\ Append(p, SP) \in Seq(Tokens) /\ Behind(p, a) \in Seq(Tokens) /\ In(p, a) \in Seq(Tokens)
         /\ Collapsed(In(p, a)) = Put(Collapsed(Behind(p, a)), SP)
         /\ Collapsed(Behind(p, a)) \in Seq(Tokens)
<1>1. SP \in Tokens /\ Append(p, SP) \in Seq(Tokens) /\ unescapeString(a) \in Seq(Tokens)
  BY TokensAre, UnescapedIs
<1>2. Behind(p, a) \in Seq(Tokens)
  BY <1>1 DEF Behind
<1>3. PICK b \in Seq(Tokens) : b = Behind(p, a)
  BY <1>2
<1>4. Append(b, SP) \in Seq(Tokens) /\ Collapsed(Append(b, SP)) = Put(Collapsed(b), SP) /\ Collapsed(b) \in Seq(Tokens)
  BY <1>1, CollapsedGrows, CollapsedType
<1> QED BY <1>1, <1>3, <1>4 DEF In

\* A space at the beginning collapses to a space at the beginning, or to none.
LEMMA SpaceFirst ==
  ASSUME NEW t \in Seq(Tokens)
  PROVE  Collapsed(<<SP>> \o t) \in {Collapsed(t), <<SP>> \o Collapsed(t)}
<1>0. SP \in Tokens /\ <<SP>> \in Seq(Tokens) /\ IsSpace(SP)
  BY TokensAre DEF IsSpace
<1> DEFINE S == {s \in Seq(Tokens) : Collapsed(<<SP>> \o s) \in {Collapsed(s), <<SP>> \o Collapsed(s)}}
<1>1. <<>> \in S
  <2>1. <<>> \in Seq(Tokens) /\ <<SP>> \o <<>> = <<SP>> /\ Append(<<>>, SP) = <<SP>>
    BY <1>0
  <2>2. Collapsed(<<SP>>) = Put(<<>>, SP) /\ Collapsed(<<>>) = <<>>
    BY <1>0, <2>1, CollapsedGrows
  <2>3. Put(<<>>, SP) = <<SP>>
    BY <1>0, <2>1 DEF Put
  <2> QED BY <2>1, <2>2, <2>3
<1>2. ASSUME NEW s \in Seq(Tokens), NEW x \in Tokens, s \in S PROVE Append(s, x) \in S
  <2>1. <<SP>> \o s \in Seq(Tokens) /\ <<SP>> \o Append(s, x) = Append(<<SP>> \o s, x) /\ Append(s, x) \in Seq(Tokens)
    BY <1>0
  <2>2. PICK c : c = Collapsed(s)
    OBVIOUS
  <2>3. PICK d : d = Collapsed(<<SP>> \o s)
    OBVIOUS
  <2>4. c \in Seq(Tokens) /\ Collapsed(Append(s, x)) = Put(c, x) /\ Collapsed(Append(<<SP>> \o s, x)) = Put(d, x)
        /\ d \in {c, <<SP>> \o c}
    BY <1>2, <2>1, <2>2, <2>3, CollapsedType, CollapsedGrows
  <2>5. ASSUME d = <<SP>> \o c PROVE Put(d, x) \in {Put(c, x), <<SP>> \o Put(c, x)}
    <3>1. d \in Seq(Tokens) /\ d # <<>> /\ Last(d) = IF c = <<>> THEN SP ELSE Last(c)
      BY <1>0, <2>4, <2>5 DEF Last
    <3>2. \A z \in Tokens : Append(d, z) = <<SP>> \o Append(c, z)
      BY <1>0, <2>4, <2>5
    <3>3. CASE ~IsSpace(x)
      BY <3>2, <3>3 DEF Put
    <3>4. CASE IsSpace(x) /\ c = <<>>
      <4>1. Put(d, x) = d
        BY <3>1, <3>4 DEF Put
      <4>2. Put(c, x) = Append(c, SP)
        BY <3>4 DEF Put
      <4>3. d = Append(c, SP)
        BY <1>0, <2>5, <3>4
      <4> QED BY <4>1, <4>2, <4>3
    <3>5. CASE IsSpace(x) /\ c # <<>> /\ Last(c) = SP
      <4>1. Put(d, x) = d /\ Put(c, x) = c
        BY <3>1, <3>5 DEF Put
      <4> QED BY <2>5, <4>1
    <3>6. CASE IsSpace(x) /\ c # <<>> /\ Last(c) # SP
      <4>1. Put(d, x) = Append(d, SP) /\ Put(c, x) = Append(c, SP)
        BY <3>1, <3>6 DEF Put
      <4> QED BY <1>0, <3>2, <4>1
    <3> QED BY <3>3, <3>4, <3>5, <3>6
  <2> QED BY <2>1, <2>4, <2>5
<1>3. \A s \in Seq(Tokens) : s \in S
  <2> HIDE DEF S
  <2> QED BY <1>1, <1>2, ByAppending
<1> QED BY <1>3

\* Texts that are alike are the same once escapes are shown and spaces
\* normalised.
LEMMA AlikePlain ==
  ASSUME NEW a \in Seq(Tokens), NEW b \in Seq(Tokens), Alike(a, b)
  PROVE  Plain(a) = Plain(b)
<1>0. SP \in Tokens /\ <<>> \in Seq(Tokens) /\ Append(<<>>, SP) = <<SP>>
  BY TokensAre
<1>1. ASSUME NEW t \in Seq(Tokens) PROVE Plain(t) = Trim(Collapsed(In(<<>>, t)))
  <2>1. PICK u : u = unescapeString(t)
    OBVIOUS
  <2>2. PICK c : c = Collapsed(u)
    OBVIOUS
  <2>3. PICK d : d = Collapsed(<<SP>> \o u)
    OBVIOUS
  <2>4. u \in Seq(Tokens) /\ c \in Seq(Tokens) /\ d \in {c, <<SP>> \o c} /\ d \in Seq(Tokens)
    <3>1. u \in Seq(Tokens)
      BY <2>1, UnescapedIs
    <3>2. <<SP>> \in Seq(Tokens)
      BY <1>0
    <3>3. <<SP>> \o u \in Seq(Tokens)
      BY <3>1, <3>2
    <3> QED BY <2>2, <2>3, <3>1, <3>3, CollapsedType, SpaceFirst
  <2>5. Trim(d) = Trim(c)
    BY <2>4, TrimSpace
  <2>6. Collapsed(In(<<>>, t)) = Put(d, SP)
    BY <1>0, <2>1, <2>3, BehindIs DEF Behind
  <2>7. Put(d, SP) \in {d, Append(d, SP)}
    BY DEF Put, IsSpace
  <2>8. Trim(Put(d, SP)) = Trim(d)
    BY <2>4, <2>7, TrimSpace
  <2> QED BY <2>1, <2>2, <2>5, <2>6, <2>8 DEF Plain, Normalized
<1>2. Collapsed(In(<<>>, a)) = Collapsed(In(<<>>, b))
  BY <1>0 DEF Alike
<1> QED BY <1>1, <1>2

\* A text is like itself.
LEMMA AlikeItself == \A a : Alike(a, a)
BY DEF Alike

\* Alike is symmetric and transitive.
LEMMA AlikeBoth ==
  ASSUME NEW a, NEW b, NEW c, Alike(a, b)
  PROVE  Alike(b, a) /\ (Alike(b, c) => Alike(a, c))
BY DEF Alike

\* A text is like what is shown of it (EscapeNormalizedReplacer).
LEMMA AlikeUnescaped ==
  ASSUME NEW t \in Seq(Tokens)
  PROVE  Alike(unescapeString(t), t)
BY UnescapedTwice DEF Alike, In, Behind

\* One token more, behind some text.
LEMMA BehindGrows ==
  ASSUME NEW p \in Seq(Tokens), NEW a \in Seq(Tokens), NEW x \in Tokens
  PROVE  Collapsed(Behind(p, Append(a, x))) = Put(Collapsed(Behind(p, a)), Shown(x))
<1>1. PICK q \in Seq(Tokens) : q = Append(p, SP)
  BY BehindIs
<1>2. PICK u \in Seq(Tokens) : u = unescapeString(a)
  BY UnescapedIs
<1>3. PICK y \in Tokens : y = Shown(x)
  BY UnescapedGrows
<1>4. unescapeString(Append(a, x)) = Append(u, y)
  BY <1>2, <1>3, UnescapedGrows
<1>5. q \o Append(u, y) = Append(q \o u, y) /\ q \o u \in Seq(Tokens)
  OBVIOUS
<1>6. Collapsed(Append(q \o u, y)) = Put(Collapsed(q \o u), y)
  BY <1>5, CollapsedGrows
<1> QED BY <1>1, <1>2, <1>3, <1>4, <1>5, <1>6 DEF Behind

\* A text is like what is left of it.
LEMMA AlikeCollapsed ==
  ASSUME NEW t \in Seq(Tokens)
  PROVE  Alike(Collapsed(t), t)
<1> SUFFICES ASSUME NEW p \in Seq(Tokens) PROVE Collapsed(In(p, Collapsed(t))) = Collapsed(In(p, t))
  BY DEF Alike
<1>0. SP \in Tokens /\ Shown(SP) = SP /\ SP \in Spaces
  BY TokensAre DEF Shown, Spaces
<1> DEFINE F(s) == Collapsed(Behind(p, s))
<1> DEFINE S == {s \in Seq(Tokens) : F(Collapsed(s)) = F(s)}
<1>1. <<>> \in S
  <2>1. <<>> \in Seq(Tokens)
    BY <1>0
  <2> QED BY <1>0, <2>1, CollapsedGrows
<1>2. ASSUME NEW s \in Seq(Tokens), NEW x \in Tokens, s \in S PROVE Append(s, x) \in S
  <2>1. PICK c \in Seq(Tokens) : c = Collapsed(s)
    BY CollapsedType
  <2>2. Append(s, x) \in Seq(Tokens) /\ Collapsed(Append(s, x)) = Put(c, x)
    BY <2>1, CollapsedGrows
  <2>3. F(c) = F(s)
    BY <1>2, <2>1
  <2>4. F(Append(s, x)) = Put(F(s), Shown(x))
    BY BehindGrows
  <2>5. F(s) \in Seq(Tokens)
    BY BehindIs
  <2> HIDE DEF F
  <2>6. F(Put(c, x)) = Put(F(s), Shown(x))
    <3>1. CASE ~IsSpace(x)
      <4>1. Put(c, x) = Append(c, x)
        BY <3>1 DEF Put
      <4>2. F(Append(c, x)) = Put(F(c), Shown(x))
        BY BehindGrows DEF F
      <4> QED BY <2>3, <4>1, <4>2
    <3>2. CASE IsSpace(x)
      <4>1. Shown(x) = x /\ x \in Spaces /\ SP \in Spaces
        BY <1>0, <3>2, TokensAre DEF Shown, IsSpace, Spaces
      <4>2. CASE c # <<>> /\ Last(c) = SP
        <5>1. Put(c, x) = c
          BY <3>2, <4>2 DEF Put
        <5>2. PICK d \in Seq(Tokens) : c = Append(d, SP)
          <6>1. SubSeq(c, 1, Len(c)) = c /\ Len(c) \in 1..Len(c) /\ c[Len(c)] = SP
            BY <4>2 DEF Last
          <6> QED BY <6>1, PrefixGrows
        <5>3. F(c) = Put(F(d), SP) /\ F(d) \in Seq(Tokens)
          BY <1>0, <5>2, BehindGrows, BehindIs DEF F
        <5>4. Put(Put(F(d), SP), x) = Put(F(d), SP)
          BY <4>1, <5>3, SpacesPut DEF Spaces
        <5> QED BY <2>3, <4>1, <5>1, <5>3, <5>4
      <4>3. CASE ~(c # <<>> /\ Last(c) = SP)
        <5>1. Put(c, x) = Append(c, SP)
          BY <3>2, <4>3 DEF Put
        <5>2. F(Append(c, SP)) = Put(F(c), SP)
          BY <1>0, BehindGrows DEF F
        <5>3. Put(F(s), SP) = Put(F(s), x)
          BY <2>5, <4>1, SpacesPut DEF Spaces
        <5> QED BY <2>3, <4>1, <5>1, <5>2, <5>3
      <4> QED BY <4>2, <4>3
    <3> QED BY <3>1, <3>2
  <2> QED BY <2>2, <2>4, <2>6
<1>3. \A s \in Seq(Tokens) : s \in S
  <2> HIDE DEF S
  <2> QED BY <1>1, <1>2, ByAppending
<1>4. F(Collapsed(t)) = F(t)
  BY <1>3
<1> QED BY <1>4, BehindIs, CollapsedType

\* Four texts in a row.
LEMMA ConcatMiddle ==
  \A q, a, u, b : q \in Seq(Tokens) /\ a \in Seq(Tokens) /\ u \in Seq(Tokens) /\ b \in Seq(Tokens)
                 => /\ q \o ((a \o u) \o b) = ((q \o a) \o u) \o b
                    /\ q \o a \in Seq(Tokens) /\ (q \o a) \o u \in Seq(Tokens)
<1> TAKE q, a, u, b
<1> SUFFICES ASSUME q \in Seq(Tokens), a \in Seq(Tokens), u \in Seq(Tokens), b \in Seq(Tokens)
             PROVE  /\ q \o ((a \o u) \o b) = ((q \o a) \o u) \o b
                    /\ q \o a \in Seq(Tokens) /\ (q \o a) \o u \in Seq(Tokens)
  OBVIOUS
<1>1. q \o ((a \o u) \o b) = (q \o (a \o u)) \o b
  BY TextConcat, TextAssoc
<1>2. q \o (a \o u) = (q \o a) \o u
  BY TextAssoc
<1> QED BY <1>1, <1>2, TextConcat

\* Spaces around a text make no difference between two others.
LEMMA SpacesAround ==
  ASSUME NEW p \in Seq(Tokens), NEW a \in Seq(Spaces), NEW b \in Seq(Spaces), NEW u \in Seq(Tokens)
  PROVE  Collapsed(Append(Append(p, SP) \o ((a \o u) \o b), SP)) = Collapsed(Append(Append(p, SP) \o u, SP))
<1>1. PICK q : q = Append(p, SP)
  OBVIOUS
<1>2. q \in Seq(Tokens) /\ a \in Seq(Tokens) /\ b \in Seq(Tokens) /\ SP \in Tokens
  BY <1>1, TokensAre, SpacesText
<1>3. PICK k : k = (q \o a) \o u
  OBVIOUS
<1>4. q \o ((a \o u) \o b) = k \o b /\ q \o a \in Seq(Tokens) /\ k \in Seq(Tokens) /\ q \o u \in Seq(Tokens)
  <2>1. q \o ((a \o u) \o b) = ((q \o a) \o u) \o b /\ q \o a \in Seq(Tokens) /\ (q \o a) \o u \in Seq(Tokens)
    BY <1>2, ConcatMiddle, SMTT(30)
  <2>2. q \o u \in Seq(Tokens)
    BY <1>2, TextConcat
  <2> QED BY <1>3, <2>1, <2>2
<1>5. Collapsed(Append(k \o b, SP)) = Collapsed(Append(k, SP))
  BY <1>4, SpacesBefore DEF Spaces
<1>6. Collapsed(q \o a) = Collapsed(q)
  BY <1>1, SpacesBehind DEF Spaces
<1>7. Collapsed(k) = Collapsed(q \o u)
  <2>1. PICK j : j = q \o a
    OBVIOUS
  <2>2. j \in Seq(Tokens) /\ Collapsed(j) = Collapsed(q)
    BY <1>4, <1>6, <2>1
  <2>3. Collapsed(j \o u) = Collapsed(q \o u)
    BY <1>2, <2>2, CollapsedTogether
  <2> QED BY <1>3, <2>1, <2>3
<1>8. Collapsed(Append(k, SP)) = Put(Collapsed(k), SP) /\ Collapsed(Append(q \o u, SP)) = Put(Collapsed(q \o u), SP)
  BY <1>2, <1>4, CollapsedGrows
<1> QED BY <1>1, <1>4, <1>5, <1>7, <1>8

\* A text is like itself trimmed (LineTrimmedReplacer,
\* TrimmedBoundaryReplacer).
LEMMA AlikeTrim ==
  ASSUME NEW t \in Seq(Tokens)
  PROVE  Alike(Trim(t), t)
<1> SUFFICES ASSUME NEW p \in Seq(Tokens) PROVE Collapsed(In(p, Trim(t))) = Collapsed(In(p, t))
  BY DEF Alike
<1>1. PICK m : m = Trim(t)
  OBVIOUS
<1>2. PICK a \in Seq(Spaces), b \in Seq(Spaces) : t = (a \o m) \o b
  BY <1>1, TrimOf
<1>3. a \in Seq(Tokens) /\ b \in Seq(Tokens) /\ m \in Seq(Tokens)
  BY <1>1, SpacesText, TrimOf
<1>4. PICK u : u = unescapeString(m)
  OBVIOUS
<1>5. a \o m \in Seq(Tokens) /\ u \in Seq(Tokens)
  BY <1>3, <1>4, TextConcat, UnescapedIs
<1>6. unescapeString(t) = (a \o u) \o b
  <2>1. unescapeString((a \o m) \o b) = unescapeString(a \o m) \o unescapeString(b)
    BY <1>3, <1>5, UnescapedConcat
  <2>2. unescapeString(a \o m) = unescapeString(a) \o unescapeString(m)
    BY <1>3, UnescapedConcat
  <2> QED BY <1>2, <1>4, <2>1, <2>2, UnescapedSpaces
<1>7. Collapsed(Append(Append(p, SP) \o ((a \o u) \o b), SP)) = Collapsed(Append(Append(p, SP) \o u, SP))
  BY <1>5, SpacesAround
<1> QED BY <1>1, <1>4, <1>6, <1>7 DEF In, Behind

\* A text is like itself normalised (WhitespaceNormalizedReplacer).
LEMMA AlikeNormalized ==
  ASSUME NEW t \in Seq(Tokens)
  PROVE  Alike(Normalized(t), t) /\ Normalized(t) \in Seq(Tokens)
<1>1. PICK c \in Seq(Tokens) : c = Collapsed(t)
  BY CollapsedType
<1>2. Alike(Trim(c), c) /\ Trim(c) \in Seq(Tokens)
  BY AlikeTrim, TrimOf
<1>3. Alike(c, t)
  BY <1>1, AlikeCollapsed
<1> QED BY <1>1, <1>2, <1>3, AlikeBoth DEF Normalized

\* Two lines are shown line by line.
LEMMA UnescapedNewline ==
  ASSUME NEW x \in Seq(Tokens), NEW y \in Seq(Tokens)
  PROVE  /\ unescapeString(x \o (<<NL>> \o y)) = unescapeString(x) \o (<<NL>> \o unescapeString(y))
         /\ x \o (<<NL>> \o y) \in Seq(Tokens)
<1>1. PICK n : n = <<NL>>
  OBVIOUS
<1>2. n \in Seq(Tokens) /\ n \in Seq(Spaces)
  BY <1>1, TokensAre DEF Spaces
<1>3. n \o y \in Seq(Tokens) /\ x \o (n \o y) \in Seq(Tokens)
  BY <1>2, TextConcat
<1>4. unescapeString(n \o y) = unescapeString(n) \o unescapeString(y)
  BY <1>2, UnescapedConcat
<1>5. unescapeString(x \o (n \o y)) = unescapeString(x) \o unescapeString(n \o y)
  BY <1>3, UnescapedConcat
<1> QED BY <1>1, <1>2, <1>3, <1>4, <1>5, UnescapedSpaces

\* A newline counts as a space.
LEMMA NewlineIsSpace ==
  ASSUME NEW e \in Seq(Tokens), NEW v \in Seq(Tokens)
  PROVE  Collapsed(e \o (<<NL>> \o v)) = Collapsed(Append(e, SP) \o v)
<1>0. NL \in Tokens /\ SP \in Tokens /\ <<NL>> \in Seq(Tokens)
  BY TokensAre
<1>1. PICK g, h : g = Append(e, NL) /\ h = Append(e, SP)
  OBVIOUS
<1>2. g \in Seq(Tokens) /\ h \in Seq(Tokens)
  BY <1>0, <1>1
<1>3. Collapsed(g) = Collapsed(h)
  <2>1. Collapsed(e) \in Seq(Tokens) /\ Collapsed(g) = Put(Collapsed(e), NL) /\ Collapsed(h) = Put(Collapsed(e), SP)
    BY <1>0, <1>1, CollapsedGrows, CollapsedType
  <2> QED BY <2>1, SpacesPut
<1>4. Collapsed(g \o v) = Collapsed(h \o v)
  BY <1>2, <1>3, CollapsedTogether
<1>5. e \o (<<NL>> \o v) = g \o v
  <2>1. e \o (<<NL>> \o v) = (e \o <<NL>>) \o v
    BY <1>0, TextAssoc
  <2>2. g = e \o <<NL>>
    BY <1>0, <1>1, TextAppend
  <2> QED BY <2>1, <2>2
<1> QED BY <1>1, <1>4, <1>5

\* Two lines behind some text: the second one behind the first.
LEMMA BehindTwo ==
  ASSUME NEW p \in Seq(Tokens), NEW x \in Seq(Tokens), NEW y \in Seq(Tokens)
  PROVE  /\ Collapsed(In(p, x \o (<<NL>> \o y))) = Collapsed(In(Behind(p, x), y))
         /\ Collapsed(In(p, x \o (<<NL>> \o y))) = Put(Collapsed(In(p, x) \o unescapeString(y)), SP)
<1>1. PICK e, u, v : e = Behind(p, x) /\ u = unescapeString(x) /\ v = unescapeString(y)
  OBVIOUS
<1>2. e \in Seq(Tokens) /\ u \in Seq(Tokens) /\ v \in Seq(Tokens)
  BY <1>1, BehindIs, UnescapedIs
<1>3. PICK z : z = x \o (<<NL>> \o y)
  OBVIOUS
<1>4. z \in Seq(Tokens) /\ unescapeString(z) = u \o (<<NL>> \o v)
  BY <1>1, <1>3, UnescapedNewline
<1>5. Behind(p, z) = e \o (<<NL>> \o v)
  <2>1. PICK q, w : q = Append(p, SP) /\ w = <<NL>> \o v
    OBVIOUS
  <2>2. q \in Seq(Tokens) /\ w \in Seq(Tokens)
    BY <1>2, <2>1, TokensAre, BehindIs
  <2>3. q \o (u \o w) = (q \o u) \o w
    BY <1>2, <2>2, TextAssoc, SMTT(30)
  <2> QED BY <1>1, <1>4, <2>1, <2>3 DEF Behind
<1>6. Collapsed(Behind(p, z)) = Collapsed(Append(e, SP) \o v)
  BY <1>2, <1>5, NewlineIsSpace
<1>7. Collapsed(In(p, z)) = Put(Collapsed(Behind(p, z)), SP)
  BY <1>4, BehindIs
<1>8. Collapsed(In(e, y)) = Put(Collapsed(Append(e, SP) \o v), SP)
  BY <1>1, <1>2, BehindIs DEF Behind
<1>9. In(p, x) = Append(e, SP)
  BY <1>1 DEF In
<1> QED BY <1>1, <1>3, <1>6, <1>7, <1>8, <1>9

\* Two texts, a newline between them.
LEMMA AlikeTwo ==
  ASSUME NEW a \in Seq(Tokens), NEW b \in Seq(Tokens), NEW c \in Seq(Tokens), NEW d \in Seq(Tokens),
         Alike(a, b), Alike(c, d)
  PROVE  Alike(a \o (<<NL>> \o c), b \o (<<NL>> \o d))
<1> SUFFICES ASSUME NEW p \in Seq(Tokens)
             PROVE  Collapsed(In(p, a \o (<<NL>> \o c))) = Collapsed(In(p, b \o (<<NL>> \o d)))
  BY DEF Alike
<1>1. PICK f, g, v : f = In(p, a) /\ g = In(p, b) /\ v = unescapeString(d)
  OBVIOUS
<1>2. f \in Seq(Tokens) /\ g \in Seq(Tokens) /\ v \in Seq(Tokens) /\ Behind(p, a) \in Seq(Tokens)
  BY <1>1, BehindIs, UnescapedIs
<1>3. Collapsed(In(p, a \o (<<NL>> \o c))) = Collapsed(In(Behind(p, a), c))
  BY BehindTwo
<1>4. Collapsed(In(Behind(p, a), c)) = Collapsed(In(Behind(p, a), d))
  BY <1>2 DEF Alike
<1>5. Collapsed(In(Behind(p, a), d)) = Put(Collapsed(f \o v), SP)
  BY <1>1, BehindTwo
<1>6. Collapsed(f \o v) = Collapsed(g \o v)
  <2>1. Collapsed(f) = Collapsed(g)
    BY <1>1 DEF Alike
  <2> QED BY <1>2, <2>1, CollapsedTogether
<1>7. Collapsed(In(p, b \o (<<NL>> \o d))) = Put(Collapsed(g \o v), SP)
  BY <1>1, BehindTwo
<1> QED BY <1>3, <1>4, <1>5, <1>6, <1>7

\* A newline at the end does not count.
LEMMA AlikeNewline ==
  ASSUME NEW j \in Seq(Tokens)
  PROVE  Alike(j, j \o (<<NL>> \o <<>>))
<1> SUFFICES ASSUME NEW p \in Seq(Tokens) PROVE Collapsed(In(p, j)) = Collapsed(In(p, j \o (<<NL>> \o <<>>)))
  BY DEF Alike
<1>1. Collapsed(In(p, j \o (<<NL>> \o <<>>))) = Put(Collapsed(In(p, j) \o unescapeString(<<>>)), SP)
  <2>1. <<>> \in Seq(Tokens)
    OBVIOUS
  <2> QED BY <2>1, BehindTwo
<1>2. PICK k : k = In(p, j)
  OBVIOUS
<1>3. k \in Seq(Tokens) /\ k \o <<>> = k
  BY <1>2, BehindIs
<1>4. Collapsed(k) = Put(Collapsed(Behind(p, j)), SP) /\ Collapsed(Behind(p, j)) \in Seq(Tokens)
  BY <1>2, BehindIs
<1>5. Put(Put(Collapsed(Behind(p, j)), SP), SP) = Put(Collapsed(Behind(p, j)), SP)
  BY <1>4, SpacesPut
<1> QED BY <1>1, <1>2, <1>3, <1>4, <1>5, UnescapedEmpty

-----------------------------------------------------------------------------
(* Lines *)

\* Lines, and the lines of the first tokens.
Row == Seq(Tokens \ {NL})

LinesRule(t, n, f) ==
  f = [k \in 0..n |-> IF k = 0 THEN <<<<>>>> ELSE Cut(f[k - 1], t[k])]

\* There is a function that tells the lines of the first tokens.
LEMMA LinesExist ==
  ASSUME NEW t, NEW n \in Nat
  PROVE  \E f : LinesRule(t, n, f)
<1> DEFINE S == {k \in Nat : \E f : LinesRule(t, k, f)}
<1>1. 0 \in S
  <2> DEFINE f == [i \in 0..0 |-> <<<<>>>>]
  <2>1. f = [i \in 0..0 |-> IF i = 0 THEN <<<<>>>> ELSE Cut(f[i - 1], t[i])]
    OBVIOUS
  <2>2. LinesRule(t, 0, f)
    BY <2>1 DEF LinesRule
  <2> HIDE DEF f
  <2> QED BY <2>2
<1>2. ASSUME NEW k \in 1..n, k - 1 \in S PROVE k \in S
  <2>1. PICK f : LinesRule(t, k - 1, f)
    BY <1>2
  <2> DEFINE g == [i \in 0..k |-> IF i = k THEN Cut(f[k - 1], t[k]) ELSE f[i]]
  <2>2. \A i \in 0..(k - 1) : f[i] = IF i = 0 THEN <<<<>>>> ELSE Cut(f[i - 1], t[i])
    BY <2>1 DEF LinesRule
  <2>3. \A i \in 0..k : g[i] = IF i = 0 THEN <<<<>>>> ELSE Cut(g[i - 1], t[i])
    <3> TAKE i \in 0..k
    <3>1. CASE i = k
      BY <3>1
    <3>2. CASE i # k
      BY <3>2, <2>2
    <3> QED BY <3>1, <3>2
  <2>4. g = [i \in 0..k |-> IF i = 0 THEN <<<<>>>> ELSE Cut(g[i - 1], t[i])]
    BY <2>3
  <2>5. LinesRule(t, k, g)
    BY <2>4 DEF LinesRule
  <2> HIDE DEF g
  <2> QED BY <2>5
<1>3. n \in S
  <2> HIDE DEF S
  <2> QED BY <1>1, <1>2, UpwardsTo
<1> QED BY <1>3

\* The lines of a text are its last value.
LEMMA LinesIs ==
  ASSUME NEW t, Len(t) \in Nat
  PROVE  \E f : LinesRule(t, Len(t), f) /\ Lines(t) = f[Len(t)]
<1> DEFINE f == CHOOSE g : g = [k \in 0..Len(t) |-> IF k = 0 THEN <<<<>>>> ELSE Cut(g[k - 1], t[k])]
<1>1. \E g : LinesRule(t, Len(t), g)
  BY LinesExist
<1>2. LinesRule(t, Len(t), f)
  BY <1>1, Zenon DEF LinesRule
<1>3. Lines(t) = f[Len(t)]
  BY Zenon DEF Lines
<1> HIDE DEF f
<1> QED BY <1>2, <1>3

\* The lines of a text with one token more.
LEMMA LinesGrow ==
  ASSUME NEW t \in Seq(Tokens), NEW x \in Tokens
  PROVE  Lines(<<>>) = <<<<>>>> /\ Lines(Append(t, x)) = Cut(Lines(t), x)
<1>1. Lines(<<>>) = <<<<>>>>
  <2>1. Len(<<>>) = 0
    OBVIOUS
  <2>2. PICK f : LinesRule(<<>>, 0, f) /\ Lines(<<>>) = f[0]
    BY <2>1, LinesIs
  <2> QED BY <2>2 DEF LinesRule
<1>2. PICK n \in Nat : n = Len(t)
  OBVIOUS
<1>3. PICK b : b = Append(t, x)
  OBVIOUS
<1>4. b \in Seq(Tokens) /\ Len(b) = n + 1 /\ b[n + 1] = x /\ \A i \in 1..n : b[i] = t[i]
  BY <1>2, <1>3, AppendedIs
<1>5. PICK f : LinesRule(t, n, f) /\ Lines(t) = f[n]
  BY <1>2, LinesIs
<1>6. PICK g : LinesRule(b, n + 1, g) /\ Lines(b) = g[n + 1]
  BY <1>4, LinesIs
<1>7. \A i \in 0..n : f[i] = IF i = 0 THEN <<<<>>>> ELSE Cut(f[i - 1], t[i])
  BY <1>5 DEF LinesRule
<1>8. \A i \in 0..(n + 1) : g[i] = IF i = 0 THEN <<<<>>>> ELSE Cut(g[i - 1], b[i])
  BY <1>6 DEF LinesRule
<1> DEFINE K == {k \in 0..n : f[k] = g[k]}
<1>9. n \in K
  <2>1. 0 \in K
    BY <1>7, <1>8
  <2>2. ASSUME NEW k \in 1..n, k - 1 \in K PROVE k \in K
    <3>1. b[k] = t[k] /\ f[k - 1] = g[k - 1]
      BY <1>4, <2>2
    <3>2. f[k] = Cut(f[k - 1], t[k]) /\ g[k] = Cut(g[k - 1], b[k])
      BY <1>7, <1>8
    <3> QED BY <3>1, <3>2
  <2> HIDE DEF K
  <2>3. \A k \in 0..n : k \in K
    BY <2>1, <2>2, UpwardsTo
  <2> QED BY <2>3
<1>10. g[n + 1] = Cut(g[n], x)
  <2>1. n + 1 \in 0..(n + 1) /\ n + 1 # 0 /\ (n + 1) - 1 = n
    OBVIOUS
  <2> QED BY <1>4, <1>8, <2>1
<1> QED BY <1>1, <1>3, <1>5, <1>6, <1>9, <1>10

\* Lines are texts without newlines.
LEMMA RowsAre ==
  /\ Row \in SUBSET Seq(Tokens) /\ <<>> \in Row /\ \A l \in Row, x \in Tokens \ {NL} : Append(l, x) \in Row
  /\ Seq(Row) \in SUBSET Seq(Seq(Tokens))
<1>1. <<>> \in Row
  BY TokensAre DEF Row
<1>2. \A l \in Row : l \in Seq(Tokens)
  BY DEF Row
<1>3. \A l \in Row, x \in Tokens \ {NL} : Append(l, x) \in Row
  BY DEF Row
<1>4. \A s \in Seq(Row) : s \in Seq(Seq(Tokens))
  BY <1>2
<1> QED BY <1>1, <1>2, <1>3, <1>4

\* A text is split into lines, at least one.
LEMMA LinesType ==
  ASSUME NEW t \in Seq(Tokens)
  PROVE  Lines(t) \in Seq(Row) /\ Lines(t) # <<>>
<1> DEFINE S == {s \in Seq(Tokens) : Lines(s) \in Seq(Row) /\ Lines(s) # <<>>}
<1>1. <<>> \in S
  <2>1. SP \in Tokens /\ <<>> \in Seq(Tokens)
    BY TokensAre
  <2>2. <<<<>>>> \in Seq(Row) /\ <<<<>>>> # <<>>
    BY RowsAre
  <2> QED BY <2>1, <2>2, LinesGrow
<1>2. ASSUME NEW s \in Seq(Tokens), NEW x \in Tokens, s \in S PROVE Append(s, x) \in S
  <2>1. PICK ls : ls = Lines(s)
    OBVIOUS
  <2>2. ls \in Seq(Row) /\ ls # <<>> /\ Lines(Append(s, x)) = Cut(ls, x) /\ Append(s, x) \in Seq(Tokens)
    BY <1>2, <2>1, LinesGrow
  <2>3. Front(ls) \in Seq(Row) /\ Last(ls) \in Row
    BY <2>2, LastRow
  <2>4. ASSUME NEW f \in Seq(Row), NEW l \in Row PROVE Append(f, l) \in Seq(Row) /\ Append(f, l) # <<>>
    BY AppendedIs
  <2>5. CASE x = NL
    BY <2>2, <2>4, <2>5, RowsAre DEF Cut
  <2>6. CASE x # NL
    <3>1. Append(Last(ls), x) \in Row
      BY <2>3, <2>6, RowsAre
    <3> QED BY <2>2, <2>3, <2>4, <2>6, <3>1 DEF Cut
  <2> QED BY <2>5, <2>6
<1>3. \A s \in Seq(Tokens) : s \in S
  <2> HIDE DEF S
  <2> QED BY <1>1, <1>2, ByAppending
<1> QED BY <1>3

\* A line more is joined by a newline.
LEMMA JoinedGrows ==
  ASSUME NEW ls \in Seq(Seq(Tokens)), NEW l \in Seq(Tokens)
  PROVE  /\ Joined(Append(ls, l)) = IF ls = <<>> THEN l ELSE Joined(ls) \o (<<NL>> \o l)
         /\ Joined(ls) \in Seq(Tokens) /\ Joined(<<>>) = <<>>
<1> DEFINE P(s) == [i \in DOMAIN s |-> IF i = 1 THEN s[i] ELSE <<NL>> \o s[i]]
<1>0. \A a \in Seq(Tokens) : <<NL>> \o a \in Seq(Tokens)
  BY TokensAre
<1>1. ASSUME NEW s \in Seq(Seq(Tokens))
      PROVE  /\ P(s) \in Seq(Seq(Tokens)) /\ Len(P(s)) = Len(s)
             /\ \A i \in 1..Len(s) : P(s)[i] = IF i = 1 THEN s[i] ELSE <<NL>> \o s[i]
  <2>1. P(s) = [i \in 1..Len(s) |-> IF i = 1 THEN s[i] ELSE <<NL>> \o s[i]] /\ Len(s) \in Nat
    OBVIOUS
  <2>2. \A i \in 1..Len(s) : (IF i = 1 THEN s[i] ELSE <<NL>> \o s[i]) \in Seq(Tokens)
    BY <1>0
  <2> HIDE DEF P
  <2> QED BY <2>1, <2>2
<1>2. PICK b : b = Append(ls, l)
  OBVIOUS
<1>3. b \in Seq(Seq(Tokens)) /\ Len(b) = Len(ls) + 1 /\ b[Len(ls) + 1] = l /\ \A i \in 1..Len(ls) : b[i] = ls[i]
  BY <1>2, AppendedIs
<1>4. PICK y : y = IF ls = <<>> THEN l ELSE <<NL>> \o l
  OBVIOUS
<1>5. y \in Seq(Tokens)
  BY <1>0, <1>4
<1>6. P(b) = Append(P(ls), y)
  <2>1. PICK p, q, r : p = P(ls) /\ q = P(b) /\ r = Append(p, y)
    OBVIOUS
  <2>2. p \in Seq(Seq(Tokens)) /\ Len(p) = Len(ls) /\ \A i \in 1..Len(ls) : p[i] = IF i = 1 THEN ls[i] ELSE <<NL>> \o ls[i]
    <3>1. ls \in Seq(Seq(Tokens))
      OBVIOUS
    <3> HIDE DEF P
    <3> QED BY <1>1, <2>1, <3>1
  <2>3. q \in Seq(Seq(Tokens)) /\ Len(q) = Len(b) /\ \A i \in 1..Len(b) : q[i] = IF i = 1 THEN b[i] ELSE <<NL>> \o b[i]
    <3>1. b \in Seq(Seq(Tokens))
      BY <1>3
    <3> HIDE DEF P
    <3> QED BY <1>1, <2>1, <3>1
  <2>4. r \in Seq(Seq(Tokens)) /\ Len(r) = Len(p) + 1 /\ r[Len(p) + 1] = y /\ \A i \in 1..Len(p) : r[i] = p[i]
    BY <1>5, <2>1, <2>2, AppendedIs
  <2>5. ASSUME NEW i \in 1..Len(q) PROVE q[i] = r[i]
    <3>1. CASE i = Len(ls) + 1
      <4>1. q[i] = IF i = 1 THEN l ELSE <<NL>> \o l
        BY <1>3, <2>3, <3>1
      <4>2. i = 1 <=> ls = <<>>
        BY <3>1
      <4> QED BY <1>4, <2>2, <2>4, <3>1, <4>1, <4>2
    <3>2. CASE i \in 1..Len(ls)
      BY <1>3, <2>2, <2>3, <2>4, <3>2
    <3> QED BY <1>3, <2>3, <3>1, <3>2
  <2>6. Len(q) = Len(r)
    BY <1>3, <2>2, <2>3, <2>4
  <2>7. q = r
    BY <2>3, <2>4, <2>5, <2>6, SameSeq
  <2> QED BY <2>1, <2>7
<1>7. \A s : Joined(s) = FlattenSeq(P(s))
  BY DEF Joined
<1>8. P(ls) \in Seq(Seq(Tokens))
  BY <1>1
<1>9. P(ls) = <<>> <=> ls = <<>>
  BY <1>1
<1>10. P(<<>>) = <<>>
  OBVIOUS
<1> HIDE DEF P
<1>11. Joined(b) = IF ls = <<>> THEN y ELSE Joined(ls) \o y
  BY <1>5, <1>6, <1>7, <1>8, <1>9, FlattenGrows
<1>12. Joined(ls) \in Seq(Tokens)
  BY <1>7, <1>8, FlattenType
<1> QED BY <1>2, <1>4, <1>7, <1>10, <1>11, <1>12, FlattenEmpty

\* Lines joined are a text.
LEMMA JoinedType == \A ls \in Seq(Seq(Tokens)) : Joined(ls) \in Seq(Tokens)
<1>1. <<>> \in Seq(Tokens)
  BY RowsAre
<1> QED BY <1>1, JoinedGrows

\* A token more on the last line is a token more.
LEMMA JoinedMore ==
  ASSUME NEW f \in Seq(Seq(Tokens)), NEW l \in Seq(Tokens), NEW x \in Tokens
  PROVE  Joined(Append(f, Append(l, x))) = Append(Joined(Append(f, l)), x)
<1>1. PICK m : m = Append(l, x)
  OBVIOUS
<1>2. m \in Seq(Tokens) /\ m = l \o <<x>> /\ <<x>> \in Seq(Tokens)
  BY <1>1, TextAppend
<1>3. CASE f = <<>>
  BY <1>1, <1>2, <1>3, JoinedGrows
<1>4. CASE f # <<>>
  <2>1. PICK j, n, c : j = Joined(f) /\ n = <<NL>> /\ c = <<x>>
    OBVIOUS
  <2>2. j \in Seq(Tokens) /\ n \in Seq(Tokens) /\ c \in Seq(Tokens)
    BY <1>2, <2>1, JoinedType, TokensAre
  <2>3. Joined(Append(f, m)) = j \o (n \o m) /\ Joined(Append(f, l)) = j \o (n \o l)
    BY <1>2, <1>4, <2>1, JoinedGrows
  <2>4. PICK k : k = n \o l
    OBVIOUS
  <2>5. k \in Seq(Tokens) /\ j \o k \in Seq(Tokens)
    BY <2>2, <2>4, TextConcat
  <2>6. n \o (l \o c) = k \o c
    BY <2>2, <2>4, TextAssoc, SMTT(30)
  <2>7. j \o (k \o c) = (j \o k) \o c
    BY <2>2, <2>5, TextAssoc, SMTT(30)
  <2>8. Append(j \o k, x) = (j \o k) \o c
    BY <2>1, <2>5, TextAppend
  <2> QED BY <1>1, <1>2, <2>1, <2>3, <2>4, <2>6, <2>7, <2>8
<1> QED BY <1>3, <1>4

\* The lines of a text joined are the text: the offsets of a block cut out
\* just its lines (tool/edit.ts:209-222).
LEMMA JoinedLines ==
  ASSUME NEW t \in Seq(Tokens)
  PROVE  Joined(Lines(t)) = t
<1> DEFINE S == {s \in Seq(Tokens) : Joined(Lines(s)) = s}
<1>1. <<>> \in S
  <2>1. SP \in Tokens /\ <<>> \in Seq(Tokens) /\ <<>> \in Seq(Seq(Tokens)) /\ Append(<<>>, <<>>) = <<<<>>>>
    BY TokensAre
  <2>2. Joined(Append(<<>>, <<>>)) = <<>>
    BY <2>1, JoinedGrows
  <2> QED BY <2>1, <2>2, LinesGrow
<1>2. ASSUME NEW s \in Seq(Tokens), NEW x \in Tokens, s \in S PROVE Append(s, x) \in S
  <2>1. PICK ls : ls = Lines(s)
    OBVIOUS
  <2>2. ls \in Seq(Row) /\ ls # <<>> /\ Joined(ls) = s /\ Lines(Append(s, x)) = Cut(ls, x) /\ Append(s, x) \in Seq(Tokens)
    BY <1>2, <2>1, LinesGrow, LinesType
  <2>3. PICK f, l : f = Front(ls) /\ l = Last(ls)
    OBVIOUS
  <2>4. f \in Seq(Row) /\ l \in Row /\ ls = Append(f, l)
    BY <2>2, <2>3, LastRow
  <2>5. ls \in Seq(Seq(Tokens)) /\ f \in Seq(Seq(Tokens)) /\ l \in Seq(Tokens) /\ <<>> \in Seq(Tokens)
    BY <2>2, <2>4, RowsAre
  <2>6. CASE x = NL
    <3>1. Joined(Append(ls, <<>>)) = s \o (<<NL>> \o <<>>)
      BY <2>2, <2>5, JoinedGrows
    <3>2. <<NL>> \o <<>> = <<NL>>
      BY TokensAre
    <3> QED BY <2>2, <2>6, <3>1, <3>2, TextAppend DEF Cut
  <2>7. CASE x # NL
    <3>1. Joined(Append(f, Append(l, x))) = Append(Joined(Append(f, l)), x)
      BY <2>5, JoinedMore
    <3> QED BY <2>2, <2>3, <2>4, <2>7, <3>1 DEF Cut
  <2> QED BY <2>6, <2>7
<1>3. \A s \in Seq(Tokens) : s \in S
  <2> HIDE DEF S
  <2> QED BY <1>1, <1>2, ByAppending
<1> QED BY <1>3

\* The lines of lines joined, with one line more.
LEMMA LinesOfAppended ==
  ASSUME NEW ls \in Seq(Row), ls = <<>> \/ Lines(Joined(ls)) = ls, NEW l \in Row
  PROVE  Lines(Joined(Append(ls, l))) = Append(ls, l)
<1> DEFINE S == {m \in Row : Lines(Joined(Append(ls, m))) = Append(ls, m)}
<1>0. ls \in Seq(Seq(Tokens)) /\ <<>> \in Row /\ <<>> \in Seq(Tokens) /\ SP \in Tokens /\ NL \in Tokens
  BY RowsAre, TokensAre
<1>1. <<>> \in S
  <2>1. CASE ls = <<>>
    <3>1. Append(ls, <<>>) = <<<<>>>>
      BY <2>1
    <3>2. Joined(Append(ls, <<>>)) = <<>>
      BY <1>0, <2>1, JoinedGrows
    <3> QED BY <1>0, <3>1, <3>2, LinesGrow
  <2>2. CASE ls # <<>>
    <3>1. PICK j : j = Joined(ls)
      OBVIOUS
    <3>2. j \in Seq(Tokens) /\ <<NL>> \o <<>> = <<NL>>
      BY <1>0, <3>1, JoinedType
    <3>3. Joined(Append(ls, <<>>)) = Append(j, NL)
      <4>1. Joined(Append(ls, <<>>)) = j \o (<<NL>> \o <<>>)
        BY <1>0, <2>2, <3>1, JoinedGrows
      <4>2. Append(j, NL) = j \o <<NL>>
        BY <1>0, <3>2, TextAppend
      <4> QED BY <3>2, <4>1, <4>2
    <3>4. Lines(Append(j, NL)) = Cut(Lines(j), NL)
      BY <1>0, <3>2, LinesGrow
    <3> QED BY <1>0, <2>2, <3>1, <3>3, <3>4 DEF Cut
  <2> QED BY <2>1, <2>2
<1>2. ASSUME NEW m \in Row, NEW x \in Tokens \ {NL}, m \in S PROVE Append(m, x) \in S
  <2>1. m \in Seq(Tokens) /\ x \in Tokens /\ Append(m, x) \in Row
    BY RowsAre
  <2>2. PICK j, b : b = Append(ls, m) /\ j = Joined(b)
    OBVIOUS
  <2>3. Joined(Append(ls, Append(m, x))) = Append(j, x)
    BY <1>0, <2>1, <2>2, JoinedMore
  <2>4. b \in Seq(Seq(Tokens)) /\ j \in Seq(Tokens) /\ Lines(j) = b
    <3>1. b \in Seq(Seq(Tokens))
      BY <1>0, <2>1, <2>2, AppendedIs
    <3> QED BY <1>2, <2>2, <3>1, JoinedType
  <2>5. Lines(Append(j, x)) = Cut(b, x)
    BY <2>1, <2>4, LinesGrow
  <2>6. Front(b) = ls /\ Last(b) = m
    BY <2>2, LastOfAppend
  <2> QED BY <2>1, <2>3, <2>5, <2>6 DEF Cut
<1>3. \A m \in Row : m \in S
  <2> HIDE DEF S
  <2> QED BY <1>1, <1>2, ByAppending DEF Row
<1> QED BY <1>3

\* The lines of lines joined are those lines.
LEMMA LinesJoined ==
  ASSUME NEW ls \in Seq(Row), ls # <<>>
  PROVE  Lines(Joined(ls)) = ls
<1> DEFINE S == {ms \in Seq(Row) : ms = <<>> \/ Lines(Joined(ms)) = ms}
<1>1. <<>> \in S
  OBVIOUS
<1>2. ASSUME NEW ms \in Seq(Row), NEW l \in Row, ms \in S PROVE Append(ms, l) \in S
  <2>1. Append(ms, l) \in Seq(Row)
    OBVIOUS
  <2> QED BY <1>2, <2>1, LinesOfAppended
<1>3. \A ms \in Seq(Row) : ms \in S
  <2> HIDE DEF S
  <2> QED BY <1>1, <1>2, ByAppending
<1> QED BY <1>3

\* Lines joined in two parts.
LEMMA JoinedConcat ==
  ASSUME NEW a \in Seq(Seq(Tokens)), a # <<>>, NEW b \in Seq(Seq(Tokens)), b # <<>>
  PROVE  Joined(a \o b) = Joined(a) \o (<<NL>> \o Joined(b))
<1>1. PICK j, n : j = Joined(a) /\ n = <<NL>>
  OBVIOUS
<1>2. j \in Seq(Tokens) /\ n \in Seq(Tokens)
  BY <1>1, JoinedType, TokensAre
<1> DEFINE S == {s \in Seq(Seq(Tokens)) : s = <<>> \/ Joined(a \o s) = j \o (n \o Joined(s))}
<1>3. <<>> \in S
  OBVIOUS
<1>4. ASSUME NEW s \in Seq(Seq(Tokens)), NEW l \in Seq(Tokens), s \in S PROVE Append(s, l) \in S
  <2>1. Append(s, l) \in Seq(Seq(Tokens)) /\ a \o Append(s, l) = Append(a \o s, l) /\ a \o s \in Seq(Seq(Tokens)) /\ a \o s # <<>>
    OBVIOUS
  <2>2. Joined(Append(a \o s, l)) = Joined(a \o s) \o (n \o l)
    BY <1>1, <2>1, JoinedGrows
  <2>3. CASE s = <<>>
    <3>1. Joined(Append(s, l)) = l
      BY <2>3, JoinedGrows
    <3>2. a \o s = a
      BY <2>3
    <3> QED BY <1>1, <2>1, <2>2, <3>1, <3>2
  <2>4. CASE s # <<>>
    <3>1. PICK k, c : k = Joined(s) /\ c = n \o l
      OBVIOUS
    <3>2. k \in Seq(Tokens) /\ c \in Seq(Tokens)
      BY <1>2, <3>1, JoinedType, TextConcat
    <3>3. Joined(Append(s, l)) = k \o c
      BY <1>1, <2>4, <3>1, JoinedGrows
    <3>4. Joined(a \o s) = j \o (n \o k)
      BY <1>4, <2>4, <3>1
    <3>5. n \o k \in Seq(Tokens)
      BY <1>2, <3>2, TextConcat
    <3>6. j \o ((n \o k) \o c) = (j \o (n \o k)) \o c
      BY <1>2, <3>2, <3>5, TextAssoc, SMTT(30)
    <3>7. n \o (k \o c) = (n \o k) \o c
      BY <1>2, <3>2, TextAssoc, SMTT(30)
    <3> QED BY <2>1, <2>2, <3>1, <3>3, <3>4, <3>6, <3>7
  <2> QED BY <2>3, <2>4
<1>5. \A s \in Seq(Seq(Tokens)) : s \in S
  <2> HIDE DEF S
  <2> QED BY <1>3, <1>4, ByAppending
<1> QED BY <1>1, <1>5

\* Lines that follow each other are in the text of all of them.
LEMMA JoinedPrefix ==
  ASSUME NEW ls \in Seq(Seq(Tokens)), NEW k \in 1..Len(ls)
  PROVE  /\ \E v \in Seq(Tokens) : Joined(ls) = Joined(SubSeq(ls, 1, k)) \o v
         /\ \E u \in Seq(Tokens) : Joined(ls) = u \o Joined(SubSeq(ls, k, Len(ls)))
<1>0. ls # <<>> /\ <<>> \in Seq(Tokens) /\ SubSeq(ls, 1, Len(ls)) = ls /\ \A a \in Seq(Tokens) : a \o <<>> = a /\ <<>> \o a = a
  BY TokensAre
<1>00. <<NL>> \in Seq(Tokens)
  BY TokensAre
<1>1. \E v \in Seq(Tokens) : Joined(ls) = Joined(SubSeq(ls, 1, k)) \o v
  <2>1. CASE k = Len(ls)
    <3>1. Joined(ls) \in Seq(Tokens)
      BY JoinedType
    <3> QED BY <1>0, <2>1, <3>1
  <2>2. CASE k # Len(ls)
    <3>1. PICK a, b : a = SubSeq(ls, 1, k) /\ b = SubSeq(ls, k + 1, Len(ls))
      OBVIOUS
    <3>2. ls = a \o b /\ a \in Seq(Seq(Tokens)) /\ a # <<>> /\ b \in Seq(Seq(Tokens)) /\ b # <<>>
      <4>1. k \in 0..Len(ls)
        OBVIOUS
      <4>2. ls = a \o b /\ a \in Seq(Seq(Tokens)) /\ Len(a) = k /\ b \in Seq(Seq(Tokens)) /\ Len(b) = Len(ls) - k
        BY <3>1, <4>1, SplitAt
      <4>3. Len(a) # 0 /\ Len(b) # 0
        BY <2>2, <4>2
      <4> QED BY <4>2, <4>3
    <3>3. Joined(a \o b) = Joined(a) \o (<<NL>> \o Joined(b))
      BY <3>2, JoinedConcat
    <3>4. <<NL>> \o Joined(b) \in Seq(Tokens)
      BY <1>00, <3>2, JoinedType, TextConcat
    <3> QED BY <3>1, <3>2, <3>3, <3>4
  <2> QED BY <2>1, <2>2
<1>2. \E u \in Seq(Tokens) : Joined(ls) = u \o Joined(SubSeq(ls, k, Len(ls)))
  <2>1. CASE k = 1
    <3>1. Joined(ls) \in Seq(Tokens)
      BY JoinedType
    <3> QED BY <1>0, <2>1, <3>1
  <2>2. CASE k # 1
    <3>0. PICK h \in 0..Len(ls) : h = k - 1
      BY <2>2
    <3>1. PICK a, b : a = SubSeq(ls, 1, h) /\ b = SubSeq(ls, h + 1, Len(ls))
      OBVIOUS
    <3>2. ls = a \o b /\ a \in Seq(Seq(Tokens)) /\ a # <<>> /\ b \in Seq(Seq(Tokens)) /\ b # <<>>
      <4>2. ls = a \o b /\ a \in Seq(Seq(Tokens)) /\ Len(a) = h /\ b \in Seq(Seq(Tokens)) /\ Len(b) = Len(ls) - h
        BY <3>1, SplitAt
      <4>3. Len(a) # 0 /\ Len(b) # 0
        BY <2>2, <3>0, <4>2
      <4>4. a # <<>> /\ b # <<>>
        BY <4>3
      <4> QED BY <4>2, <4>4
    <3>3. Joined(a \o b) = Joined(a) \o (<<NL>> \o Joined(b))
      BY <3>2, JoinedConcat
    <3>4. Joined(a) \in Seq(Tokens) /\ Joined(b) \in Seq(Tokens)
      BY <3>2, JoinedType
    <3>5. Joined(a) \o (<<NL>> \o Joined(b)) = (Joined(a) \o <<NL>>) \o Joined(b)
      BY <1>00, <3>4, TextAssoc
    <3>6. Joined(a) \o <<NL>> \in Seq(Tokens)
      BY <1>00, <3>4, TextConcat
    <3>7. h + 1 = k
      BY <3>0
    <3> QED BY <3>1, <3>2, <3>3, <3>5, <3>6, <3>7
  <2> QED BY <2>1, <2>2
<1> QED BY <1>1, <1>2

\* Some lines of a text are in the text.
LEMMA JoinedIn ==
  ASSUME NEW ls \in Seq(Seq(Tokens)), NEW i \in 1..Len(ls), NEW j \in i..Len(ls)
  PROVE  \E u \in Seq(Tokens), v \in Seq(Tokens) : Joined(ls) = (u \o Joined(SubSeq(ls, i, j))) \o v
<1>1. PICK h : h = SubSeq(ls, 1, j)
  OBVIOUS
<1>2. h \in Seq(Seq(Tokens)) /\ Len(h) = j /\ i \in 1..Len(h)
  BY <1>1
<1>3. SubSeq(h, i, Len(h)) = SubSeq(ls, i, j)
  <2>1. PICK x, y : x = SubSeq(h, i, j) /\ y = SubSeq(ls, i, j)
    OBVIOUS
  <2>2. x \in Seq(Seq(Tokens)) /\ Len(x) = j - i + 1 /\ \A m \in 1..(j - i + 1) : x[m] = h[i + m - 1]
    BY <1>2, <2>1
  <2>3. y \in Seq(Seq(Tokens)) /\ Len(y) = j - i + 1 /\ \A m \in 1..(j - i + 1) : y[m] = ls[i + m - 1]
    BY <2>1
  <2>4. \A m \in 1..j : h[m] = ls[m]
    BY <1>1
  <2>5. \A m \in 1..Len(x) : x[m] = y[m]
    <3> TAKE m \in 1..Len(x)
    <3>1. m \in 1..(j - i + 1) /\ i + m - 1 \in 1..j
      BY <2>2
    <3> QED BY <2>2, <2>3, <2>4, <3>1
  <2>6. x = y
    BY <2>2, <2>3, <2>5, SameSeq
  <2> QED BY <1>2, <2>1, <2>6
<1>4. PICK v \in Seq(Tokens) : Joined(ls) = Joined(h) \o v
  <2>1. j \in 1..Len(ls)
    OBVIOUS
  <2> QED BY <1>1, <2>1, JoinedPrefix
<1>5. PICK u \in Seq(Tokens) : Joined(h) = u \o Joined(SubSeq(ls, i, j))
  BY <1>2, <1>3, JoinedPrefix
<1> QED BY <1>4, <1>5

\* What is between two texts occurs in the whole.
LEMMA OccursBetween ==
  ASSUME NEW s \in Seq(Tokens), NEW u \in Seq(Tokens), NEW v \in Seq(Tokens)
  PROVE  OccursIn(s, (u \o s) \o v)
<1>1. PICK t : t = (u \o s) \o v
  OBVIOUS
<1>2. /\ t \in Seq(Tokens) /\ Len(t) = Len(u) + Len(s) + Len(v)
      /\ \A i \in 1..Len(s) : t[Len(u) + i] = s[i]
  BY <1>1, Concat3Is
<1>3. Len(u) + 1 \in 1..(Len(t) - Len(s) + 1)
  BY <1>2
<1>4. SubSeq(t, Len(u) + 1, (Len(u) + 1) + Len(s) - 1) = s
  <2>1. PICK r : r = SubSeq(t, Len(u) + 1, (Len(u) + 1) + Len(s) - 1)
    OBVIOUS
  <2>2. r \in Seq(Tokens) /\ Len(r) = Len(s) /\ \A i \in 1..Len(s) : r[i] = t[Len(u) + i]
    BY <1>2, <2>1
  <2>3. r = s
    BY <1>2, <2>2, SameSeq
  <2> QED BY <2>1, <2>3
<1> QED BY <1>1, <1>3, <1>4 DEF OccursIn, Occurrences

\* Texts whose lines are alike one by one are alike.
LEMMA JoinedAlike ==
  ASSUME NEW ls \in Seq(Seq(Tokens)), NEW ms \in Seq(Seq(Tokens)), Len(ls) = Len(ms),
         \A i \in 1..Len(ls) : Alike(ls[i], ms[i])
  PROVE  Alike(Joined(ls), Joined(ms))
<1> DEFINE K == {k \in 0..Len(ls) : Alike(Joined(SubSeq(ls, 1, k)), Joined(SubSeq(ms, 1, k)))}
<1>1. 0 \in K
  <2>1. SubSeq(ls, 1, 0) = <<>> /\ SubSeq(ms, 1, 0) = <<>> /\ 0 \in 0..Len(ls)
    OBVIOUS
  <2>2. Alike(Joined(<<>>), Joined(<<>>))
    BY AlikeItself
  <2>3. Alike(Joined(SubSeq(ls, 1, 0)), Joined(SubSeq(ms, 1, 0)))
    BY <2>1, <2>2, Zenon
  <2> QED BY <2>1, <2>3, Zenon
<1>2. ASSUME NEW k \in 1..Len(ls), k - 1 \in K PROVE k \in K
  <2>1. PICK f, g, l, m : f = SubSeq(ls, 1, k - 1) /\ g = SubSeq(ms, 1, k - 1) /\ l = ls[k] /\ m = ms[k]
    OBVIOUS
  <2>2. SubSeq(ls, 1, k) = Append(f, l) /\ f \in Seq(Seq(Tokens)) /\ l \in Seq(Tokens)
    BY <2>1, PrefixGrows
  <2>3. SubSeq(ms, 1, k) = Append(g, m) /\ g \in Seq(Seq(Tokens)) /\ m \in Seq(Tokens)
    <3>1. k \in 1..Len(ms)
      OBVIOUS
    <3> QED BY <2>1, <3>1, PrefixGrows
  <2>4. Len(f) = k - 1 /\ Len(g) = k - 1
    BY <2>1
  <2>5. Alike(l, m) /\ Alike(Joined(f), Joined(g))
    BY <1>2, <2>1
  <2>6. Alike(Joined(Append(f, l)), Joined(Append(g, m)))
    <3>1. CASE k = 1
      <4>1. f = <<>> /\ g = <<>>
        BY <2>2, <2>3, <2>4, <3>1
      <4>2. Joined(Append(f, l)) = l /\ Joined(Append(g, m)) = m
        BY <2>2, <2>3, <4>1, JoinedGrows
      <4> QED BY <2>5, <4>2
    <3>2. CASE k # 1
      <4>1. f # <<>> /\ g # <<>>
        BY <2>4, <3>2
      <4>2. Joined(Append(f, l)) = Joined(f) \o (<<NL>> \o l) /\ Joined(f) \in Seq(Tokens)
        BY <2>2, <4>1, JoinedGrows
      <4>3. Joined(Append(g, m)) = Joined(g) \o (<<NL>> \o m) /\ Joined(g) \in Seq(Tokens)
        BY <2>3, <4>1, JoinedGrows
      <4>4. Alike(Joined(f) \o (<<NL>> \o l), Joined(g) \o (<<NL>> \o m))
        BY <2>2, <2>3, <2>5, <4>2, <4>3, AlikeTwo
      <4> QED BY <4>2, <4>3, <4>4
    <3> QED BY <3>1, <3>2
  <2>7. Alike(Joined(SubSeq(ls, 1, k)), Joined(SubSeq(ms, 1, k)))
    BY <2>2, <2>3, <2>6, Zenon
  <2> QED BY <2>7
<1>3. Len(ls) \in K
  <2>1. Len(ls) \in Nat
    OBVIOUS
  <2>2. \A k \in 0..Len(ls) : k \in K
    <3> HIDE DEF K
    <3> QED BY <1>1, <1>2, <2>1, UpwardsTo
  <2> QED BY <2>1, <2>2
<1>4. SubSeq(ls, 1, Len(ls)) = ls /\ SubSeq(ms, 1, Len(ls)) = ms
  OBVIOUS
<1> QED BY <1>3, <1>4

-----------------------------------------------------------------------------
(* What is chosen from a sequence *)

\* What Those puts together.
Parts(s, I) == [i \in DOMAIN s |-> IF i \in I THEN <<s[i]>> ELSE <<>>]

\* What is chosen, as parts put together.
LEMMA PartsAre ==
  ASSUME NEW A, NEW s \in Seq(A), NEW I
  PROVE  /\ Those(s, I) = FlattenSeq(Parts(s, I))
         /\ Parts(s, I) \in Seq(Seq(A)) /\ Len(Parts(s, I)) = Len(s)
         /\ \A i \in 1..Len(s) : Parts(s, I)[i] = IF i \in I THEN <<s[i]>> ELSE <<>>
<1>1. Parts(s, I) = [i \in 1..Len(s) |-> IF i \in I THEN <<s[i]>> ELSE <<>>] /\ Len(s) \in Nat
  BY DEF Parts
<1>2. \A i \in 1..Len(s) : (IF i \in I THEN <<s[i]>> ELSE <<>>) \in Seq(A)
  OBVIOUS
<1>3. Those(s, I) = FlattenSeq(Parts(s, I))
  BY DEF Those, Parts
<1> QED BY <1>1, <1>2, <1>3

\* Only what is chosen,
LEMMA ThoseIn ==
  ASSUME NEW A, NEW s \in Seq(A), NEW I, NEW B, \A i \in DOMAIN s : i \in I => s[i] \in B
  PROVE  Those(s, I) \in Seq(B)
<1>1. PICK p : p = Parts(s, I)
  OBVIOUS
<1>2. Those(s, I) = FlattenSeq(p) /\ p \in Seq(Seq(A)) /\ Len(p) = Len(s)
      /\ \A i \in 1..Len(s) : p[i] = IF i \in I THEN <<s[i]>> ELSE <<>>
  BY <1>1, PartsAre
<1>3. \A i \in 1..Len(s) : p[i] \in Seq(B)
  <2> TAKE i \in 1..Len(s)
  <2>1. p[i] = IF i \in I THEN <<s[i]>> ELSE <<>>
    BY <1>2
  <2> QED BY <2>1
<1>4. p \in Seq(Seq(B))
  <2>1. Len(p) \in Nat /\ p = [i \in 1..Len(p) |-> p[i]]
    BY <1>2
  <2>2. \A i \in 1..Len(p) : p[i] \in Seq(B)
    BY <1>2, <1>3
  <2> QED BY <2>1, <2>2
<1> QED BY <1>2, <1>4, FlattenType

\* all of it,
LEMMA ThoseSome ==
  ASSUME NEW A, NEW s \in Seq(A), NEW I, NEW i \in DOMAIN s, i \in I
  PROVE  Those(s, I) # <<>>
<1>1. PICK p : p = Parts(s, I)
  OBVIOUS
<1>2. Those(s, I) = FlattenSeq(p) /\ p \in Seq(Seq(A)) /\ Len(p) = Len(s) /\ p[i] = <<s[i]>>
  <2>1. Those(s, I) = FlattenSeq(p) /\ p \in Seq(Seq(A)) /\ Len(p) = Len(s)
        /\ \A k \in 1..Len(s) : p[k] = IF k \in I THEN <<s[k]>> ELSE <<>>
    BY <1>1, PartsAre
  <2>2. i \in 1..Len(s)
    OBVIOUS
  <2> QED BY <2>1, <2>2
<1>3. i \in DOMAIN p /\ 1 \in DOMAIN p[i]
  BY <1>2
<1>4. \E k \in DOMAIN FlattenSeq(p) : FlattenSeq(p)[k] = p[i][1]
  BY <1>2, <1>3, FlattenHas
<1> QED BY <1>2, <1>4

\* in its order.
LEMMA ThoseFirst ==
  ASSUME NEW A, NEW s \in Seq(A), s # <<>>, NEW I, 1 \in I
  PROVE  Those(s, I) # <<>> /\ Those(s, I)[1] = s[1]
<1>1. PICK p, a, b : p = Parts(s, I) /\ a = SubSeq(p, 1, 1) /\ b = SubSeq(p, 2, Len(p))
  OBVIOUS
<1>2. Those(s, I) = FlattenSeq(p) /\ p \in Seq(Seq(A)) /\ Len(p) = Len(s) /\ p[1] = <<s[1]>> /\ Len(s) >= 1
  <2>1. Those(s, I) = FlattenSeq(p) /\ p \in Seq(Seq(A)) /\ Len(p) = Len(s)
        /\ \A k \in 1..Len(s) : p[k] = IF k \in I THEN <<s[k]>> ELSE <<>>
    BY <1>1, PartsAre
  <2>2. 1 \in 1..Len(s) /\ Len(s) >= 1
    OBVIOUS
  <2> QED BY <2>1, <2>2
<1>3. p = a \o b /\ a \in Seq(Seq(A)) /\ b \in Seq(Seq(A))
  <2>1. 1 \in 0..Len(p) /\ 1 + 1 = 2
    BY <1>2
  <2>2. p = SubSeq(p, 1, 1) \o SubSeq(p, 1 + 1, Len(p)) /\ SubSeq(p, 1, 1) \in Seq(Seq(A))
        /\ SubSeq(p, 1 + 1, Len(p)) \in Seq(Seq(A))
    BY <1>2, <2>1, SplitAt
  <2> QED BY <1>1, <2>2
<1>4. a = <<p[1]>> /\ <<s[1]>> \in Seq(A)
  <2>1. 1 \in 1..Len(p) /\ s[1] \in A
    BY <1>2
  <2> QED BY <1>1, <1>2, <2>1, OneOf
<1>5. FlattenSeq(a) = <<s[1]>>
  BY <1>2, <1>4, FlattenOne
<1>6. FlattenSeq(p) = <<s[1]>> \o FlattenSeq(b)
  BY <1>3, <1>5, FlattenConcat
<1>7. FlattenSeq(b) \in Seq(A)
  BY <1>3, FlattenType
<1> QED BY <1>2, <1>4, <1>6, <1>7

-----------------------------------------------------------------------------
(* What the replacers propose stands for oldString. *)

\* What a replacer may propose.
Good(find) == {p \in Seq(Tokens) : StandsFor(p, find)}

\* What is like oldString stands for it.
LEMMA GoodIfAlike ==
  ASSUME NEW p \in Seq(Tokens), NEW find \in Seq(Tokens), Alike(p, find)
  PROVE  p \in Good(find)
BY AlikePlain DEF Good, StandsFor

\* The blocks of a text occur in it; those of one line are its lines.
LEMMA BlocksAre ==
  ASSUME NEW t \in Seq(Tokens), NEW n \in Nat
  PROVE  /\ Blocks(t, n) \in Seq(Seq(Tokens))
         /\ n > 0 => \A i \in DOMAIN Blocks(t, n) : OccursIn(Blocks(t, n)[i], t)
         /\ n = 1 => Blocks(t, n) = Lines(t)
<1>1. PICK ls : ls = Lines(t)
  OBVIOUS
<1>2. ls \in Seq(Seq(Tokens)) /\ Joined(ls) = t
  BY <1>1, LinesType, JoinedLines, RowsAre
<1>3. PICK m : m = IF Len(ls) < n THEN 0 ELSE Len(ls) - n + 1
  OBVIOUS
<1>4. m \in Nat
  BY <1>2, <1>3
<1>5. Blocks(t, n) = [i \in 1..m |-> Joined(SubSeq(ls, i, i + n - 1))]
  BY <1>1, <1>3 DEF Blocks
<1>6. ASSUME NEW i \in 1..m PROVE Joined(SubSeq(ls, i, i + n - 1)) \in Seq(Tokens)
  <2>1. SubSeq(ls, i, i + n - 1) \in Seq(Seq(Tokens))
    <3>1. i \in 1..Len(ls) + 1 /\ i + n - 1 \in Int /\ i + n - 1 <= Len(ls)
      BY <1>2, <1>3
    <3>2. \A k \in i..(i + n - 1) : ls[k] \in Seq(Tokens)
      BY <1>2, <3>1
    <3> QED BY <3>1, <3>2
  <2> QED BY <2>1, JoinedType
<1>7. Blocks(t, n) \in Seq(Seq(Tokens))
  BY <1>4, <1>5, <1>6
<1>8. ASSUME n > 0, NEW i \in 1..m PROVE OccursIn(Joined(SubSeq(ls, i, i + n - 1)), t)
  <2>1. i \in 1..Len(ls) /\ i + n - 1 \in i..Len(ls)
    BY <1>2, <1>3, <1>8
  <2>2. PICK u \in Seq(Tokens), v \in Seq(Tokens) : Joined(ls) = (u \o Joined(SubSeq(ls, i, i + n - 1))) \o v
    BY <1>2, <2>1, JoinedIn
  <2>3. Joined(SubSeq(ls, i, i + n - 1)) \in Seq(Tokens)
    BY <1>6
  <2> QED BY <1>2, <2>2, <2>3, OccursBetween
<1>9. ASSUME n = 1 PROVE Blocks(t, n) = ls
  <2>1. m = Len(ls)
    BY <1>2, <1>3, <1>9
  <2>2. ASSUME NEW i \in 1..Len(ls) PROVE Joined(SubSeq(ls, i, i + n - 1)) = ls[i]
    <3>1. SubSeq(ls, i, i) = Append(<<>>, ls[i]) /\ ls[i] \in Seq(Tokens) /\ <<>> \in Seq(Seq(Tokens))
      BY <1>2, OneOf
    <3>2. i + n - 1 = i
      BY <1>9
    <3> QED BY <3>1, <3>2, JoinedGrows
  <2> QED BY <1>2, <1>5, <2>1, <2>2
<1> QED BY <1>1, <1>5, <1>7, <1>8, <1>9

\* Blocks that each stand for oldString are such proposals.
LEMMA ChosenBlocks ==
  ASSUME NEW t \in Seq(Tokens), NEW n \in Nat, NEW find, NEW I,
         \A i \in DOMAIN Blocks(t, n) : i \in I /\ Blocks(t, n)[i] \in Seq(Tokens) => Blocks(t, n)[i] \in Good(find)
  PROVE  Those(Blocks(t, n), I) \in Seq(Good(find))
<1>1. PICK s : s = Blocks(t, n)
  OBVIOUS
<1>2. s \in Seq(Seq(Tokens))
  BY <1>1, BlocksAre
<1>3. \A i \in DOMAIN s : i \in I => s[i] \in Good(find)
  BY <1>1, <1>2
<1> QED BY <1>1, <1>2, <1>3, ThoseIn

\* oldString: its lines, and the lines but for an empty one at the end.
LEMMA SearchIs ==
  ASSUME NEW find \in Seq(Tokens)
  PROVE  /\ WithoutLastEmpty(Lines(find)) \in Seq(Row) /\ Len(Lines(find)) \in Nat \ {0}
         /\ Alike(Joined(WithoutLastEmpty(Lines(find))), find)
         /\ Len(Lines(find)) >= 3 => Len(WithoutLastEmpty(Lines(find))) >= 2
<1>1. PICK ls : ls = Lines(find)
  OBVIOUS
<1>2. ls \in Seq(Row) /\ ls # <<>> /\ Joined(ls) = find
  BY <1>1, LinesType, JoinedLines
<1>3. Len(ls) \in Nat \ {0}
  BY <1>2
<1>4. CASE ls[Len(ls)] # <<>>
  <2>1. WithoutLastEmpty(ls) = ls
    BY <1>4 DEF WithoutLastEmpty
  <2> QED BY <1>1, <1>2, <1>3, <2>1, AlikeItself
<1>5. CASE ls[Len(ls)] = <<>>
  <2>1. PICK f : f = Front(ls)
    OBVIOUS
  <2>2. f \in Seq(Row) /\ ls = Append(f, <<>>)
    BY <1>2, <1>5, <2>1, LastRow DEF Last
  <2>3. WithoutLastEmpty(ls) = f
    BY <1>5, <2>1 DEF WithoutLastEmpty, Front
  <2>4. Len(ls) = Len(f) + 1
    BY <2>2, RowsAre
  <2>5. Alike(Joined(f), find)
    <3>1. f \in Seq(Seq(Tokens)) /\ <<>> \in Seq(Tokens)
      BY <2>2, RowsAre
    <3>2. CASE f = <<>>
      BY <1>2, <2>2, <3>1, <3>2, JoinedGrows, AlikeItself
    <3>3. CASE f # <<>>
      <4>1. PICK j : j = Joined(f)
        OBVIOUS
      <4>2. j \in Seq(Tokens) /\ find = j \o (<<NL>> \o <<>>)
        BY <1>2, <2>2, <3>1, <3>3, <4>1, JoinedGrows, JoinedType
      <4>3. Alike(j, find)
        BY <4>2, AlikeNewline
      <4> QED BY <4>1, <4>3
    <3> QED BY <3>2, <3>3
  <2> QED BY <1>1, <1>3, <2>2, <2>3, <2>4, <2>5
<1> QED BY <1>4, <1>5

\* Lines are like themselves trimmed (tool/edit.ts:200-203).
LEMMA TrimsAlike ==
  ASSUME NEW ls \in Seq(Row)
  PROVE  Alike(Joined(Trims(ls)), Joined(ls))
<1>1. ls \in Seq(Seq(Tokens))
  BY RowsAre
<1>2. PICK ms : ms = Trims(ls)
  OBVIOUS
<1>3. ms = [i \in 1..Len(ls) |-> Trim(ls[i])] /\ Len(ls) \in Nat
  BY <1>1, <1>2 DEF Trims
<1>4. ASSUME NEW i \in 1..Len(ls)
      PROVE  ls[i] \in Seq(Tokens) /\ Trim(ls[i]) \in Seq(Tokens) /\ Alike(Trim(ls[i]), ls[i])
  <2>1. ls[i] \in Seq(Tokens)
    BY <1>1
  <2> QED BY <2>1, TrimOf, AlikeTrim
<1>5. ms \in Seq(Seq(Tokens)) /\ Len(ms) = Len(ls) /\ \A i \in 1..Len(ms) : Alike(ms[i], ls[i])
  BY <1>3, <1>4
<1> QED BY <1>1, <1>2, <1>5, JoinedAlike

\* LineTrimmedReplacer proposes only what stands for oldString
\* (tool/edit.ts:188-226).
LEMMA LineTrimmedGood ==
  ASSUME NEW t \in Seq(Tokens), NEW find \in Seq(Tokens)
  PROVE  LineTrimmedReplacer(t, find) \in Seq(Good(find))
<1>1. PICK search : search = WithoutLastEmpty(Lines(find))
  OBVIOUS
<1>2. search \in Seq(Row) /\ Alike(Joined(search), find) /\ Len(search) \in Nat
  BY <1>1, SearchIs
<1>3. ASSUME NEW b \in Seq(Tokens), Trims(Lines(b)) = Trims(search) PROVE b \in Good(find)
  <2>1. Lines(b) \in Seq(Row) /\ Joined(Lines(b)) = b
    BY LinesType, JoinedLines
  <2>2. Alike(Joined(Trims(Lines(b))), b) /\ Alike(Joined(Trims(search)), Joined(search))
    BY <1>2, <2>1, TrimsAlike
  <2>3. Alike(b, find)
    BY <1>2, <1>3, <2>2, AlikeBoth
  <2> QED BY <2>3, GoodIfAlike
<1>4. PICK s, n : n = Len(search) /\ s = Blocks(t, n)
  OBVIOUS
<1>5. Those(s, {i \in DOMAIN s : Trims(Lines(s[i])) = Trims(search)}) \in Seq(Good(find))
  BY <1>2, <1>3, <1>4, ChosenBlocks
<1> QED BY <1>1, <1>4, <1>5 DEF LineTrimmedReplacer, BlocksLike

\* So does EscapeNormalizedReplacer (tool/edit.ts:435-482).
LEMMA EscapeNormalizedGood ==
  ASSUME NEW t \in Seq(Tokens), NEW find \in Seq(Tokens)
  PROVE  EscapeNormalizedReplacer(t, find) \in Seq(Good(find))
<1>1. PICK u : u = unescapeString(find)
  OBVIOUS
<1>2. u \in Seq(Tokens) /\ Alike(u, find)
  BY <1>1, UnescapedIs, AlikeUnescaped
<1>3. u \in Good(find)
  BY <1>2, GoodIfAlike
<1>4. ASSUME NEW b \in Seq(Tokens), unescapeString(b) = u PROVE b \in Good(find)
  BY <1>1, <1>4 DEF Good, StandsFor, Plain
<1>5. PICK s, n : n = Len(Lines(u)) /\ s = Blocks(t, n)
  OBVIOUS
<1>6. n \in Nat
  BY <1>2, <1>5, SearchIs
<1>7. Those(s, {i \in DOMAIN s : unescapeString(s[i]) = u}) \in Seq(Good(find))
  BY <1>4, <1>5, <1>6, ChosenBlocks
<1>8. (IF OccursIn(u, t) THEN <<u>> ELSE <<>>) \in Seq(Good(find))
  BY <1>3
<1>9. EscapeNormalizedReplacer(t, find)
        = (IF OccursIn(u, t) THEN <<u>> ELSE <<>>) \o Those(s, {i \in DOMAIN s : unescapeString(s[i]) = u})
  BY <1>1, <1>5 DEF EscapeNormalizedReplacer, BlocksLike
<1> QED BY <1>7, <1>8, <1>9, ConcatIs

\* So does TrimmedBoundaryReplacer (tool/edit.ts:498-522).
LEMMA TrimmedBoundaryGood ==
  ASSUME NEW t \in Seq(Tokens), NEW find \in Seq(Tokens)
  PROVE  TrimmedBoundaryReplacer(t, find) \in Seq(Good(find))
<1>1. PICK u : u = Trim(find)
  OBVIOUS
<1>2. u \in Seq(Tokens) /\ Alike(u, find)
  BY <1>1, TrimOf, AlikeTrim
<1>3. u \in Good(find)
  BY <1>2, GoodIfAlike
<1>4. ASSUME NEW b \in Seq(Tokens), Trim(b) = u PROVE b \in Good(find)
  <2>1. Alike(u, b)
    BY <1>4, AlikeTrim
  <2>2. Alike(b, find)
    BY <1>2, <2>1, AlikeBoth
  <2> QED BY <2>2, GoodIfAlike
<1>5. PICK s, n : n = Len(Lines(find)) /\ s = Blocks(t, n)
  OBVIOUS
<1>6. n \in Nat
  BY <1>5, SearchIs
<1>7. Those(s, {i \in DOMAIN s : Trim(s[i]) = u}) \in Seq(Good(find))
  BY <1>4, <1>5, <1>6, ChosenBlocks
<1>8. (IF OccursIn(u, t) THEN <<u>> ELSE <<>>) \in Seq(Good(find))
  BY <1>3
<1>9. TrimmedBoundaryReplacer(t, find)
        = IF u = find THEN <<>>
          ELSE (IF OccursIn(u, t) THEN <<u>> ELSE <<>>) \o Those(s, {i \in DOMAIN s : Trim(s[i]) = u})
  BY <1>1, <1>5 DEF TrimmedBoundaryReplacer, BlocksLike
<1>10. (IF OccursIn(u, t) THEN <<u>> ELSE <<>>) \o Those(s, {i \in DOMAIN s : Trim(s[i]) = u}) \in Seq(Good(find))
  BY <1>7, <1>8, ConcatIs
<1> QED BY <1>9, <1>10

-----------------------------------------------------------------------------
\* Spaces at the beginning do not count.
LEMMA AlikeDrop ==
  ASSUME NEW l \in Seq(Tokens), NEW k \in 0..Len(l), \A i \in 1..k : IsSpace(l[i])
  PROVE  Alike(SubSeq(l, k + 1, Len(l)), l) /\ SubSeq(l, k + 1, Len(l)) \in Seq(Tokens)
<1>1. PICK a, m : a = SubSeq(l, 1, k) /\ m = SubSeq(l, k + 1, Len(l))
  OBVIOUS
<1>2. a \in Seq(Tokens) /\ m \in Seq(Tokens) /\ l = a \o m /\ Len(a) = k
  BY <1>1, SplitAt
<1>3. a \in Seq(Spaces)
  <2>1. \A i \in 1..Len(a) : l[i] = a[i]
    BY <1>2, ConcatIs
  <2>2. \A i \in 1..Len(a) : a[i] \in Spaces
    BY <1>2, <2>1 DEF IsSpace, Spaces
  <2> QED
    <3>1. a \in Seq(Tokens) /\ Len(a) \in Nat
      BY <1>2
    <3> QED BY <2>2, <3>1
<1>4. PICK u : u = unescapeString(m)
  OBVIOUS
<1>5. u \in Seq(Tokens) /\ a \o u \in Seq(Tokens) /\ (a \o u) \o <<>> = a \o u /\ <<>> \in Seq(Spaces)
  <2>1. u \in Seq(Tokens)
    BY <1>2, <1>4, UnescapedIs
  <2>2. PICK w : w = a \o u
    OBVIOUS
  <2>3. w \in Seq(Tokens)
    BY <1>2, <2>1, <2>2, TextConcat
  <2>4. w \o <<>> = w /\ <<>> \in Seq(Spaces)
    BY <2>3
  <2> QED BY <2>1, <2>2, <2>3, <2>4
<1>6. unescapeString(l) = a \o u
  <2>1. unescapeString(a \o m) = unescapeString(a) \o unescapeString(m)
    BY <1>2, UnescapedConcat
  <2> QED BY <1>2, <1>3, <1>4, <2>1, UnescapedSpaces
<1>7. ASSUME NEW p \in Seq(Tokens) PROVE Collapsed(In(p, m)) = Collapsed(In(p, l))
  <2>1. Collapsed(Append(Append(p, SP) \o ((a \o u) \o <<>>), SP)) = Collapsed(Append(Append(p, SP) \o u, SP))
    BY <1>3, <1>5, SpacesAround
  <2> QED BY <1>4, <1>5, <1>6, <2>1 DEF In, Behind
<1> QED BY <1>1, <1>2, <1>7 DEF Alike

\* How many spaces a line begins with (tool/edit.ts:413-418).
Indentation(l) == CHOOSE n \in 0..Len(l) : ~IsSpace(l[n + 1]) /\ \A k \in 1..n : IsSpace(l[k])

\* A line with a word in it has an indentation (tool/edit.ts:413-418).
LEMMA IndentationIs ==
  ASSUME NEW l \in Seq(Tokens), Trim(l) # <<>>
  PROVE  Indentation(l) \in 0..Len(l) /\ \A k \in 1..Indentation(l) : IsSpace(l[k])
<1>1. Solid(l) # {}
  <2>1. SUFFICES ASSUME Solid(l) = {} PROVE FALSE
    OBVIOUS
  <2>2. \A i \in 1..Len(l) : l[i] \in Spaces
    BY <2>1 DEF Solid, IsSpace, Spaces
  <2>3. l \in Seq(Spaces)
    BY <2>2
  <2> QED BY <2>3, TrimNone
<1>2. PICK a \in Solid(l) : \A j \in Solid(l) : a <= j
  BY <1>1, SolidIs
<1>3. a \in 1..Len(l) /\ ~IsSpace(l[a]) /\ \A k \in 1..(a - 1) : IsSpace(l[k])
  BY <1>2 DEF Solid
<1>4. \E n \in 0..Len(l) : ~IsSpace(l[n + 1]) /\ \A k \in 1..n : IsSpace(l[k])
  <2>1. a - 1 \in 0..Len(l) /\ (a - 1) + 1 = a
    BY <1>3
  <2> QED BY <1>3, <2>1
<1> QED BY <1>4 DEF Indentation

\* The rule of removeIndentation: the same number of spaces off every line
\* that has a word in it.
LEMMA Unindented ==
  ASSUME NEW t \in Seq(Tokens)
  PROVE  Alike(removeIndentation(t), t)
<1>1. PICK ls : ls = Lines(t)
  OBVIOUS
<1>2. ls \in Seq(Seq(Tokens)) /\ Joined(ls) = t
  BY <1>1, LinesType, RowsAre, JoinedLines
<1>3. PICK solid : solid = {i \in DOMAIN ls : Trim(ls[i]) # <<>>}
  OBVIOUS
<1>4. PICK least : least = CHOOSE n \in {Indentation(ls[i]) : i \in solid} : \A i \in solid : n <= Indentation(ls[i])
  OBVIOUS
<1>5. removeIndentation(t) =
        IF solid = {} THEN t
        ELSE Joined([i \in DOMAIN ls |-> IF i \in solid THEN SubSeq(ls[i], least + 1, Len(ls[i])) ELSE ls[i]])
  BY <1>1, <1>3, <1>4 DEF removeIndentation, Indentation
<1>6. CASE solid = {}
  BY <1>5, <1>6, AlikeItself
<1>7. CASE solid # {}
  <2>1. ASSUME NEW i \in solid
        PROVE  /\ i \in 1..Len(ls) /\ ls[i] \in Seq(Tokens) /\ Indentation(ls[i]) \in 0..Len(ls[i])
               /\ \A k \in 1..Indentation(ls[i]) : IsSpace(ls[i][k])
    <3>1. i \in 1..Len(ls) /\ ls[i] \in Seq(Tokens) /\ Trim(ls[i]) # <<>>
      BY <1>2, <1>3
    <3> QED BY <3>1, IndentationIs
  <2>2. PICK S : S = {Indentation(ls[i]) : i \in solid}
    OBVIOUS
  <2>3. S \in SUBSET Nat /\ S # {}
    <3>1. \A i \in solid : Indentation(ls[i]) \in Nat
      <4>1. ASSUME NEW i \in solid PROVE Indentation(ls[i]) \in Nat
        <5>1. ls[i] \in Seq(Tokens) /\ Indentation(ls[i]) \in 0..Len(ls[i])
          BY <2>1
        <5>2. Len(ls[i]) \in Nat
          BY <5>1
        <5> QED BY <5>1, <5>2
      <4> QED BY <4>1
    <3> QED BY <1>7, <2>2, <3>1
  <2>4. \E n \in S : \A m \in S : n <= m
    BY <2>3, LeastOf
  <2>5. least \in S /\ \A i \in solid : least <= Indentation(ls[i])
    BY <1>4, <2>2, <2>4
  <2>6. PICK ms : ms = [i \in DOMAIN ls |-> IF i \in solid THEN SubSeq(ls[i], least + 1, Len(ls[i])) ELSE ls[i]]
    OBVIOUS
  <2>7. ASSUME NEW i \in 1..Len(ls) PROVE ms[i] \in Seq(Tokens) /\ Alike(ms[i], ls[i])
    <3>1. ls[i] \in Seq(Tokens) /\ ms[i] = IF i \in solid THEN SubSeq(ls[i], least + 1, Len(ls[i])) ELSE ls[i]
      BY <1>2, <2>6
    <3>2. CASE i \in solid
      <4>1. Indentation(ls[i]) \in 0..Len(ls[i]) /\ \A k \in 1..Indentation(ls[i]) : IsSpace(ls[i][k])
        BY <2>1, <3>2
      <4>2. least \in Nat /\ least <= Indentation(ls[i])
        BY <2>3, <2>5, <3>2
      <4>3. PICK l : l = ls[i]
        OBVIOUS
      <4>4. l \in Seq(Tokens) /\ least \in 0..Len(l) /\ \A k \in 1..least : IsSpace(l[k])
        BY <3>1, <4>1, <4>2, <4>3
      <4>5. Alike(SubSeq(l, least + 1, Len(l)), l) /\ SubSeq(l, least + 1, Len(l)) \in Seq(Tokens)
        BY <4>4, AlikeDrop
      <4> QED BY <3>1, <3>2, <4>3, <4>5
    <3>3. CASE i \notin solid
      BY <3>1, <3>3, AlikeItself
    <3> QED BY <3>2, <3>3
  <2>8. ms \in Seq(Seq(Tokens)) /\ Len(ms) = Len(ls)
    <3>1. DOMAIN ms = 1..Len(ls) /\ Len(ls) \in Nat /\ ms = [i \in 1..Len(ls) |-> ms[i]]
      BY <1>2, <2>6
    <3> QED BY <2>7, <3>1
  <2>9. Alike(Joined(ms), Joined(ls))
    BY <1>2, <2>7, <2>8, JoinedAlike
  <2> QED BY <1>2, <1>5, <1>7, <2>6, <2>9
<1> QED BY <1>6, <1>7

\* IndentationFlexibleReplacer proposes only what stands for oldString
\* (tool/edit.ts:407-433).
LEMMA IndentationFlexibleGood ==
  ASSUME NEW t \in Seq(Tokens), NEW find \in Seq(Tokens)
  PROVE  IndentationFlexibleReplacer(t, find) \in Seq(Good(find))
<1>1. PICK u : u = removeIndentation(find)
  OBVIOUS
<1>2. ASSUME NEW b \in Seq(Tokens), removeIndentation(b) = u PROVE b \in Good(find)
  <2>1. Alike(u, b) /\ Alike(u, find)
    BY <1>1, <1>2, Unindented
  <2>2. Alike(b, find)
    BY <2>1, AlikeBoth
  <2> QED BY <2>2, GoodIfAlike
<1>3. PICK s, n : n = Len(Lines(find)) /\ s = Blocks(t, n)
  OBVIOUS
<1>4. n \in Nat
  BY <1>3, SearchIs
<1>5. Those(s, {i \in DOMAIN s : removeIndentation(s[i]) = u}) \in Seq(Good(find))
  BY <1>2, <1>3, <1>4, ChosenBlocks
<1> QED BY <1>1, <1>3, <1>5 DEF IndentationFlexibleReplacer, BlocksLike

-----------------------------------------------------------------------------
\* From a line like the first one of oldString to one like the last one.
Spans(lines, search) ==
  {z \in (1..Len(lines)) \X (1..Len(lines)) :
     /\ z[1] + 2 <= z[2]
     /\ Trim(lines[z[1]]) = Trim(search[1]) /\ Trim(lines[z[2]]) = Trim(search[Len(search)])}

\* The candidates begin and end with lines like those of oldString
\* (tool/edit.ts:244-258).
LEMMA AnchoredAre ==
  ASSUME NEW lines, NEW search, Len(lines) \in Nat, DOMAIN lines = 1..Len(lines)
  PROVE  Anchored(lines, search) \in Seq(Spans(lines, search))
<1> DEFINE Ends(i) == {j \in (i + 2)..Len(lines) : Trim(lines[j]) = Trim(search[Len(search)])}
           from == {i \in DOMAIN lines : Trim(lines[i]) = Trim(search[1]) /\ Ends(i) # {}}
           places == [i \in DOMAIN lines |-> i]
           Least(i) == CHOOSE j \in Ends(i) : \A h \in Ends(i) : j <= h
<1>1. PICK starts : starts = Those(places, from)
  OBVIOUS
<1>2. Anchored(lines, search) = [k \in DOMAIN starts |-> <<starts[k], Least(starts[k])>>]
  BY <1>1 DEF Anchored
<1>3. ASSUME NEW i \in from PROVE <<i, Least(i)>> \in Spans(lines, search)
  <2>1. i \in 1..Len(lines) /\ Trim(lines[i]) = Trim(search[1]) /\ Ends(i) # {} /\ Ends(i) \in SUBSET Nat
    OBVIOUS
  <2>2. \E j \in Ends(i) : \A h \in Ends(i) : j <= h
    <3> HIDE DEF Ends
    <3> QED BY <2>1, LeastOf
  <2>3. Least(i) \in Ends(i)
    <3> HIDE DEF Ends
    <3> QED BY <2>2
  <2>4. PICK j : j = Least(i)
    OBVIOUS
  <2>5. j \in (i + 2)..Len(lines) /\ Trim(lines[j]) = Trim(search[Len(search)])
    BY <2>3, <2>4
  <2>6. <<i, j>> \in Spans(lines, search)
    BY <2>1, <2>5 DEF Spans
  <2> QED BY <2>4, <2>6
<1>4. starts \in Seq(from)
  <2>1. PICK p : p = places
    OBVIOUS
  <2>2. p \in Seq(Nat) /\ \A i \in DOMAIN p : i \in from => p[i] \in from
    BY <2>1
  <2> HIDE DEF places, from
  <2> QED BY <1>1, <2>1, <2>2, ThoseIn
<1> HIDE DEF from, Least, places
<1>5. DOMAIN starts = 1..Len(starts) /\ Len(starts) \in Nat /\ \A k \in 1..Len(starts) : starts[k] \in from
  BY <1>4
<1> QED BY <1>2, <1>3, <1>5

\* A block between such lines stands for oldString.
LEMMA SpanGood ==
  ASSUME NEW t \in Seq(Tokens), NEW find \in Seq(Tokens), Len(Lines(find)) >= 3,
         NEW z \in Spans(Lines(t), WithoutLastEmpty(Lines(find)))
  PROVE  BlockOf(Lines(t), z) \in Good(find)
<1>1. PICK ls, search : ls = Lines(t) /\ search = WithoutLastEmpty(Lines(find))
  OBVIOUS
<1>2. ls \in Seq(Row)
  BY <1>1, LinesType
<1>3. PICK i, j : i = z[1] /\ j = z[2]
  OBVIOUS
<1>4. /\ i \in 1..Len(ls) /\ j \in 1..Len(ls) /\ i + 2 <= j
      /\ Trim(ls[i]) = Trim(search[1]) /\ Trim(ls[j]) = Trim(search[Len(search)])
  BY <1>1, <1>3 DEF Spans
<1>5. PICK ms : ms = SubSeq(ls, i, j)
  OBVIOUS
<1>6. ms \in Seq(Row) /\ Len(ms) = j - i + 1 /\ ms[1] = ls[i] /\ ms[j - i + 1] = ls[j]
  BY <1>2, <1>4, <1>5
<1>7. Len(ms) >= 3 /\ ms # <<>> /\ ms[Len(ms)] = ls[j]
  BY <1>4, <1>6
<1>8. PICK b : b = Joined(ms)
  OBVIOUS
<1>9. b \in Seq(Tokens) /\ Lines(b) = ms
  BY <1>6, <1>7, <1>8, LinesJoined, RowsAre, JoinedType
<1>10. SameEnds(b, find)
  BY <1>1, <1>4, <1>6, <1>7, <1>9 DEF SameEnds
<1>11. b \in Good(find)
  BY <1>9, <1>10 DEF Good, StandsFor
<1> QED BY <1>1, <1>3, <1>5, <1>8, <1>11 DEF BlockOf

\* The best of the first candidates (tool/edit.ts:338-341).
Better(lines, search, spans, j, k) == Likeness(lines, search, spans[k]) > Likeness(lines, search, spans[j])
BestRule(lines, search, spans, n, f) ==
  f = [k \in 1..n |-> IF k = 1 THEN 1 ELSE IF Better(lines, search, spans, f[k - 1], k) THEN k ELSE f[k - 1]]

\* There is a function that tells the best of the first candidates.
LEMMA BestExists ==
  ASSUME NEW lines, NEW search, NEW spans, NEW n \in Nat
  PROVE  \E f : BestRule(lines, search, spans, n, f)
<1> DEFINE S == {k \in Nat : \E f : BestRule(lines, search, spans, k, f)}
           Next(f, k) == IF k = 1 THEN 1 ELSE IF Better(lines, search, spans, f[k - 1], k) THEN k ELSE f[k - 1]
<1>1. 0 \in S
  <2> DEFINE f == [i \in 1..0 |-> 1]
  <2>1. f = [i \in 1..0 |-> Next(f, i)]
    OBVIOUS
  <2>2. BestRule(lines, search, spans, 0, f)
    BY <2>1 DEF BestRule
  <2> HIDE DEF f
  <2> QED BY <2>2
<1>2. ASSUME NEW k \in 1..n, k - 1 \in S PROVE k \in S
  <2>1. PICK f : BestRule(lines, search, spans, k - 1, f)
    BY <1>2
  <2> DEFINE g == [i \in 1..k |-> IF i = k THEN Next(f, k) ELSE f[i]]
  <2>2. \A i \in 1..(k - 1) : f[i] = Next(f, i)
    BY <2>1 DEF BestRule
  <2>3. \A i \in 1..k : g[i] = Next(g, i)
    <3> TAKE i \in 1..k
    <3>1. g[i] = Next(f, i)
      BY <2>2
    <3>2. CASE i = 1
      BY <3>1, <3>2
    <3>3. CASE i # 1
      <4>1. g[i - 1] = f[i - 1]
        BY <3>3
      <4> QED BY <3>1, <4>1
    <3> QED BY <3>2, <3>3
  <2>4. g = [i \in 1..k |-> Next(g, i)]
    BY <2>3
  <2>5. BestRule(lines, search, spans, k, g)
    BY <2>4 DEF BestRule
  <2> HIDE DEF g
  <2> QED BY <2>5
<1>3. n \in S
  <2> HIDE DEF S
  <2> QED BY <1>1, <1>2, UpwardsTo
<1> QED BY <1>3

\* The best candidate is one of them (tool/edit.ts:305-341).
LEMMA MostAlikeIs ==
  ASSUME NEW lines, NEW search, NEW R, NEW spans \in Seq(R), spans # <<>>
  PROVE  MostAlike(lines, search, spans) \in R
<1>1. PICK n : n = Len(spans)
  OBVIOUS
<1>2. n \in Nat \ {0} /\ DOMAIN spans = 1..n
  BY <1>1
<1> DEFINE best == CHOOSE f : f = [k \in DOMAIN spans |->
              IF k = 1 THEN 1
              ELSE IF Likeness(lines, search, spans[k]) > Likeness(lines, search, spans[f[k - 1]]) THEN k ELSE f[k - 1]]
<1>3. \E f : BestRule(lines, search, spans, n, f)
  BY <1>2, BestExists
<1>4. BestRule(lines, search, spans, n, best)
  BY <1>2, <1>3, Zenon DEF BestRule, Better
<1>5. MostAlike(lines, search, spans) = spans[best[n]]
  BY <1>1, Zenon DEF MostAlike
<1> HIDE DEF best
<1>6. PICK f : f = best
  OBVIOUS
<1> DEFINE S == {k \in Nat : k = 0 \/ f[k] \in 1..n}
<1>7. 0 \in S
  OBVIOUS
<1>8. ASSUME NEW k \in 1..n, k - 1 \in S PROVE k \in S
  <2>1. f[k] = IF k = 1 THEN 1 ELSE IF Better(lines, search, spans, f[k - 1], k) THEN k ELSE f[k - 1]
    BY <1>4, <1>6 DEF BestRule
  <2>2. CASE k = 1
    BY <1>2, <2>1, <2>2
  <2>3. CASE k # 1
    <3>1. f[k - 1] \in 1..n
      BY <1>8, <2>3
    <3> QED BY <2>1, <2>3, <3>1
  <2> QED BY <2>2, <2>3
<1>9. n \in S
  <2> HIDE DEF S
  <2> QED BY <1>2, <1>7, <1>8, UpwardsTo
<1>10. f[n] \in 1..n
  BY <1>2, <1>9
<1> QED BY <1>1, <1>5, <1>6, <1>10

\* BlockAnchorReplacer proposes only what stands for oldString
\* (tool/edit.ts:228-361).
LEMMA BlockAnchorGood ==
  ASSUME NEW t \in Seq(Tokens), NEW find \in Seq(Tokens)
  PROVE  BlockAnchorReplacer(t, find) \in Seq(Good(find))
<1>1. PICK ls, search : ls = Lines(t) /\ search = WithoutLastEmpty(Lines(find))
  OBVIOUS
<1>2. BlockAnchorReplacer(t, find)
        = IF Len(Lines(find)) < 3 THEN <<>> ELSE AnchoredBlock(ls, search, Anchored(ls, search))
  BY <1>1 DEF BlockAnchorReplacer
<1>3. CASE Len(Lines(find)) < 3
  BY <1>2, <1>3
<1>4. CASE ~(Len(Lines(find)) < 3)
  <2>1. Len(Lines(find)) >= 3
    BY <1>4, SearchIs
  <2>2. PICK spans : spans = Anchored(ls, search)
    OBVIOUS
  <2>3. Len(ls) \in Nat /\ DOMAIN ls = 1..Len(ls)
    BY <1>1, LinesType
  <2>4. spans \in Seq(Spans(ls, search))
    BY <2>2, <2>3, AnchoredAre
  <2>5. PICK best : best = MostAlike(ls, search, spans)
    OBVIOUS
  <2>6. CASE spans = <<>>
    BY <1>2, <1>4, <2>2, <2>6 DEF AnchoredBlock
  <2>7. CASE spans # <<>>
    <3>1. best \in Spans(ls, search)
      BY <2>4, <2>5, <2>7, MostAlikeIs
    <3>2. BlockOf(ls, best) \in Good(find)
      BY <1>1, <2>1, <3>1, SpanGood
    <3>3. AnchoredBlock(ls, search, spans) \in {<<BlockOf(ls, best)>>, <<>>}
      BY <2>5, <2>7 DEF AnchoredBlock
    <3>4. PICK x : x = BlockOf(ls, best)
      OBVIOUS
    <3>5. <<x>> \in Seq(Good(find)) /\ <<>> \in Seq(Good(find))
      BY <3>2, <3>4
    <3> QED BY <1>2, <1>4, <2>2, <3>3, <3>4, <3>5
  <2> QED BY <2>6, <2>7
<1> QED BY <1>3, <1>4

\* So does ContextAwareReplacer (tool/edit.ts:524-580).
LEMMA ContextAwareGood ==
  ASSUME NEW t \in Seq(Tokens), NEW find \in Seq(Tokens)
  PROVE  ContextAwareReplacer(t, find) \in Seq(Good(find))
<1>1. PICK ls, search : ls = Lines(t) /\ search = WithoutLastEmpty(Lines(find))
  OBVIOUS
<1>2. PICK all : all = Anchored(ls, search)
  OBVIOUS
<1>3. CASE Len(Lines(find)) < 3
  <2>1. ContextAwareReplacer(t, find) = <<>>
    BY <1>3 DEF ContextAwareReplacer
  <2> QED BY <2>1
<1>4. CASE ~(Len(Lines(find)) < 3)
  <2> DEFINE Inner(span) == {k \in 2..(Len(search) - 1) : Trim(ls[span[1] + k - 1]) # <<>> \/ Trim(search[k]) # <<>>}
             Same(span) == {k \in Inner(span) : Trim(ls[span[1] + k - 1]) = Trim(search[k])}
             Reasonable(span) == /\ span[2] - span[1] + 1 = Len(search)
                                 /\ Cardinality(Same(span)) * 2 >= Cardinality(Inner(span))
  <2>1. PICK I : I = {k \in DOMAIN all : Reasonable(all[k])}
    OBVIOUS
  <2>2. PICK spans : spans = Those(all, I)
    OBVIOUS
  <2>3. ContextAwareReplacer(t, find) = [k \in DOMAIN spans |-> BlockOf(ls, spans[k])]
    BY <1>1, <1>2, <1>4, <2>1, <2>2, Zenon DEF ContextAwareReplacer
  <2>4. Len(ls) \in Nat /\ DOMAIN ls = 1..Len(ls)
    BY <1>1, LinesType
  <2>5. all \in Seq(Spans(ls, search))
    BY <1>2, <2>4, AnchoredAre
  <2>6. spans \in Seq(Spans(ls, search))
    <3>1. \A i \in DOMAIN all : i \in I => all[i] \in Spans(ls, search)
      BY <2>5
    <3> QED BY <2>2, <2>5, <3>1, ThoseIn
  <2>7. Len(Lines(find)) >= 3
    BY <1>4, SearchIs
  <2>8. \A z \in Spans(ls, search) : BlockOf(ls, z) \in Good(find)
    BY <1>1, <2>7, SpanGood
  <2>9. DOMAIN spans = 1..Len(spans) /\ Len(spans) \in Nat /\ \A k \in 1..Len(spans) : spans[k] \in Spans(ls, search)
    BY <2>6
  <2> QED BY <2>3, <2>8, <2>9
<1> QED BY <1>3, <1>4

-----------------------------------------------------------------------------
\* What is the same as oldString once spaces are normalised stands for it.
LEMMA NormalizedGood ==
  ASSUME NEW b \in Seq(Tokens), NEW find \in Seq(Tokens), Normalized(b) = Normalized(find)
  PROVE  b \in Good(find)
<1>1. Alike(Normalized(b), b) /\ Alike(Normalized(b), find)
  BY AlikeNormalized
<1>2. Alike(b, find)
  BY <1>1, AlikeBoth
<1> QED BY <1>2, GoodIfAlike

\* A stretch of a line occurs in it.
LEMMA StretchOccurs ==
  ASSUME NEW line \in Seq(Tokens), NEW i \in 1..Len(line), NEW j \in 1..Len(line), SubSeq(line, i, j) # <<>>
  PROVE  i \in Occurrences(line, SubSeq(line, i, j)) /\ SubSeq(line, i, j) \in Seq(Tokens)
<1>1. PICK s : s = SubSeq(line, i, j)
  OBVIOUS
<1>2. i <= j
  BY <1>1
<1>3. s \in Seq(Tokens) /\ Len(s) = j - i + 1
  BY <1>1, <1>2
<1>4. i + Len(s) - 1 = j /\ i \in 1..(Len(line) - Len(s) + 1)
  BY <1>2, <1>3
<1> QED BY <1>1, <1>3, <1>4 DEF Occurrences

\* A line, or a stretch of it, that is proposed stands for oldString
\* (tool/edit.ts:367-393).
LEMMA MatchedGood ==
  ASSUME NEW line \in Seq(Tokens), NEW find \in Seq(Tokens)
  PROVE  Matched(line, find) \in Seq(Good(find))
<1>1. CASE Normalized(line) = Normalized(find)
  <2>1. line \in Good(find) /\ Matched(line, find) = <<line>>
    BY <1>1, NormalizedGood DEF Matched
  <2> QED BY <2>1
<1>2. CASE Normalized(line) # Normalized(find) /\ Stretches(line, find) = {}
  <2>1. Matched(line, find) = <<>>
    BY <1>2 DEF Matched
  <2> QED BY <2>1
<1>3. CASE Normalized(line) # Normalized(find) /\ Stretches(line, find) # {}
  <2> DEFINE start(s) == CHOOSE i \in Occurrences(line, s) : \A j \in Occurrences(line, s) : i <= j
  <2>1. PICK T : T = Stretches(line, find)
    OBVIOUS
  <2>2. PICK chosen : chosen = CHOOSE s \in T : \A r \in T : start(s) <= start(r)
    OBVIOUS
  <2>3. Matched(line, find) = <<chosen>>
    BY <1>3, <2>1, <2>2 DEF Matched
  <2>4. ASSUME NEW s \in T PROVE start(s) \in Nat /\ s \in Good(find)
    <3>1. PICK i \in 1..Len(line), j \in 1..Len(line) : s = SubSeq(line, i, j)
      <4>1. PICK D : D = DOMAIN line
        OBVIOUS
      <4>2. s \in Stretches(line, find)
        BY <2>1
      <4>3. s \in {SubSeq(line, i, j) : i, j \in D}
        BY <4>1, <4>2 DEF Stretches
      <4>4. \E i \in D, j \in D : s = SubSeq(line, i, j)
        BY <4>3
      <4>5. D = 1..Len(line)
        BY <4>1
      <4> QED BY <4>4, <4>5
    <3>2. s # <<>> /\ Normalized(s) = Normalized(find)
      BY <2>1 DEF Stretches
    <3>3. i \in Occurrences(line, s) /\ s \in Seq(Tokens)
      BY <3>1, <3>2, StretchOccurs
    <3>4. PICK O : O = Occurrences(line, s)
      OBVIOUS
    <3>5. O \in SUBSET Nat /\ O # {}
      <4>1. PICK n : n = Len(line) - Len(s) + 1
        OBVIOUS
      <4>2. n \in Int
        BY <3>3, <4>1
      <4>3. O \in SUBSET (1..n)
        BY <3>4, <4>1 DEF Occurrences
      <4> QED BY <3>3, <3>4, <4>2, <4>3
    <3>6. \E h \in O : \A k \in O : h <= k
      BY <3>5, LeastOf
    <3>7. start(s) \in O
      BY <3>4, <3>6
    <3>8. s \in Good(find)
      BY <3>2, <3>3, NormalizedGood
    <3> QED BY <3>5, <3>7, <3>8
  <2> HIDE DEF start
  <2>5. \E s \in T : \A r \in T : start(s) <= start(r)
    <3>1. PICK S : S = {start(s) : s \in T}
      OBVIOUS
    <3>2. S \in SUBSET Nat /\ S # {}
      BY <1>3, <2>1, <2>4, <3>1
    <3>3. \E n \in S : \A m \in S : n <= m
      BY <3>2, LeastOf
    <3> QED BY <3>1, <3>3
  <2>6. chosen \in T
    BY <2>2, <2>5
  <2>7. chosen \in Good(find)
    BY <2>4, <2>6
  <2> QED BY <2>3, <2>7
<1> QED BY <1>1, <1>2, <1>3

\* WhitespaceNormalizedReplacer proposes only what stands for oldString
\* (tool/edit.ts:363-405).
LEMMA WhitespaceNormalizedGood ==
  ASSUME NEW t \in Seq(Tokens), NEW find \in Seq(Tokens)
  PROVE  WhitespaceNormalizedReplacer(t, find) \in Seq(Good(find))
<1>1. PICK ls, n, s : ls = Lines(t) /\ n = Len(Lines(find)) /\ s = Blocks(t, n)
  OBVIOUS
<1>2. PICK m : m = [i \in DOMAIN ls |-> Matched(ls[i], find)]
  OBVIOUS
<1>3. PICK u : u = Normalized(find)
  OBVIOUS
<1>4. ls \in Seq(Seq(Tokens)) /\ n \in Nat
  BY <1>1, LinesType, RowsAre, SearchIs
<1>5. \A i \in 1..Len(ls) : Matched(ls[i], find) \in Seq(Good(find))
  <2>1. \A i \in 1..Len(ls) : ls[i] \in Seq(Tokens)
    BY <1>4
  <2> QED BY <2>1, MatchedGood
<1>6. m \in Seq(Seq(Good(find)))
  <2>1. DOMAIN ls = 1..Len(ls) /\ Len(ls) \in Nat
    BY <1>4
  <2> QED BY <1>2, <1>5, <2>1
<1>7. FlattenSeq(m) \in Seq(Good(find))
  BY <1>6, FlattenType
<1>8. \A b \in Seq(Tokens) : Normalized(b) = u => b \in Good(find)
  BY <1>3, NormalizedGood
<1>9. Those(s, {i \in DOMAIN s : Normalized(s[i]) = u}) \in Seq(Good(find))
  BY <1>1, <1>4, <1>8, ChosenBlocks
<1>10. PICK c : c = IF n = 1 THEN <<>> ELSE Those(s, {i \in DOMAIN s : Normalized(s[i]) = u})
  OBVIOUS
<1>11. c \in Seq(Good(find))
  BY <1>9, <1>10
<1>12. WhitespaceNormalizedReplacer(t, find) = FlattenSeq(m) \o c
  BY <1>1, <1>2, <1>3, <1>10 DEF WhitespaceNormalizedReplacer, BlocksLike
<1> QED BY <1>7, <1>11, <1>12, ConcatIs

\* Every proposal stands for oldString; the first one is oldString.
LEMMA ProposalsGood ==
  ASSUME NEW t \in Seq(Tokens), NEW find \in Seq(Tokens)
  PROVE  /\ Proposals(t, find) \in Seq(Good(find))
         /\ Proposals(t, find) # <<>> /\ Proposals(t, find)[1] = find
<1>1. PICK a, b, c, d, e, f, g, h, k :
        /\ a = SimpleReplacer(t, find) /\ b = LineTrimmedReplacer(t, find) /\ c = BlockAnchorReplacer(t, find)
        /\ d = WhitespaceNormalizedReplacer(t, find) /\ e = IndentationFlexibleReplacer(t, find)
        /\ f = EscapeNormalizedReplacer(t, find) /\ g = TrimmedBoundaryReplacer(t, find)
        /\ h = ContextAwareReplacer(t, find) /\ k = MultiOccurrenceReplacer(t, find)
  OBVIOUS
<1>2. PICK G : G = Good(find)
  OBVIOUS
<1>3. find \in G
  BY <1>2, AlikeItself, GoodIfAlike
<1>4. a = <<find>> /\ a \in Seq(G) /\ k \in Seq(G)
  BY <1>1, <1>3 DEF SimpleReplacer, MultiOccurrenceReplacer
<1>5. b \in Seq(G) /\ c \in Seq(G) /\ d \in Seq(G) /\ e \in Seq(G)
  BY <1>1, <1>2, LineTrimmedGood, BlockAnchorGood, WhitespaceNormalizedGood, IndentationFlexibleGood
<1>6. f \in Seq(G) /\ g \in Seq(G) /\ h \in Seq(G)
  BY <1>1, <1>2, EscapeNormalizedGood, TrimmedBoundaryGood, ContextAwareGood
<1>7. Proposals(t, find) = a \o b \o c \o d \o e \o f \o g \o h \o k
  BY <1>1 DEF Proposals
<1> DEFINE Begins(x) == x \in Seq(G) /\ x # <<>> /\ x[1] = find
<1>8. ASSUME NEW x, Begins(x), NEW y \in Seq(G) PROVE Begins(x \o y)
  <2>1. PICK z : z = x \o y
    OBVIOUS
  <2>2. z \in Seq(G) /\ Len(z) = Len(x) + Len(y) /\ z[1] = x[1]
    BY <1>8, <2>1
  <2>3. Len(x) # 0
    BY <1>8
  <2>4. Len(x) \in Nat /\ Len(y) \in Nat
    BY <1>8
  <2>5. Len(z) # 0
    BY <2>2, <2>3, <2>4
  <2> QED BY <1>8, <2>1, <2>2, <2>5
<1>9. Begins(a)
  BY <1>4
<1> HIDE DEF Begins
<1>10. Begins(a \o b \o c \o d \o e \o f \o g \o h \o k)
  BY <1>4, <1>5, <1>6, <1>8, <1>9
<1> QED BY <1>2, <1>7, <1>10 DEF Begins

\* What is proposed and occurs; "not found": neither oldString nor lines that
\* differ from it in spaces occur.
LEMMA FoundIs ==
  ASSUME NEW t \in Seq(Tokens), NEW find \in Seq(Tokens)
  PROVE  LET found == Those(Proposals(t, find), {k \in DOMAIN Proposals(t, find) : OccursIn(Proposals(t, find)[k], t)})
         IN /\ found \in Seq(Good(find))
            /\ \A k \in DOMAIN found : OccursIn(found[k], t)
            /\ OccursIn(find, t) => found # <<>> /\ found[1] = find
            /\ \A k \in DOMAIN Proposals(t, find) : OccursIn(Proposals(t, find)[k], t) => found # <<>>
<1>1. PICK p : p = Proposals(t, find)
  OBVIOUS
<1>2. PICK I : I = {k \in DOMAIN p : OccursIn(p[k], t)}
  OBVIOUS
<1>3. PICK found : found = Those(p, I)
  OBVIOUS
<1>4. p \in Seq(Good(find)) /\ p # <<>> /\ p[1] = find
  BY <1>1, ProposalsGood
<1>5. PICK B : B = {x \in Good(find) : OccursIn(x, t)}
  OBVIOUS
<1>6. \A i \in DOMAIN p : i \in I => p[i] \in B
  BY <1>2, <1>4, <1>5
<1>7. found \in Seq(B)
  BY <1>3, <1>4, <1>6, ThoseIn
<1>8. found \in Seq(Good(find))
  BY <1>5, <1>7
<1>9. \A k \in DOMAIN found : OccursIn(found[k], t)
  BY <1>5, <1>7
<1>10. ASSUME OccursIn(find, t) PROVE found # <<>> /\ found[1] = find
  <2>1. 1 \in I
    BY <1>2, <1>4, <1>10
  <2> QED BY <1>3, <1>4, <2>1, ThoseFirst
<1>11. ASSUME NEW k \in DOMAIN p, OccursIn(p[k], t) PROVE found # <<>>
  <2>1. k \in I
    BY <1>2, <1>11
  <2> QED BY <1>3, <1>4, <2>1, ThoseSome
<1> QED BY <1>1, <1>2, <1>3, <1>8, <1>9, <1>10, <1>11

-----------------------------------------------------------------------------
(* A word is kept *)

\* A token that is no space is kept.
LEMMA CollapsedSolid ==
  \A t \in Seq(Tokens) : Solid(t) # {} => Solid(Collapsed(t)) # {}
<1> DEFINE S == {t \in Seq(Tokens) : Solid(t) # {} => Solid(Collapsed(t)) # {}}
<1>1. <<>> \in S
  <2>1. Solid(<<>>) = {}
    BY DEF Solid
  <2> QED BY <2>1
<1>2. ASSUME NEW t \in Seq(Tokens), NEW x \in Tokens, t \in S PROVE Append(t, x) \in S
  <2>1. PICK q, c : q = Append(t, x) /\ c = Collapsed(t)
    OBVIOUS
  <2>2. q \in Seq(Tokens) /\ c \in Seq(Tokens) /\ Collapsed(q) = Put(c, x)
    BY <2>1, CollapsedGrows, CollapsedType
  <2>3. CASE ~IsSpace(x)
    <3>1. Put(c, x) = Append(c, x)
      BY <2>3 DEF Put
    <3>2. Len(c) + 1 \in Solid(Append(c, x))
      <4>1. Len(c) + 1 \in DOMAIN Append(c, x) /\ Append(c, x)[Len(c) + 1] = x
        BY <2>2
      <4> QED BY <2>3, <4>1 DEF Solid
    <3> QED BY <2>1, <2>2, <3>1, <3>2
  <2>4. CASE IsSpace(x) /\ Solid(q) # {}
    <3>1. PICK i \in DOMAIN q : ~IsSpace(q[i])
      BY <2>4 DEF Solid
    <3>2. i \in DOMAIN t /\ t[i] = q[i]
      BY <2>1, <2>4, <3>1
    <3>3. Solid(c) # {}
      BY <1>2, <2>1, <3>1, <3>2 DEF Solid
    <3>4. PICK j \in DOMAIN c : ~IsSpace(c[j])
      BY <3>3 DEF Solid
    <3>5. j \in DOMAIN Append(c, SP) /\ Append(c, SP)[j] = c[j]
      BY <2>2, <3>4, TokensAre
    <3>6. Solid(Append(c, SP)) # {}
      BY <3>4, <3>5 DEF Solid
    <3>7. Put(c, x) \in {c, Append(c, SP)}
      BY <2>4 DEF Put
    <3> QED BY <2>1, <2>2, <3>3, <3>6, <3>7
  <2> QED BY <2>1, <2>2, <2>3, <2>4
<1>3. \A t \in Seq(Tokens) : t \in S
  <2> HIDE DEF S
  <2> QED BY <1>1, <1>2, ByAppending
<1> QED BY <1>3

\* A text with a token that is no space is not trimmed to nothing.
LEMMA TrimSolid ==
  ASSUME NEW t \in Seq(Tokens), Solid(t) # {}
  PROVE  Trim(t) # <<>>
<1>1. PICK a \in Solid(t), b \in Solid(t) : \A j \in Solid(t) : a <= j /\ j <= b
  BY SolidIs
<1>2. a \in 1..Len(t) /\ b \in 1..Len(t) /\ a <= b
  BY <1>1 DEF Solid
<1>3. Trim(t) = SubSeq(t, a, b)
  BY <1>1, TrimSome
<1>4. Len(SubSeq(t, a, b)) = b - a + 1
  BY <1>2
<1>5. Len(SubSeq(t, a, b)) # 0
  BY <1>2, <1>4
<1>6. Len(<<>>) = 0
  OBVIOUS
<1> QED BY <1>3, <1>5, <1>6

\* What an oldString that is not empty has in it.
HasWord(t) == \E i \in DOMAIN t : t[i] \in Words

\* A text with a word in it is not normalised to nothing.
LEMMA WordKept ==
  ASSUME NEW t \in Seq(Tokens), HasWord(t)
  PROVE  Plain(t) # <<>>
<1>1. PICK i \in 1..Len(t) : t[i] \in Words
  BY DEF HasWord
<1>2. t[i] \notin {NL, SP, ESC}
  BY <1>1, TextAssumption
<1>3. PICK u : u = unescapeString(t)
  OBVIOUS
<1>4. u \in Seq(Tokens) /\ i \in 1..Len(u) /\ u[i] = t[i]
  BY <1>2, <1>3, UnescapedIs DEF Shown
<1>5. Solid(u) # {}
  BY <1>2, <1>4 DEF Solid, IsSpace
<1>6. Solid(Collapsed(u)) # {} /\ Collapsed(u) \in Seq(Tokens)
  BY <1>4, <1>5, CollapsedSolid, CollapsedType
<1>7. Trim(Collapsed(u)) # <<>>
  BY <1>6, TrimSolid
<1> QED BY <1>3, <1>7 DEF Plain, Normalized

\* What stands for a text with a word in it is not empty.
LEMMA GoodSolid ==
  ASSUME NEW find \in Seq(Tokens), HasWord(find), NEW p \in Good(find)
  PROVE  p # <<>>
<1>1. SUFFICES ASSUME p = <<>> PROVE FALSE
  OBVIOUS
<1>2. Plain(p) = <<>>
  <2>1. Collapsed(<<>>) = <<>>
    BY CollapsedGrows, TokensAre
  <2>2. Trim(<<>>) = <<>>
    <3>1. <<>> \in Seq(Spaces)
      OBVIOUS
    <3> QED BY <3>1, TrimNone
  <2> QED BY <1>1, <2>1, <2>2, UnescapedEmpty DEF Plain, Normalized
<1>3. ~SameEnds(p, find)
  <2>1. Lines(p) = <<<<>>>>
    BY <1>1, LinesGrow, TokensAre
  <2>2. Len(<<<<>>>>) = 1
    OBVIOUS
  <2> QED BY <2>1, <2>2 DEF SameEnds
<1>4. Plain(find) # <<>>
  BY WordKept
<1> QED BY <1>2, <1>3, <1>4 DEF Good, StandsFor

\* What occurs in a text and is not empty is a part of it.
LEMMA RegionIs ==
  ASSUME NEW t \in Seq(Tokens), NEW s \in Seq(Tokens), s # <<>>, OccursIn(s, t)
  PROVE  s \in Regions(t)
<1>1. PICK i \in Occurrences(t, s) : TRUE
  BY DEF OccursIn
<1>2. i \in 1..(Len(t) - Len(s) + 1) /\ s = SubSeq(t, i, i + Len(s) - 1)
  BY DEF Occurrences
<1>3. Len(s) \in Nat \ {0} /\ Len(t) \in Nat
  OBVIOUS
<1>4. i \in DOMAIN t /\ i + Len(s) - 1 \in DOMAIN t
  BY <1>2, <1>3
<1> QED BY <1>2, <1>4 DEF Regions

-----------------------------------------------------------------------------
(* ReplaceEvery *)

\* What the text becomes from a place on, up to one behind its end.
At(t, s, new, f, i) ==
  IF i > Len(t) THEN <<>> ELSE IF i \in Occurrences(t, s) THEN new \o f[i + Len(s)] ELSE <<t[i]>> \o f[i + 1]
Beyond(t, s) == Len(t) + Len(s) + 1
EveryRule(t, s, new, k, f) == f = [i \in k..Beyond(t, s) |-> At(t, s, new, f, i)]

\* There is a function that tells the result from each place on.
LEMMA EveryExists ==
  ASSUME NEW t \in Seq(Tokens), NEW s \in Seq(Tokens), s # <<>>, NEW new
  PROVE  \E f : EveryRule(t, s, new, 1, f)
<1>1. PICK m : m = Beyond(t, s)
  OBVIOUS
<1>2. Len(t) \in Nat /\ Len(s) \in Nat \ {0} /\ m \in Nat \ {0} /\ m = Len(t) + Len(s) + 1
  BY <1>1 DEF Beyond
<1> DEFINE S == {k \in Nat : \E f : EveryRule(t, s, new, m - k, f)}
<1>3. 0 \in S
  <2> DEFINE f == [i \in m..m |-> <<>>]
  <2>1. \A i \in m..m : At(t, s, new, f, i) = <<>>
    BY <1>2 DEF At
  <2>2. f = [i \in m..m |-> At(t, s, new, f, i)]
    BY <2>1
  <2>3. EveryRule(t, s, new, m, f) /\ m - 0 = m
    BY <1>1, <1>2, <2>2 DEF EveryRule
  <2> HIDE DEF f
  <2> QED BY <2>3
<1>4. ASSUME NEW k \in 1..(m - 1), k - 1 \in S PROVE k \in S
  <2>1. PICK n : n = m - k
    OBVIOUS
  <2>2. n \in 1..(m - 1) /\ m - (k - 1) = n + 1
    BY <1>2, <2>1
  <2>3. PICK f : EveryRule(t, s, new, n + 1, f)
    BY <1>4, <2>2
  <2>4. \A i \in (n + 1)..m : f[i] = At(t, s, new, f, i)
    BY <1>1, <2>3 DEF EveryRule
  <2> DEFINE g == [i \in n..m |-> IF i = n THEN At(t, s, new, f, n) ELSE f[i]]
  <2>5. ASSUME NEW i \in n..m PROVE g[i] = At(t, s, new, g, i)
    <3>1. g[i] = At(t, s, new, f, i)
      BY <1>2, <2>2, <2>4
    <3>2. CASE i > Len(t)
      BY <3>1, <3>2 DEF At
    <3>3. CASE ~(i > Len(t))
      <4>1. i + Len(s) \in (n + 1)..m /\ i + 1 \in (n + 1)..m
        BY <1>2, <2>2, <3>3
      <4>2. g[i + Len(s)] = f[i + Len(s)] /\ g[i + 1] = f[i + 1]
        BY <2>2, <4>1
      <4> HIDE DEF g
      <4> QED BY <3>1, <4>2 DEF At
    <3> QED BY <3>2, <3>3
  <2>6. g = [i \in n..m |-> At(t, s, new, g, i)]
    BY <2>5
  <2> HIDE DEF g
  <2>7. EveryRule(t, s, new, n, g)
    BY <1>1, <2>6 DEF EveryRule
  <2> QED BY <2>1, <2>7
<1>5. m - 1 \in S
  <2> HIDE DEF S
  <2>1. PICK h : h = m - 1
    OBVIOUS
  <2>2. h \in Nat /\ \A k \in 1..h : k - 1 \in S => k \in S
    BY <1>2, <1>4, <2>1
  <2>3. \A k \in 0..h : k \in S
    BY <1>3, <2>2, UpwardsTo
  <2> QED BY <2>1, <2>2, <2>3
<1>6. m - (m - 1) = 1
  BY <1>2
<1> QED BY <1>5, <1>6

\* The result is its first value (tool/edit.ts:640-642).
LEMMA EveryIs ==
  ASSUME NEW t \in Seq(Tokens), NEW s \in Seq(Tokens), s # <<>>, NEW new
  PROVE  \E f : ReplaceEvery(t, s, new) = f[1] /\ \A i \in 1..Beyond(t, s) : f[i] = At(t, s, new, f, i)
<1> DEFINE r == CHOOSE f : f = [i \in 1..(Len(t) + Len(s) + 1) |->
             IF i > Len(t) THEN <<>>
             ELSE IF i \in Occurrences(t, s) THEN new \o f[i + Len(s)] ELSE <<t[i]>> \o f[i + 1]]
<1>1. \E f : EveryRule(t, s, new, 1, f)
  BY EveryExists
<1>2. EveryRule(t, s, new, 1, r)
  BY <1>1, Zenon DEF EveryRule, At, Beyond
<1>3. ReplaceEvery(t, s, new) = r[1]
  BY Zenon DEF ReplaceEvery
<1> HIDE DEF r
<1> QED BY <1>2, <1>3 DEF EveryRule

\* What is left after all replacements is a text.
LEMMA EveryType ==
  ASSUME NEW t \in Seq(Tokens), NEW s \in Seq(Tokens), s # <<>>, NEW new \in Seq(Tokens)
  PROVE  ReplaceEvery(t, s, new) \in Seq(Tokens)
<1>1. PICK m : m = Beyond(t, s)
  OBVIOUS
<1>2. Len(t) \in Nat /\ Len(s) \in Nat \ {0} /\ m \in Nat \ {0} /\ m = Len(t) + Len(s) + 1
  BY <1>1 DEF Beyond
<1>3. PICK f : ReplaceEvery(t, s, new) = f[1] /\ \A i \in 1..m : f[i] = At(t, s, new, f, i)
  BY <1>1, EveryIs
<1> DEFINE S == {k \in Nat : \A i \in (m - k)..m : i >= 1 => f[i] \in Seq(Tokens)}
<1>4. 0 \in S
  <2>1. m \in 1..m /\ m > Len(t)
    BY <1>2
  <2>2. f[m] = At(t, s, new, f, m)
    BY <1>3, <2>1
  <2>3. f[m] = <<>> /\ <<>> \in Seq(Tokens)
    BY <2>1, <2>2 DEF At
  <2>4. \A i \in (m - 0)..m : i = m
    BY <1>2
  <2> QED BY <2>3, <2>4
<1>5. ASSUME NEW k \in 1..(m - 1), k - 1 \in S PROVE k \in S
  <2>1. PICK n : n = m - k
    OBVIOUS
  <2>2. n \in 1..(m - 1) /\ m - (k - 1) = n + 1
    BY <1>2, <2>1
  <2>3. \A i \in (n + 1)..m : f[i] \in Seq(Tokens)
    BY <1>5, <2>2
  <2>4. f[n] \in Seq(Tokens)
    <3>1. f[n] = At(t, s, new, f, n)
      BY <1>2, <1>3, <2>2
    <3>2. CASE n > Len(t)
      BY <3>1, <3>2 DEF At
    <3>3. CASE ~(n > Len(t))
      <4>1. f[n + Len(s)] \in Seq(Tokens) /\ f[n + 1] \in Seq(Tokens) /\ <<t[n]>> \in Seq(Tokens)
        <5>1. n + Len(s) \in (n + 1)..m /\ n + 1 \in (n + 1)..m /\ t[n] \in Tokens
          BY <1>2, <2>2, <3>3
        <5> QED BY <2>3, <5>1
      <4>2. new \o f[n + Len(s)] \in Seq(Tokens) /\ <<t[n]>> \o f[n + 1] \in Seq(Tokens)
        BY <4>1, TextConcat
      <4> QED BY <3>1, <3>3, <4>2 DEF At
    <3> QED BY <3>2, <3>3
  <2>5. \A i \in n..m : f[i] \in Seq(Tokens)
    <3>1. \A i \in n..m : i = n \/ i \in (n + 1)..m
      BY <1>2, <2>2
    <3> QED BY <2>3, <2>4, <3>1
  <2> QED BY <2>1, <2>5
<1>6. m - 1 \in S
  <2> HIDE DEF S
  <2>1. PICK h : h = m - 1
    OBVIOUS
  <2>2. h \in Nat /\ \A k \in 1..h : k - 1 \in S => k \in S
    BY <1>2, <1>5, <2>1
  <2>3. \A k \in 0..h : k \in S
    BY <1>4, <2>2, UpwardsTo
  <2> QED BY <2>1, <2>2, <2>3
<1>7. 1 \in (m - (m - 1))..m
  BY <1>2
<1> QED BY <1>3, <1>6, <1>7

\* A text that occurs once: what is before, the new one, what is behind.
LEMMA RestGrows ==
  ASSUME NEW t \in Seq(Tokens), NEW i \in 1..Len(t), NEW j \in Nat, i <= j, j <= Len(t)
  PROVE  SubSeq(t, i, j) = <<t[i]>> \o SubSeq(t, i + 1, j) /\ t[i] \in Tokens
<1>1. PICK a, b, c : a = SubSeq(t, i, j) /\ b = SubSeq(t, i + 1, j) /\ c = <<t[i]>>
  OBVIOUS
<1>2. t[i] \in Tokens /\ c \in Seq(Tokens) /\ Len(c) = 1 /\ c[1] = t[i]
  BY <1>1
<1>3. a \in Seq(Tokens) /\ Len(a) = j - i + 1 /\ \A k \in 1..(j - i + 1) : a[k] = t[i + k - 1]
  BY <1>1
<1>4. b \in Seq(Tokens) /\ Len(b) = j - i /\ \A k \in 1..(j - i) : b[k] = t[i + k]
  <2>1. i + 1 \in Nat /\ i + 1 <= j + 1
    OBVIOUS
  <2> QED BY <1>1, <2>1
<1>5. PICK d : d = c \o b
  OBVIOUS
<1>6. d \in Seq(Tokens) /\ Len(d) = 1 + (j - i) /\ d[1] = t[i] /\ \A k \in 1..(j - i) : d[1 + k] = b[k]
  <2>1. /\ c \o b \in Seq(Tokens) /\ Len(c \o b) = Len(c) + Len(b)
        /\ \A k \in 1..Len(c) : (c \o b)[k] = c[k]
        /\ \A k \in 1..Len(b) : (c \o b)[Len(c) + k] = b[k]
    <3>1. c \in Seq(Tokens) /\ b \in Seq(Tokens)
      BY <1>2, <1>4
    <3> QED BY <3>1, ConcatIs
  <2> QED BY <1>2, <1>4, <1>5, <2>1
<1>7. ASSUME NEW k \in 1..Len(a) PROVE a[k] = d[k]
  <2>1. CASE k = 1
    BY <1>3, <1>6, <2>1
  <2>2. CASE k # 1
    <3>1. k - 1 \in 1..(j - i) /\ 1 + (k - 1) = k /\ i + (k - 1) = i + k - 1 /\ k \in 1..(j - i + 1)
      BY <1>3, <2>2
    <3>2. d[1 + (k - 1)] = b[k - 1] /\ b[k - 1] = t[i + (k - 1)] /\ a[k] = t[i + k - 1]
      BY <1>3, <1>4, <1>6, <3>1
    <3> QED BY <3>1, <3>2
  <2> QED BY <2>1, <2>2
<1>8. Len(a) = Len(d)
  BY <1>3, <1>6
<1>9. a = d
  BY <1>3, <1>6, <1>7, <1>8, SameSeq
<1> QED BY <1>1, <1>2, <1>5, <1>9

\* A part of a text is a text.
LEMMA TextPart ==
  ASSUME NEW t \in Seq(Tokens), NEW i \in Nat \ {0}, NEW j \in Int, j <= Len(t)
  PROVE  SubSeq(t, i, j) \in Seq(Tokens)
OBVIOUS

\* To replace all occurrences of a text that occurs once is to cut it out
\* and put the other in its place (tool/edit.ts:640-646).
LEMMA EveryOnce ==
  ASSUME NEW t \in Seq(Tokens), NEW s \in Seq(Tokens), s # <<>>, NEW new \in Seq(Tokens),
         NEW a, Occurrences(t, s) = {a}
  PROVE  ReplaceEvery(t, s, new) = SubSeq(t, 1, a - 1) \o new \o SubSeq(t, a + Len(s), Len(t))
<1>1. PICK m, n, l : m = Beyond(t, s) /\ n = Len(t) /\ l = Len(s)
  OBVIOUS
<1>2. n \in Nat /\ l \in Nat \ {0} /\ m \in Nat \ {0} /\ m = n + l + 1
  BY <1>1 DEF Beyond
<1>3. a \in 1..(n - l + 1) /\ a \in Nat
  <2>1. a \in 1..(Len(t) - Len(s) + 1)
    BY DEF Occurrences
  <2> QED BY <1>1, <1>2, <2>1
<1>4. PICK f : ReplaceEvery(t, s, new) = f[1] /\ \A i \in 1..m : f[i] = At(t, s, new, f, i)
  BY <1>1, EveryIs
<1>5. ASSUME NEW i \in 1..m
      PROVE  f[i] = IF i > n THEN <<>> ELSE IF i = a THEN new \o f[i + l] ELSE <<t[i]>> \o f[i + 1]
  BY <1>1, <1>4 DEF At
<1>6. \A i \in (a + 1)..m : f[i] = SubSeq(t, i, n)
  <2> DEFINE S == {k \in Nat : \A i \in (m - k)..m : i > a => f[i] = SubSeq(t, i, n)}
  <2>1. \A i \in 1..m : i > n => f[i] = SubSeq(t, i, n)
    <3> TAKE i \in 1..m
    <3> HAVE i > n
    <3>1. f[i] = <<>>
      BY <1>5
    <3>2. SubSeq(t, i, n) = <<>>
      BY <1>2
    <3> QED BY <3>1, <3>2
  <2>2. 0 \in S
    <3>1. \A i \in (m - 0)..m : i \in 1..m /\ i > n
      BY <1>2
    <3> QED BY <2>1, <3>1
  <2>3. ASSUME NEW k \in 1..m, k - 1 \in S PROVE k \in S
    <3>1. PICK h : h = m - k
      OBVIOUS
    <3>2. h \in 0..(m - 1) /\ m - (k - 1) = h + 1
      BY <1>2, <3>1
    <3>3. \A i \in (h + 1)..m : i > a => f[i] = SubSeq(t, i, n)
      BY <2>3, <3>2
    <3>4. h > a => f[h] = SubSeq(t, h, n)
      <4> HAVE h > a
      <4>1. h \in 1..m /\ h + 1 \in (h + 1)..m /\ h + 1 > a /\ h # a
        BY <1>2, <1>3, <3>2
      <4>2. CASE h > n
        BY <2>1, <4>1, <4>2
      <4>3. CASE ~(h > n)
        <5>1. f[h] = <<t[h]>> \o f[h + 1]
          BY <1>5, <4>1, <4>3
        <5>2. f[h + 1] = SubSeq(t, h + 1, n)
          BY <3>3, <4>1
        <5>3. SubSeq(t, h, n) = <<t[h]>> \o SubSeq(t, h + 1, n)
          <6>1. h \in 1..Len(t) /\ n \in Nat /\ h <= n /\ n <= Len(t)
            BY <1>1, <1>2, <4>1, <4>3
          <6> QED BY <6>1, RestGrows
        <5> QED BY <5>1, <5>2, <5>3
      <4> QED BY <4>2, <4>3
    <3>5. \A i \in h..m : i = h \/ i \in (h + 1)..m
      BY <1>2, <3>2
    <3>6. \A i \in h..m : i > a => f[i] = SubSeq(t, i, n)
      BY <3>3, <3>4, <3>5
    <3> QED BY <3>1, <3>6
  <2>4. \A k \in 0..m : k \in S
    <3> HIDE DEF S
    <3> QED BY <1>2, <2>2, <2>3, UpwardsTo
  <2>5. m \in S /\ \A i \in (a + 1)..m : i \in (m - m)..m /\ i > a
    <3>1. m \in 0..m
      BY <1>2
    <3>2. m \in S
      <4> HIDE DEF S
      <4> QED BY <2>4, <3>1
    <3>3. \A i \in (a + 1)..m : i \in (m - m)..m /\ i > a
      BY <1>2, <1>3
    <3> QED BY <3>2, <3>3
  <2> QED BY <2>5
<1>7. PICK rest : rest = new \o SubSeq(t, a + l, n)
  OBVIOUS
<1>8. rest \in Seq(Tokens) /\ SubSeq(t, a + l, n) \in Seq(Tokens)
  <2>1. PICK w : w = SubSeq(t, a + l, n)
    OBVIOUS
  <2>2. w \in Seq(Tokens)
    <3>1. a + l \in Nat /\ a + l >= 1 /\ n <= Len(t)
      BY <1>1, <1>2, <1>3
    <3> QED BY <1>2, <2>1, <3>1
  <2> QED BY <1>7, <2>1, <2>2, TextConcat
<1>9. f[a] = rest
  <2>1. a \in 1..m /\ a <= n /\ a + l \in (a + 1)..m
    BY <1>2, <1>3
  <2>2. f[a + l] = SubSeq(t, a + l, n)
    BY <1>6, <2>1
  <2>3. ~(a > n)
    BY <1>2, <1>3, <2>1
  <2>4. f[a] = new \o f[a + l]
    BY <1>5, <2>1, <2>3
  <2> QED BY <1>7, <2>2, <2>4
<1>10. \A i \in 1..a : f[i] = SubSeq(t, i, a - 1) \o rest
  <2> DEFINE S == {k \in Nat : k < a => f[a - k] = SubSeq(t, a - k, a - 1) \o rest}
  <2>1. 0 \in S
    <3>1. SubSeq(t, a, a - 1) = <<>>
      BY <1>3
    <3>2. <<>> \o rest = rest
      BY <1>8
    <3>3. a - 0 = a
      BY <1>3
    <3> QED BY <1>9, <3>1, <3>2, <3>3
  <2>2. ASSUME NEW k \in 1..(a - 1), k - 1 \in S PROVE k \in S
    <3>1. PICK h : h = a - k
      OBVIOUS
    <3>2. h \in 1..(a - 1) /\ a - (k - 1) = h + 1 /\ k - 1 < a
      BY <1>3, <3>1
    <3>3. f[h + 1] = SubSeq(t, h + 1, a - 1) \o rest
      BY <2>2, <3>2
    <3>4. h \in 1..m /\ ~(h > n) /\ h # a
      BY <1>2, <1>3, <3>2
    <3>5. f[h] = <<t[h]>> \o f[h + 1]
      BY <1>5, <3>4
    <3>6. SubSeq(t, h, a - 1) = <<t[h]>> \o SubSeq(t, h + 1, a - 1) /\ t[h] \in Tokens
      <4>1. h \in 1..Len(t) /\ a - 1 \in Nat /\ h <= a - 1 /\ a - 1 <= Len(t)
        BY <1>1, <1>2, <1>3, <3>2
      <4> QED BY <4>1, RestGrows
    <3>7. PICK x, y : x = <<t[h]>> /\ y = SubSeq(t, h + 1, a - 1)
      OBVIOUS
    <3>8. x \in Seq(Tokens) /\ y \in Seq(Tokens)
      <4>1. h + 1 \in Nat \ {0}
        BY <3>2
      <4>2. a - 1 \in Int /\ a - 1 <= Len(t)
        BY <1>1, <1>2, <1>3
      <4>3. y \in Seq(Tokens)
        BY <3>7, <4>1, <4>2, TextPart
      <4> QED BY <3>6, <3>7, <4>3
    <3>9. x \o (y \o rest) = (x \o y) \o rest
      <4> HIDE DEF S
      <4>1. x \in Seq(Tokens)
        BY <3>8
      <4>2. y \in Seq(Tokens)
        BY <3>8
      <4>3. rest \in Seq(Tokens)
        BY <1>8
      <4> QED BY <4>1, <4>2, <4>3, TextAssoc, SMTT(30)
    <3>10. f[h] = SubSeq(t, h, a - 1) \o rest
      <4>1. f[h] = x \o (y \o rest)
        BY <3>3, <3>5, <3>7
      <4>2. SubSeq(t, h, a - 1) = x \o y
        BY <3>6, <3>7
      <4> QED BY <3>9, <4>1, <4>2, Zenon
    <3>11. k \in Nat /\ f[a - k] = SubSeq(t, a - k, a - 1) \o rest
      BY <3>1, <3>10
    <3> QED BY <3>11
  <2>3. \A k \in 0..(a - 1) : k \in S
    <3>1. PICK h : h = a - 1
      OBVIOUS
    <3> HIDE DEF S
    <3>2. h \in Nat /\ \A k \in 1..h : k - 1 \in S => k \in S
      BY <1>3, <2>2, <3>1
    <3>3. \A k \in 0..h : k \in S
      BY <2>1, <3>2, UpwardsTo
    <3> QED BY <3>1, <3>3
  <2>4. ASSUME NEW i \in 1..a PROVE f[i] = SubSeq(t, i, a - 1) \o rest
    <3>1. PICK k : k = a - i
      OBVIOUS
    <3>2. k \in 0..(a - 1) /\ k < a /\ a - k = i
      BY <1>3, <3>1
    <3>3. k \in S
      <4> HIDE DEF S
      <4> QED BY <2>3, <3>2
    <3> QED BY <3>2, <3>3
  <2> QED BY <2>4
<1>11. f[1] = SubSeq(t, 1, a - 1) \o rest
  BY <1>3, <1>10
<1>12. PICK x, y : x = SubSeq(t, 1, a - 1) /\ y = SubSeq(t, a + l, n)
  OBVIOUS
<1>13. x \in Seq(Tokens) /\ y \in Seq(Tokens)
  <2>1. a - 1 \in Nat /\ a - 1 <= Len(t)
    BY <1>1, <1>2, <1>3
  <2> QED BY <1>8, <1>12, <2>1
<1>14. x \o (new \o y) = (x \o new) \o y
  BY <1>13, TextAssoc
<1> QED BY <1>1, <1>4, <1>7, <1>11, <1>12, <1>14

-----------------------------------------------------------------------------
(* The call *)

\* The places where a text occurs are finitely many numbers.
LEMMA OccurrencesFinite ==
  ASSUME NEW t \in Seq(Tokens), NEW s \in Seq(Tokens)
  PROVE  IsFiniteSet(Occurrences(t, s)) /\ Occurrences(t, s) \in SUBSET Nat
<1>1. PICK n : n = Len(t) - Len(s) + 1
  OBVIOUS
<1>2. n \in Int
  BY <1>1
<1>3. Occurrences(t, s) \in SUBSET (1..n)
  BY <1>1 DEF Occurrences
<1>4. IsFiniteSet(1..n)
  BY <1>2, FS_Interval
<1>5. (1..n) \in SUBSET Nat
  BY <1>2
<1> QED BY <1>3, <1>4, <1>5, FS_Subset

\* What is taken occurs, and once unless all occurrences are replaced.
LEMMA TakenIs ==
  ASSUME NEW t \in Seq(Tokens), NEW s \in Seq(Tokens), NEW all \in BOOLEAN, Takes(t, s, all)
  PROVE  OccursIn(s, t) /\ (~all => \E a : Occurrences(t, s) = {a})
<1>1. CASE all
  BY <1>1 DEF Takes
<1>2. CASE ~all
  <2>1. Cardinality(Occurrences(t, s)) = 1
    BY <1>2 DEF Takes
  <2>2. \E a : Occurrences(t, s) = {a}
    BY <2>1, OccurrencesFinite, FS_Singleton
  <2> QED BY <2>2 DEF OccursIn
<1> QED BY <1>1, <1>2

\* What a call does, but for the reason of "not found".
Exact(t, find, new, all, result) ==
  /\ result.outcome \in {"edited", "not found", "ambiguous"}
  /\ result.text \in Seq(Tokens)
  /\ result.outcome = "edited" =>
       /\ \E region \in Regions(t) :
            /\ StandsFor(region, find)
            /\ result.text = ReplaceEvery(t, region, new)
            /\ all \/ Cardinality(Occurrences(t, region)) = 1
       /\ Takes(t, find, all) => result.text = ReplaceEvery(t, find, new)
  /\ result.outcome # "edited" => result.text = t
  /\ result.outcome = "ambiguous" => ~all

\* What is taken of the proposals that occur (tool/edit.ts:636-654).
LEMMA ReplacedIs ==
  ASSUME NEW t \in Seq(Tokens), NEW find \in Seq(Tokens), HasWord(find), NEW new \in Seq(Tokens),
         NEW all \in BOOLEAN, NEW found \in Seq(Good(find)), \A k \in DOMAIN found : OccursIn(found[k], t),
         OccursIn(find, t) => found # <<>> /\ found[1] = find,
         NEW result, result = Replaced(t, found, new, all)
  PROVE  /\ Exact(t, find, new, all, result)
         /\ result.outcome = "not found" => found = <<>>
<1>1. PICK I : I = {k \in DOMAIN found : Takes(t, found[k], all)}
  OBVIOUS
<1>2. PICK taken : taken = Those(found, I)
  OBVIOUS
<1>3. PICK at : at = CHOOSE i \in Occurrences(t, taken[1]) : \A j \in Occurrences(t, taken[1]) : i <= j
  OBVIOUS
<1>03. PICK text, why :
         /\ text = IF all THEN ReplaceEvery(t, taken[1], new)
                    ELSE SubSeq(t, 1, at - 1) \o new \o SubSeq(t, at + Len(taken[1]), Len(t))
         /\ why = IF found = <<>> THEN "not found" ELSE "ambiguous"
  OBVIOUS
<1>4. result = IF taken # <<>> THEN [outcome |-> "edited", text |-> text] ELSE [outcome |-> why, text |-> t]
  BY <1>1, <1>2, <1>3, <1>03, Zenon DEF Replaced
<1>5. CASE taken # <<>>
  <2>1. PICK B : B = {x \in Good(find) : Takes(t, x, all)}
    OBVIOUS
  <2>2. \A i \in DOMAIN found : i \in I => found[i] \in B
    BY <1>1, <2>1
  <2>3. taken \in Seq(B)
    BY <1>2, <2>2, ThoseIn
  <2>4. PICK s : s = taken[1]
    OBVIOUS
  <2>5. s \in B
    BY <1>5, <2>3, <2>4
  <2>6. s \in Good(find) /\ Takes(t, s, all)
    BY <2>1, <2>5
  <2>7. s \in Seq(Tokens) /\ StandsFor(s, find) /\ s # <<>>
    BY <2>6, GoodSolid DEF Good
  <2>8. OccursIn(s, t) /\ (~all => \E a : Occurrences(t, s) = {a})
    BY <2>6, <2>7, TakenIs
  <2>9. s \in Regions(t)
    BY <2>7, <2>8, RegionIs
  <2>10. result.outcome = "edited"
    BY <1>4, <1>5
  <2>11. result.text = ReplaceEvery(t, s, new)
    <3>0. result.text = text
      BY <1>4, <1>5
    <3>1. CASE all
      BY <1>03, <2>4, <3>0, <3>1
    <3>2. CASE ~all
      <4>1. PICK a : Occurrences(t, s) = {a}
        BY <2>8, <3>2
      <4>2. a \in Nat
        BY <2>7, <4>1, OccurrencesFinite
      <4>3. at = a
        BY <1>3, <2>4, <4>1, <4>2
      <4>4. ReplaceEvery(t, s, new) = SubSeq(t, 1, a - 1) \o new \o SubSeq(t, a + Len(s), Len(t))
        BY <2>7, <4>1, EveryOnce
      <4>5. text = SubSeq(t, 1, a - 1) \o new \o SubSeq(t, a + Len(s), Len(t))
        BY <1>03, <2>4, <3>2, <4>3
      <4> QED BY <3>0, <4>4, <4>5
    <3> QED BY <3>1, <3>2
  <2>12. all \/ Cardinality(Occurrences(t, s)) = 1
    BY <2>6 DEF Takes
  <2>13. result.text \in Seq(Tokens)
    BY <2>7, <2>11, EveryType
  <2>14. ASSUME Takes(t, find, all) PROVE s = find
    <3>1. OccursIn(find, t)
      BY <2>14, TakenIs
    <3>2. found # <<>> /\ found[1] = find
      BY <3>1
    <3>3. 1 \in I
      BY <1>1, <2>14, <3>2
    <3>4. taken[1] = found[1]
      BY <1>2, <3>2, <3>3, ThoseFirst
    <3> QED BY <2>4, <3>2, <3>4
  <2> QED BY <2>7, <2>9, <2>10, <2>11, <2>12, <2>13, <2>14 DEF Exact
<1>6. CASE taken = <<>>
  <2>1. result.outcome = why /\ result.text = t
    BY <1>4, <1>6
  <2>2. ASSUME found # <<>>, all PROVE FALSE
    <3>1. 1 \in DOMAIN found
      BY <2>2
    <3>2. Takes(t, found[1], all)
      BY <2>2, <3>1 DEF Takes
    <3>3. 1 \in I
      BY <1>1, <3>1, <3>2
    <3> QED BY <1>2, <1>6, <2>2, <3>3, ThoseFirst
  <2>3. why \in {"not found", "ambiguous"} /\ (why = "not found" <=> found = <<>>)
    BY <1>03
  <2> QED BY <2>1, <2>2, <2>3 DEF Exact
<1> QED BY <1>5, <1>6

\* Lines that differ from oldString in spaces alone are proposed.
LEMMA LinesProposed ==
  ASSUME NEW t \in Seq(Tokens), NEW find \in Seq(Tokens),
         NEW b \in ToSet(Blocks(t, Len(Lines(find)))), Normalized(b) = Normalized(find)
  PROVE  OccursIn(b, t) /\ \E k \in DOMAIN Proposals(t, find) : Proposals(t, find)[k] = b
<1>1. PICK n, s : n = Len(Lines(find)) /\ s = Blocks(t, n)
  OBVIOUS
<1>2. n \in Nat \ {0} /\ s \in Seq(Seq(Tokens))
  BY <1>1, SearchIs, BlocksAre
<1>3. PICK i \in DOMAIN s : b = s[i]
  BY <1>1 DEF ToSet
<1>4. OccursIn(b, t)
  BY <1>1, <1>2, <1>3, BlocksAre
<1> DEFINE Has(x) == x \in Seq(Seq(Tokens)) /\ \E k \in DOMAIN x : x[k] = b
<1>5. ASSUME NEW x \in Seq(Seq(Tokens)), NEW y \in Seq(Seq(Tokens)), Has(x) \/ Has(y) PROVE Has(x \o y)
  <2>1. PICK z : z = x \o y
    OBVIOUS
  <2>2. /\ z \in Seq(Seq(Tokens)) /\ Len(z) = Len(x) + Len(y)
        /\ \A k \in 1..Len(x) : z[k] = x[k]
        /\ \A k \in 1..Len(y) : z[Len(x) + k] = y[k]
    BY <2>1, ConcatIs
  <2>3. CASE Has(x)
    <3>1. PICK k \in 1..Len(x) : x[k] = b
      BY <2>3
    <3>2. k \in DOMAIN z /\ z[k] = b
      <4>1. z[k] = b
        BY <2>2, <3>1
      <4>2. Len(x) \in Nat /\ Len(y) \in Nat /\ DOMAIN z = 1..Len(z) /\ Len(z) = Len(x) + Len(y)
        BY <2>2
      <4> QED BY <4>1, <4>2
    <3> QED BY <2>1, <2>2, <3>2
  <2>4. CASE Has(y)
    <3>1. PICK k \in 1..Len(y) : y[k] = b
      BY <2>4
    <3>2. Len(x) + k \in DOMAIN z /\ z[Len(x) + k] = b
      <4>1. z[Len(x) + k] = b
        BY <2>2, <3>1
      <4>2. Len(x) \in Nat /\ Len(y) \in Nat /\ DOMAIN z = 1..Len(z) /\ Len(z) = Len(x) + Len(y)
        BY <2>2
      <4> QED BY <4>1, <4>2
    <3> QED BY <2>1, <2>2, <3>2
  <2> QED BY <1>5, <2>3, <2>4
<1>6. PICK ls : ls = Lines(t)
  OBVIOUS
<1>7. ls \in Seq(Seq(Tokens))
  BY <1>6, LinesType, RowsAre
<1>8. PICK m : m = [j \in DOMAIN ls |-> Matched(ls[j], find)]
  OBVIOUS
<1>9. PICK J : J = {j \in DOMAIN s : Normalized(s[j]) = Normalized(find)}
  OBVIOUS
<1>10. PICK c : c = IF n = 1 THEN <<>> ELSE Those(s, J)
  OBVIOUS
<1>11. WhitespaceNormalizedReplacer(t, find) = FlattenSeq(m) \o c
  BY <1>1, <1>6, <1>8, <1>9, <1>10 DEF WhitespaceNormalizedReplacer, BlocksLike
<1>12. m \in Seq(Seq(Seq(Tokens)))
  <2>1. ASSUME NEW j \in 1..Len(ls) PROVE Matched(ls[j], find) \in Seq(Seq(Tokens))
    <3>1. ls[j] \in Seq(Tokens)
      BY <1>7
    <3>2. Matched(ls[j], find) \in Seq(Good(find))
      BY <3>1, MatchedGood
    <3> QED BY <3>2 DEF Good
  <2>2. DOMAIN ls = 1..Len(ls) /\ Len(ls) \in Nat
    BY <1>7
  <2> QED BY <1>8, <2>1, <2>2
<1>13. FlattenSeq(m) \in Seq(Seq(Tokens)) /\ c \in Seq(Seq(Tokens))
  <2>1. Those(s, J) \in Seq(Seq(Tokens))
    <3>1. \A j \in DOMAIN s : j \in J => s[j] \in Seq(Tokens)
      BY <1>2
    <3> QED BY <1>2, <3>1, ThoseIn
  <2> QED BY <1>10, <1>12, <2>1, FlattenType
<1>14. ASSUME n = 1 PROVE Has(FlattenSeq(m))
  <2>1. s = ls
    BY <1>1, <1>2, <1>6, <1>14, BlocksAre
  <2>2. Matched(b, find) = <<b>>
    BY DEF Matched
  <2>3. i \in DOMAIN m /\ m[i] = <<b>> /\ 1 \in DOMAIN m[i] /\ m[i][1] = b
    BY <1>3, <1>8, <2>1, <2>2
  <2>4. \E k \in DOMAIN FlattenSeq(m) : FlattenSeq(m)[k] = m[i][1]
    <3>1. m \in Seq(Seq(Seq(Tokens)))
      BY <1>12
    <3> QED BY <2>3, <3>1, FlattenHas
  <2> QED BY <1>13, <2>3, <2>4
<1>15. ASSUME n # 1 PROVE Has(c)
  <2>1. PICK p : p = Parts(s, J)
    OBVIOUS
  <2>2. /\ Those(s, J) = FlattenSeq(p) /\ p \in Seq(Seq(Seq(Tokens))) /\ Len(p) = Len(s)
        /\ p[i] = IF i \in J THEN <<s[i]>> ELSE <<>>
    <3>1. s \in Seq(Seq(Tokens)) /\ i \in 1..Len(s)
      BY <1>2, <1>3
    <3> QED BY <2>1, <3>1, PartsAre
  <2>3. p[i] = <<b>> /\ i \in DOMAIN p /\ 1 \in DOMAIN p[i] /\ p[i][1] = b
    BY <1>2, <1>3, <1>9, <2>2
  <2>4. \E k \in DOMAIN FlattenSeq(p) : FlattenSeq(p)[k] = p[i][1]
    <3>1. p \in Seq(Seq(Seq(Tokens)))
      BY <2>2
    <3> QED BY <2>3, <3>1, FlattenHas
  <2>5. c = FlattenSeq(p)
    BY <1>10, <1>15, <2>2
  <2> QED BY <1>13, <2>3, <2>4, <2>5
<1>16. PICK d : d = WhitespaceNormalizedReplacer(t, find)
  OBVIOUS
<1>17. Has(d)
  <2>1. Has(FlattenSeq(m)) \/ Has(c)
    BY <1>14, <1>15
  <2> HIDE DEF Has
  <2> QED BY <1>5, <1>11, <1>13, <1>16, <2>1
<1>18. PICK x, e, f, g, h, k :
        /\ x = SimpleReplacer(t, find) \o LineTrimmedReplacer(t, find) \o BlockAnchorReplacer(t, find)
        /\ e = IndentationFlexibleReplacer(t, find)
        /\ f = EscapeNormalizedReplacer(t, find) /\ g = TrimmedBoundaryReplacer(t, find)
        /\ h = ContextAwareReplacer(t, find) /\ k = MultiOccurrenceReplacer(t, find)
  OBVIOUS
<1>19. Proposals(t, find) = x \o d \o e \o f \o g \o h \o k
  BY <1>16, <1>18 DEF Proposals
<1>20. x \in Seq(Seq(Tokens))
  <2>1. LineTrimmedReplacer(t, find) \in Seq(Good(find)) /\ BlockAnchorReplacer(t, find) \in Seq(Good(find))
    BY LineTrimmedGood, BlockAnchorGood
  <2>2. PICK u, v, w : u = SimpleReplacer(t, find) /\ v = LineTrimmedReplacer(t, find) /\ w = BlockAnchorReplacer(t, find)
    OBVIOUS
  <2>3. u \in Seq(Seq(Tokens))
    BY <2>2 DEF SimpleReplacer
  <2>4. v \in Seq(Seq(Tokens)) /\ w \in Seq(Seq(Tokens))
    BY <2>1, <2>2 DEF Good
  <2>5. u \o v \in Seq(Seq(Tokens))
    BY <2>3, <2>4, ConcatIs
  <2>6. (u \o v) \o w \in Seq(Seq(Tokens))
    BY <2>4, <2>5, ConcatIs
  <2> QED BY <1>18, <2>2, <2>6
<1>21. e \in Seq(Seq(Tokens)) /\ f \in Seq(Seq(Tokens)) /\ g \in Seq(Seq(Tokens)) /\ h \in Seq(Seq(Tokens))
  <2>1. /\ e \in Seq(Good(find)) /\ f \in Seq(Good(find)) /\ g \in Seq(Good(find)) /\ h \in Seq(Good(find))
    BY <1>18, IndentationFlexibleGood, EscapeNormalizedGood, TrimmedBoundaryGood, ContextAwareGood
  <2> QED BY <2>1 DEF Good
<1>22. k \in Seq(Seq(Tokens))
  BY <1>18 DEF MultiOccurrenceReplacer
<1>23. Has(x \o d \o e \o f \o g \o h \o k)
  <2>1. \A y, z : y \in Seq(Seq(Tokens)) /\ z \in Seq(Seq(Tokens)) /\ (Has(y) \/ Has(z)) => Has(y \o z)
    BY <1>5
  <2>2. d \in Seq(Seq(Tokens)) /\ \A y : Has(y) => y \in Seq(Seq(Tokens))
    BY <1>17
  <2> HIDE DEF Has
  <2> QED BY <1>17, <1>20, <1>21, <1>22, <2>1, <2>2
<1> QED BY <1>4, <1>19, <1>23

\* FoundIs and ReplacedIs together.
LEMMA replaceIs ==
  ASSUME NEW t \in Seq(Tokens), NEW find \in Seq(Tokens), HasWord(find), NEW new \in Seq(Tokens),
         NEW all \in BOOLEAN, NEW result, result = replace(t, find, new, all)
  PROVE  /\ Exact(t, find, new, all, result)
         /\ result.outcome = "not found" =>
              ~OccursIn(find, t) /\ \A b \in ToSet(Blocks(t, Len(Lines(find)))) : Normalized(b) # Normalized(find)
<1>1. PICK p : p = Proposals(t, find)
  OBVIOUS
<1>2. PICK found : found = Those(p, {k \in DOMAIN p : OccursIn(p[k], t)})
  OBVIOUS
<1>3. /\ found \in Seq(Good(find)) /\ \A k \in DOMAIN found : OccursIn(found[k], t)
      /\ OccursIn(find, t) => found # <<>> /\ found[1] = find
      /\ \A k \in DOMAIN p : OccursIn(p[k], t) => found # <<>>
  BY <1>1, <1>2, FoundIs
<1>4. result = Replaced(t, found, new, all)
  BY <1>1, <1>2 DEF replace
<1>5. ASSUME found = <<>>
      PROVE  ~OccursIn(find, t) /\ \A b \in ToSet(Blocks(t, Len(Lines(find)))) : Normalized(b) # Normalized(find)
  <2>1. ~OccursIn(find, t)
    BY <1>3, <1>5
  <2>2. ASSUME NEW b \in ToSet(Blocks(t, Len(Lines(find)))), Normalized(b) = Normalized(find) PROVE FALSE
    <3>1. OccursIn(b, t) /\ \E k \in DOMAIN p : p[k] = b
      BY <1>1, <2>2, LinesProposed
    <3> QED BY <1>3, <1>5, <3>1
  <2> QED BY <2>1, <2>2
<1>6. found \in Seq(Good(find))
  BY <1>3
<1>7. \A k \in DOMAIN found : OccursIn(found[k], t)
  BY <1>3
<1>8. OccursIn(find, t) => found # <<>> /\ found[1] = find
  BY <1>3
<1>9. Exact(t, find, new, all, result) /\ (result.outcome = "not found" => found = <<>>)
  BY <1>4, <1>6, <1>7, <1>8, ReplacedIs
<1> QED BY <1>5, <1>9

-----------------------------------------------------------------------------
(* Every call *)

\* The file is a text, and the last edit was exact.
TextsInv == source \in Seq(Tokens) /\ EditIsExact

\* A call keeps the invariant (tool/edit.ts:33-110).
LEMMA EditKeeps ==
  ASSUME NEW old \in Finds, NEW new \in Replacements, NEW all \in BOOLEAN, TextsInv, EditText(old, new, all)
  PROVE  TextsInv'
<1>1. source \in Seq(Tokens) /\ old \in Seq(Tokens) /\ new \in Seq(Tokens) /\ (old # <<>> => HasWord(old))
  BY TextAssumption DEF TextsInv, HasWord
<1>2. PICK result :
        /\ result = IF old = new THEN [outcome |-> "same", text |-> source]
                    ELSE IF old = <<>> THEN [outcome |-> "written", text |-> new] ELSE replace(source, old, new, all)
        /\ source' = result.text
        /\ lastEdit' = [outcome |-> result.outcome, before |-> source, old |-> old, new |-> new, all |-> all]
  BY DEF EditText
<1>3. PICK out, text : out = result.outcome /\ text = result.text
  OBVIOUS
<1>4. /\ lastEdit'.outcome = out /\ lastEdit'.before = source /\ lastEdit'.old = old
      /\ lastEdit'.new = new /\ lastEdit'.all = all /\ source' = text
  BY <1>2, <1>3
<1>5. CASE old = new
  <2>1. out = "same" /\ text = source
    BY <1>2, <1>3, <1>5
  <2> QED BY <1>1, <1>4, <2>1 DEF TextsInv, EditIsExact
<1>6. CASE old # new /\ old = <<>>
  <2>1. out = "written" /\ text = new
    BY <1>2, <1>3, <1>6
  <2> QED BY <1>1, <1>4, <2>1 DEF TextsInv, EditIsExact
<1>7. CASE old # new /\ old # <<>>
  <2>1. result = replace(source, old, new, all)
    BY <1>2, <1>7
  <2>2. /\ Exact(source, old, new, all, result)
        /\ result.outcome = "not found" =>
             ~OccursIn(old, source)
             /\ \A b \in ToSet(Blocks(source, Len(Lines(old)))) : Normalized(b) # Normalized(old)
    BY <1>1, <1>7, <2>1, replaceIs
  <2>3. text \in Seq(Tokens) /\ out \in {"edited", "not found", "ambiguous"}
    BY <1>3, <2>2 DEF Exact
  <2>4. out = "edited" =>
          /\ \E region \in Regions(source) :
               /\ StandsFor(region, old)
               /\ text = ReplaceEvery(source, region, new)
               /\ all \/ Cardinality(Occurrences(source, region)) = 1
          /\ Takes(source, old, all) => text = ReplaceEvery(source, old, new)
    BY <1>3, <2>2 DEF Exact
  <2>5. (out # "edited" => text = source) /\ (out = "ambiguous" => ~all)
    BY <1>3, <2>2 DEF Exact
  <2>6. out = "not found" =>
          ~OccursIn(old, source) /\ \A b \in ToSet(Blocks(source, Len(Lines(old)))) : Normalized(b) # Normalized(old)
    BY <1>3, <2>2
  <2>7. EditIsExact'
    BY <1>4, <2>3, <2>4, <2>5, <2>6 DEF EditIsExact
  <2> QED BY <1>4, <2>3, <2>7 DEF TextsInv
<1> QED BY <1>5, <1>6, <1>7

(* An edit replaces what stands for oldString, once or everywhere it occurs, *)
(* and nothing else; it replaces oldString itself when that occurs as asked  *)
(* for; a call that fails changes nothing, and says "not found" only of what *)
(* is not there: for any file, any oldString and any newString, however many *)
(* lines they have and however loose the replacer that found it              *)
(* (tool/edit.ts:33-110, 188-655).                                           *)
THEOREM EditsAreExact == TextInit /\ [][TextNext]_textVars => []EditIsExact
<1>1. TextInit => TextsInv
  <2> SUFFICES ASSUME TextInit PROVE TextsInv
    OBVIOUS
  <2>1. source \in Seq(Tokens) /\ lastEdit.outcome = "none"
    BY TextAssumption DEF TextInit, NoEdit
  <2> QED BY <2>1 DEF TextsInv, EditIsExact
<1>2. TextsInv /\ [TextNext]_textVars => TextsInv'
  <2> SUFFICES ASSUME TextsInv, [TextNext]_textVars PROVE TextsInv'
    OBVIOUS
  <2>1. CASE TextNext
    BY <2>1, EditKeeps DEF TextNext
  <2>2. CASE UNCHANGED textVars
    BY <2>2 DEF textVars, TextsInv, EditIsExact
  <2> QED BY <2>1, <2>2
<1>3. TextsInv => EditIsExact
  BY DEF TextsInv
<1> QED BY <1>1, <1>2, <1>3, PTL
=============================================================================
