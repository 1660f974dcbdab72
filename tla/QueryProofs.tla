----------------------------- MODULE QueryProofs -----------------------------
(***************************************************************************)
(* What Query says of a text and a document, proved for texts and          *)
(* documents of any length: the loop over the positions finds a quote of   *)
(* different words exactly where the document has it, and a query with at  *)
(* most one such quote asks what it should.                                *)
(***************************************************************************)
EXTENDS Query, SequenceTheorems, WellFoundedInduction, TLAPS

(* Induction, as a fact about sets of numbers.                              *)
LEMMA Least ==
    ASSUME NEW S \in SUBSET Nat, S # {}
    PROVE  \E n \in S : \A m \in S : n <= m
<1>1. IsWellFoundedOn(OpToRel(<, Nat), Nat)
  BY NatLessThanWellFounded
<1>2. \E n \in S : \A m \in S : ~ (<<m, n>> \in OpToRel(<, Nat))
  BY <1>1, WFMin
<1>3. PICK n \in S : \A m \in S : ~ (<<m, n>> \in OpToRel(<, Nat))
  BY <1>2
<1>4. \A m \in S : ~ (m < n)
  BY <1>3 DEF OpToRel
<1>. QED
  BY <1>4

LEMMA Upwards ==
    ASSUME NEW S, 0 \in S, \A n \in Nat : n \in S => n + 1 \in S
    PROVE  \A n \in Nat : n \in S
<1>. SUFFICES ASSUME Nat \ S # {} PROVE FALSE
  OBVIOUS
<1>1. PICK n \in Nat \ S : \A m \in Nat \ S : n <= m
  BY Least
<1>2. n # 0
  OBVIOUS
<1>3. n - 1 \in Nat /\ n - 1 \in S
  BY <1>1, <1>2
<1>. QED
  BY <1>3, n - 1 + 1 = n

-----------------------------------------------------------------------------
Ascending(s) == \A j, k \in DOMAIN s : j < k => s[j] < s[k]

(* The recursion of Ordered has a solution.                                 *)
LEMMA OrderedDefined ==
    ASSUME NEW text, Len(text) \in Nat, NEW S
    PROVE  \E f : /\ Ordered(text, S) = f[Len(text)]
                  /\ f = [i \in 0 .. Len(text) |->
                            IF i = 0 THEN << >>
                            ELSE IF i \in S THEN Append(f[i - 1], i) ELSE f[i - 1]]
<1>. DEFINE Is(n, f) == f = [i \in 0 .. n |->
                               IF i = 0 THEN << >>
                               ELSE IF i \in S THEN Append(f[i - 1], i) ELSE f[i - 1]]
            P == {n \in Nat : \E f : Is(n, f)}
<1>1. 0 \in P
  <2>1. Is(0, [i \in 0 .. 0 |-> << >>])
    OBVIOUS
  <2>. QED
    BY <2>1
<1>2. ASSUME NEW n \in Nat, n \in P PROVE n + 1 \in P
  <2>1. PICK f : Is(n, f)
    BY <1>2
  <2>. DEFINE g == [i \in 0 .. n + 1 |->
                      IF i <= n THEN f[i]
                      ELSE IF i \in S THEN Append(f[n], i) ELSE f[n]]
  <2>2. ASSUME NEW i \in 0 .. n + 1
        PROVE  g[i] = IF i = 0 THEN << >>
                      ELSE IF i \in S THEN Append(g[i - 1], i) ELSE g[i - 1]
    <3>1. CASE i = 0
      BY <2>1, <3>1
    <3>2. CASE i \in 1 .. n
      <4>1. i - 1 \in 0 .. n /\ i \in 0 .. n /\ i # 0
        BY <3>2
      <4>2. g[i - 1] = f[i - 1] /\ g[i] = f[i]
        BY <4>1
      <4>3. f[i] = IF i \in S THEN Append(f[i - 1], i) ELSE f[i - 1]
        BY <2>1, <4>1
      <4>. HIDE DEF g
      <4>. QED
        BY <4>1, <4>2, <4>3
    <3>3. CASE i = n + 1
      <4>1. g[n] = f[n] /\ i - 1 = n /\ i # 0
        BY <3>3
      <4>2. g[i] = IF i \in S THEN Append(f[n], i) ELSE f[n]
        BY <3>3
      <4>. HIDE DEF g
      <4>. QED
        BY <4>1, <4>2
    <3>. QED
      BY <3>1, <3>2, <3>3
  <2>3. g = [i \in 0 .. n + 1 |-> g[i]]
    OBVIOUS
  <2>. HIDE DEF g
  <2>4. Is(n + 1, g)
    BY <2>2, <2>3
  <2>5. n + 1 \in Nat
    OBVIOUS
  <2>. HIDE DEF Is
  <2>. QED
    BY <2>4, <2>5
<1>3. PICK f : Is(Len(text), f)
  <2>. HIDE DEF P
  <2>1. Len(text) \in P
    BY <1>1, <1>2, Upwards
  <2>. QED
    BY <2>1 DEF P
<1>4. Ordered(text, S) = (CHOOSE g : Is(Len(text), g))[Len(text)]
  BY DEF Ordered
<1>5. Is(Len(text), CHOOSE g : Is(Len(text), g))
  <2>. HIDE DEF Is
  <2>. QED
    BY <1>3
<1>. QED
  BY <1>4, <1>5

(* Ordered lists the places in S, each once and in their order.             *)
LEMMA OrderedRight ==
    ASSUME NEW text, Len(text) \in Nat, NEW S \in SUBSET (1 .. Len(text))
    PROVE  /\ Ordered(text, S) \in Seq(S)
           /\ Range(Ordered(text, S)) = S
           /\ Ascending(Ordered(text, S))
<1>1. PICK f : /\ Ordered(text, S) = f[Len(text)]
               /\ f = [i \in 0 .. Len(text) |->
                         IF i = 0 THEN << >>
                         ELSE IF i \in S THEN Append(f[i - 1], i) ELSE f[i - 1]]
  BY OrderedDefined
<1>. DEFINE Good(i) == /\ f[i] \in Seq(S)
                       /\ \A j \in S : j <= i <=> \E k \in DOMAIN f[i] : f[i][k] = j
                       /\ Ascending(f[i])
            P == {i \in Nat : i <= Len(text) => Good(i)}
<1>2. 0 \in P
  <2>1. f[0] = << >>
    BY <1>1
  <2>2. Good(0)
    BY <2>1 DEF Ascending
  <2>. HIDE DEF Good
  <2>. QED
    BY <2>2
<1>3. ASSUME NEW i \in Nat, i \in P PROVE i + 1 \in P
  <2>0. SUFFICES ASSUME i + 1 <= Len(text) PROVE Good(i + 1)
    OBVIOUS
  <2>1. i <= Len(text) /\ i + 1 \in 0 .. Len(text) /\ i + 1 # 0 /\ i + 1 - 1 = i
    BY <2>0
  <2>2. Good(i)
    <3>. HIDE DEF Good
    <3>. QED
      BY <1>3, <2>1
  <2>4. ASSUME NEW k \in 0 .. Len(text), k # 0
        PROVE  f[k] = IF k \in S THEN Append(f[k - 1], k) ELSE f[k - 1]
    BY <1>1, <2>4
  <2>5. f[i + 1] = IF i + 1 \in S THEN Append(f[i + 1 - 1], i + 1) ELSE f[i + 1 - 1]
    <3>. HIDE DEF Good, P
    <3>. QED
      BY <2>1, <2>4
  <2>6. f[i + 1] = IF i + 1 \in S THEN Append(f[i], i + 1) ELSE f[i]
    BY <2>1, <2>5
  <2>3. CASE i + 1 \notin S
    <3>1. f[i + 1] = f[i]
      BY <2>6, <2>3
    <3>2. \A j \in S : j <= i + 1 <=> j <= i
      BY <2>3
    <3>. QED
      BY <2>2, <3>1, <3>2
  <2>7. CASE i + 1 \in S
    <3>. DEFINE s == f[i]
                t == f[i + 1]
    <3>1. s \in Seq(S) /\ t = Append(s, i + 1)
      BY <2>2, <2>6, <2>7
    <3>0. /\ s = f[i] /\ t = f[i + 1]
          /\ \A j \in S : j <= i <=> \E k \in DOMAIN s : s[k] = j
          /\ Ascending(s)
      BY <2>2
    <3>. HIDE DEF s, t
    <3>2. /\ t \in Seq(S) /\ Len(t) = Len(s) + 1 /\ Len(s) \in Nat
          /\ DOMAIN s = 1 .. Len(s) /\ DOMAIN t = 1 .. Len(s) + 1
          /\ \A k \in 1 .. Len(s) : t[k] = s[k]
          /\ t[Len(s) + 1] = i + 1
      BY <2>7, <3>1
    <3>3. \A j \in S : j <= i <=> \E k \in 1 .. Len(s) : s[k] = j
      BY <3>0, <3>2
    <3>4. ASSUME NEW k \in 1 .. Len(s)
          PROVE  s[k] \in S /\ s[k] \in Nat /\ s[k] <= i
      <4>1. s[k] \in S
        BY <3>1, <3>2
      <4>2. \E l \in 1 .. Len(s) : s[l] = s[k]
        OBVIOUS
      <4>3. s[k] <= i
        BY <3>3, <4>1, <4>2, Zenon
      <4>4. s[k] \in Nat
        <5>. HIDE DEF Good, P
        <5>1. S \subseteq Nat
          OBVIOUS
        <5>. QED
          BY <4>1, <5>1
      <4>. QED
        BY <4>1, <4>3, <4>4
    <3>5. Ascending(t)
      <4>1. SUFFICES ASSUME NEW j \in 1 .. Len(s) + 1, NEW k \in 1 .. Len(s) + 1, j < k
                     PROVE  t[j] < t[k]
        BY <3>2 DEF Ascending
      <4>2. j \in 1 .. Len(s) /\ t[j] = s[j] /\ s[j] \in Nat /\ s[j] <= i
        BY <3>2, <3>4, <4>1
      <4>3. CASE k = Len(s) + 1
        BY <3>2, <4>2, <4>3
      <4>4. CASE k \in 1 .. Len(s)
        BY <3>0, <3>2, <4>1, <4>2, <4>4 DEF Ascending
      <4>. QED
        BY <3>2, <4>3, <4>4
    <3>6. ASSUME NEW j \in S
          PROVE  j <= i + 1 <=> \E k \in 1 .. Len(s) + 1 : t[k] = j
      <4>1. CASE j <= i
        BY <3>2, <3>3, <4>1
      <4>2. CASE j = i + 1
        BY <3>2, <4>2
      <4>3. CASE j > i + 1
        BY <3>2, <3>4, <4>3
      <4>. QED
        BY <4>1, <4>2, <4>3
    <3>. QED
      BY <3>0, <3>2, <3>5, <3>6
  <2>. QED
    BY <2>3, <2>7
<1>. HIDE DEF P
<1>4. Len(text) \in P
  BY <1>2, <1>3, Upwards
<1>5. Good(Len(text))
  BY <1>4 DEF P
<1>6. Range(f[Len(text)]) = S
  <2>1. \A j \in S : j <= Len(text)
    OBVIOUS
  <2>2. \A j \in S : \E k \in DOMAIN f[Len(text)] : f[Len(text)][k] = j
    BY <1>5, <2>1
  <2>3. \A k \in DOMAIN f[Len(text)] : f[Len(text)][k] \in S
    BY <1>5
  <2>. QED
    BY <2>2, <2>3 DEF Range
<1>. QED
  BY <1>1, <1>5, <1>6

(* Neighbours in S are neighbours in its list.                              *)
LEMMA Neighbours ==
    ASSUME NEW S \in SUBSET Nat, NEW s \in Seq(S), Range(s) = S, Ascending(s),
           NEW k \in DOMAIN s, s[k] + 1 \in S
    PROVE  k + 1 \in DOMAIN s /\ s[k + 1] = s[k] + 1
<1>1. PICK l \in DOMAIN s : s[l] = s[k] + 1
  BY DEF Range
<1>2. DOMAIN s = 1 .. Len(s) /\ Len(s) \in Nat
  OBVIOUS
<1>3. \A j \in DOMAIN s : s[j] \in Nat
  <2>1. \A j \in DOMAIN s : s[j] \in S
    OBVIOUS
  <2>2. S \subseteq Nat
    OBVIOUS
  <2>. QED
    BY <2>1, <2>2, Zenon
<1>4. l > k
  <2>1. CASE l < k
    <3>1. s[l] < s[k]
      BY <1>2, <2>1 DEF Ascending
    <3>. QED
      BY <1>1, <1>3, <3>1
  <2>2. CASE l = k
    BY <1>1, <1>3, <2>2
  <2>. QED
    BY <1>2, <2>1, <2>2
<1>5. k + 1 \in DOMAIN s
  BY <1>2, <1>4
<1>6. CASE l = k + 1
  BY <1>1, <1>5, <1>6
<1>7. CASE l > k + 1
  <2>1. s[k] < s[k + 1] /\ s[k + 1] < s[l]
    BY <1>2, <1>5, <1>7 DEF Ascending
  <2>2. s[k] \in Nat /\ s[k + 1] \in Nat
    BY <1>3, <1>5
  <2>. QED
    BY <1>1, <2>1, <2>2
<1>. QED
  BY <1>2, <1>4, <1>6, <1>7

(* The list of all places is the places.                                    *)
LEMMA AllPlaces ==
    ASSUME NEW n \in Nat, NEW s \in Seq(1 .. n), Range(s) = 1 .. n, Ascending(s)
    PROVE  Len(s) = n /\ \A k \in 1 .. n : s[k] = k
<1>1. DOMAIN s = 1 .. Len(s) /\ Len(s) \in Nat
  OBVIOUS
<1>2. \A j \in DOMAIN s : s[j] \in 1 .. n
  OBVIOUS
<1>. DEFINE Off == {k \in DOMAIN s : s[k] # k}
<1>3. Off = {}
  <2>. SUFFICES ASSUME Off # {} PROVE FALSE
    OBVIOUS
  <2>0. Off \in SUBSET Nat
    BY <1>1
  <2>1. PICK k \in Off : \A m \in Off : k <= m
    <3>. HIDE DEF Off
    <3>. QED
      BY <2>0, Least
  <2>2. k \in 1 .. Len(s) /\ s[k] # k /\ s[k] \in 1 .. n
    BY <1>1, <1>2
  <2>3. \A j \in 1 .. k - 1 : s[j] = j
    <3>1. \A j \in 1 .. k - 1 : j \in DOMAIN s /\ ~(k <= j)
      BY <1>1, <2>2
    <3>. QED
      BY <2>1, <3>1
  <2>. HIDE DEF Off
  <2>4. s[k] > k
    <3>1. CASE k = 1
      BY <2>2, <3>1
    <3>2. CASE k # 1
      <4>1. k - 1 \in DOMAIN s /\ k \in DOMAIN s /\ k - 1 < k /\ k - 1 \in 1 .. k - 1
        BY <1>1, <2>2, <3>2
      <4>2. s[k - 1] < s[k] /\ s[k - 1] = k - 1
        BY <2>3, <4>1 DEF Ascending
      <4>. QED
        BY <2>2, <4>2
    <3>. QED
      BY <3>1, <3>2
  <2>5. k \in 1 .. n
    BY <2>2, <2>4
  <2>6. PICK l \in DOMAIN s : s[l] = k
    BY <2>5 DEF Range
  <2>7. CASE l < k
    BY <1>1, <2>2, <2>3, <2>6, <2>7
  <2>8. CASE l = k
    BY <2>2, <2>6, <2>8
  <2>9. CASE l > k
    <3>1. s[k] < s[l]
      BY <1>1, <2>2, <2>9 DEF Ascending
    <3>. QED
      BY <2>2, <2>4, <2>6, <3>1
  <2>. QED
    BY <1>1, <2>2, <2>7, <2>8, <2>9
<1>4. \A k \in DOMAIN s : s[k] = k
  BY <1>3
<1>. HIDE DEF Off
<1>5. \A j \in 1 .. n : j \in DOMAIN s
  <2>1. TAKE j \in 1 .. n
  <2>2. PICK l \in DOMAIN s : s[l] = j
    BY DEF Range
  <2>. QED
    BY <1>4, <2>2
<1>6. \A k \in DOMAIN s : k \in 1 .. n
  BY <1>2, <1>4
<1>7. Len(s) = n
  <2>1. ASSUME NEW m \in Nat, 1 .. m = 1 .. n PROVE m = n
    <3>1. m # 0 => m \in 1 .. m
      OBVIOUS
    <3>2. n # 0 => n \in 1 .. n
      OBVIOUS
    <3>. QED
      BY <2>1, <3>1, <3>2
  <2>2. 1 .. Len(s) = 1 .. n
    BY <1>1, <1>5, <1>6
  <2>. QED
    BY <1>1, <2>1, <2>2
<1>. QED
  BY <1>1, <1>4, <1>7

-----------------------------------------------------------------------------
(* The words of a text are the words that stand in it.                      *)
LEMMA TokensWords ==
    ASSUME NEW S, NEW text \in Seq(S)
    PROVE  Range(Tokens(text)) = {text[i] : i \in Places(text, Word)}
<1>. DEFINE first == Ordered(text, Firsts(text))
<1>1. Len(text) \in Nat /\ DOMAIN text = 1 .. Len(text)
  OBVIOUS
<1>2. Firsts(text) \in SUBSET (1 .. Len(text)) /\ Firsts(text) \subseteq Places(text, Word)
  BY <1>1 DEF Firsts, Places
<1>3. first \in Seq(Firsts(text)) /\ Range(first) = Firsts(text)
  BY <1>1, <1>2, OrderedRight
<1>. HIDE DEF first
<1>4. Range(Tokens(text)) = {text[i] : i \in Firsts(text)}
  <2>1. Tokens(text) = [k \in DOMAIN first |-> text[first[k]]]
    BY DEF Tokens, first
  <2>2. Range(Tokens(text)) = {text[first[k]] : k \in DOMAIN first}
    BY <2>1 DEF Range
  <2>3. Firsts(text) = {first[k] : k \in DOMAIN first}
    BY <1>3 DEF Range
  <2>. QED
    BY <2>2, <2>3
<1>5. ASSUME NEW i \in Places(text, Word)
      PROVE  \E j \in Firsts(text) : text[j] = text[i]
  <2>. DEFINE Same == {j \in 1 .. Len(text) : text[j] = text[i]}
  <2>1. i \in Same /\ text[i] \in Word
    BY <1>1 DEF Places
  <2>2. PICK j \in Same : \A m \in Same : j <= m
    <3>1. Same \in SUBSET Nat
      OBVIOUS
    <3>. HIDE DEF Same
    <3>. QED
      BY <2>1, <3>1, Least
  <2>3. j \in 1 .. Len(text) /\ text[j] = text[i]
    OBVIOUS
  <2>4. \A m \in 1 .. j - 1 : text[m] # text[j]
    <3>1. \A m \in 1 .. j - 1 : m \in 1 .. Len(text) /\ ~(j <= m)
      BY <1>1, <2>3
    <3>. QED
      BY <2>2, <2>3, <3>1
  <2>. QED
    BY <1>1, <2>1, <2>3, <2>4 DEF Firsts, Places
<1>. QED
  BY <1>2, <1>4, <1>5

(* A text of different words is its words.                                  *)
LEMMA TokensPhrase ==
    ASSUME NEW text \in Seq(Word), IsInjective(text)
    PROVE  Tokens(text) = text
<1>. DEFINE first == Ordered(text, Firsts(text))
<1>1. Len(text) \in Nat /\ DOMAIN text = 1 .. Len(text)
  OBVIOUS
<1>2. Firsts(text) = 1 .. Len(text)
  <2>1. ASSUME NEW i \in 1 .. Len(text) PROVE i \in Firsts(text)
    <3>1. text[i] \in Word
      OBVIOUS
    <3>2. ASSUME NEW j \in 1 .. i - 1 PROVE text[j] # text[i]
      <4>1. j \in DOMAIN text /\ i \in DOMAIN text /\ i # j
        BY <1>1
      <4>. QED
        BY <4>1 DEF IsInjective
    <3>. QED
      BY <1>1, <3>1, <3>2 DEF Firsts, Places
  <2>. QED
    BY <1>1, <2>1 DEF Firsts, Places
<1>3. first \in Seq(1 .. Len(text)) /\ Range(first) = 1 .. Len(text) /\ Ascending(first)
  BY <1>1, <1>2, OrderedRight
<1>4. Tokens(text) = [k \in DOMAIN first |-> text[first[k]]]
  BY DEF Tokens
<1>. HIDE DEF first
<1>5. Len(first) = Len(text) /\ \A k \in 1 .. Len(text) : first[k] = k
  BY <1>1, <1>3, AllPlaces
<1>6. DOMAIN first = 1 .. Len(text)
  BY <1>3, <1>5
<1>. QED
  BY <1>1, <1>4, <1>5, <1>6

-----------------------------------------------------------------------------
(* A quote stands between two marks with words between them.                *)
IsQuote(text, q) ==
    /\ q.from \in DOMAIN text /\ q.to \in DOMAIN text /\ q.from < q.to
    /\ text[q.from] = Mark /\ text[q.to] = Mark
    /\ \A i \in q.from + 1 .. q.to - 1 : text[i] \in Word

LEMMA QuotesRight ==
    ASSUME NEW text \in Seq(Word \cup {Mark})
    PROVE  /\ Len(Quotes(text)) \in Nat
           /\ DOMAIN Quotes(text) = 1 .. Len(Quotes(text))
           /\ Range(Quotes(text)) = {Quotes(text)[k] : k \in 1 .. Len(Quotes(text))}
           /\ \A q \in Range(Quotes(text)) : IsQuote(text, q)
<1>. DEFINE marks == Places(text, {Mark})
            at == Ordered(text, marks)
            n == Len(at) \div 2
            quote(k) == [from |-> at[2 * k - 1], to |-> at[2 * k]]
<1>1. Len(text) \in Nat /\ DOMAIN text = 1 .. Len(text)
  OBVIOUS
<1>2. marks \in SUBSET (1 .. Len(text))
  BY <1>1 DEF Places
<1>3. at \in Seq(marks) /\ Range(at) = marks /\ Ascending(at)
  <2>. HIDE DEF marks
  <2>. QED
    BY <1>1, <1>2, OrderedRight
<1>4. Quotes(text) = [k \in 1 .. n |-> quote(k)]
  BY DEF Quotes
<1>5. \A i \in marks : i \in 1 .. Len(text) /\ text[i] = Mark
  BY <1>1 DEF Places
<1>6. \A i \in 1 .. Len(text) : i \notin marks => text[i] \in Word
  BY <1>1 DEF Places
<1>. HIDE DEF at, marks
<1>7. DOMAIN at = 1 .. Len(at) /\ Len(at) \in Nat /\ \A k \in DOMAIN at : at[k] \in marks
  BY <1>3
<1>8. n \in Nat /\ 2 * n <= Len(at)
  BY <1>7
<1>. HIDE DEF n
<1>9. ASSUME NEW k \in 1 .. n
      PROVE  IsQuote(text, quote(k))
  <2>1. 2 * k - 1 \in DOMAIN at /\ 2 * k \in DOMAIN at /\ 2 * k - 1 < 2 * k
    BY <1>7, <1>8
  <2>2. at[2 * k - 1] \in marks /\ at[2 * k] \in marks /\ at[2 * k - 1] < at[2 * k]
    BY <1>3, <1>7, <2>1 DEF Ascending
  <2>3. ASSUME NEW i \in at[2 * k - 1] + 1 .. at[2 * k] - 1, text[i] \notin Word
        PROVE  FALSE
    <3>1. at[2 * k - 1] \in 1 .. Len(text) /\ at[2 * k] \in 1 .. Len(text)
      BY <1>5, <2>2
    <3>2. i \in 1 .. Len(text) /\ at[2 * k - 1] < i /\ i < at[2 * k]
      BY <1>1, <3>1
    <3>3. PICK l \in DOMAIN at : at[l] = i
      BY <1>3, <1>6, <2>3, <3>2 DEF Range
    <3>4. CASE l < 2 * k - 1
      <4>1. at[l] < at[2 * k - 1]
        BY <1>3, <2>1, <3>4 DEF Ascending
      <4>. QED
        BY <3>1, <3>2, <3>3, <4>1
    <3>5. CASE l > 2 * k
      <4>1. at[2 * k] < at[l]
        BY <1>3, <2>1, <3>5 DEF Ascending
      <4>. QED
        BY <3>1, <3>2, <3>3, <4>1
    <3>6. CASE l = 2 * k - 1
      BY <3>1, <3>2, <3>3, <3>6
    <3>7. CASE l = 2 * k
      BY <3>1, <3>2, <3>3, <3>7
    <3>. QED
      BY <1>7, <3>4, <3>5, <3>6, <3>7
  <2>. QED
    BY <1>1, <1>5, <2>2, <2>3 DEF IsQuote
<1>. HIDE DEF quote
<1>10. Len(Quotes(text)) = n /\ DOMAIN Quotes(text) = 1 .. n
  BY <1>4, <1>8
<1>11. Range(Quotes(text)) = {Quotes(text)[k] : k \in 1 .. n}
  BY <1>10 DEF Range
<1>12. \A k \in 1 .. n : Quotes(text)[k] = quote(k)
  BY <1>4
<1>. QED
  BY <1>8, <1>9, <1>10, <1>11, <1>12

LEMMA InsideRight ==
    ASSUME NEW text \in Seq(Word \cup {Mark}), NEW q, IsQuote(text, q)
    PROVE  /\ Inside(text, q) \in Seq(Word)
           /\ Len(Inside(text, q)) = q.to - q.from - 1
           /\ \A j \in 1 .. q.to - q.from - 1 : Inside(text, q)[j] = text[q.from + j]
<1>1. Len(text) \in Nat /\ DOMAIN text = 1 .. Len(text)
  OBVIOUS
<1>2. PICK from, to : from = q.from /\ to = q.to
  OBVIOUS
<1>3. /\ from \in 1 .. Len(text) /\ to \in 1 .. Len(text) /\ from < to
      /\ \A i \in from + 1 .. to - 1 : text[i] \in Word
  BY <1>1, <1>2 DEF IsQuote
<1>. DEFINE s == [j \in 1 .. to - from - 1 |-> text[from + j]]
<1>4. Inside(text, q) = s
  <2>1. SubSeq(text, from + 1, to - 1) = [j \in 1 .. to - 1 - (from + 1) + 1 |-> text[j + (from + 1) - 1]]
    BY <1>1, <1>3
  <2>2. to - 1 - (from + 1) + 1 = to - from - 1
    BY <1>3
  <2>3. \A j \in 1 .. to - from - 1 : j + (from + 1) - 1 = from + j
    BY <1>3
  <2>. QED
    BY <1>2, <2>1, <2>2, <2>3 DEF Inside
<1>5. to - from - 1 \in Nat
  BY <1>3
<1>6. \A j \in 1 .. to - from - 1 : text[from + j] \in Word
  BY <1>3
<1>. QED
  BY <1>2, <1>4, <1>5, <1>6

-----------------------------------------------------------------------------
(* The recursion of Turns has a solution.                                   *)
LEMMA TurnsDefined ==
    ASSUME NEW quote, NEW hits, Len(hits) \in Nat
    PROVE  \E f : /\ Turns(quote, hits) = f
                  /\ f[0] = Nothing
                  /\ \A k \in 1 .. Len(hits) : f[k] = Turn(quote, f[k - 1], hits[k])
<1>. DEFINE Is(n, f) == f = [k \in 0 .. n |->
                               IF k = 0 THEN Nothing ELSE Turn(quote, f[k - 1], hits[k])]
            P == {n \in Nat : \E f : Is(n, f)}
<1>1. 0 \in P
  <2>1. Is(0, [k \in 0 .. 0 |-> Nothing])
    OBVIOUS
  <2>. QED
    BY <2>1
<1>2. ASSUME NEW n \in Nat, n \in P PROVE n + 1 \in P
  <2>1. PICK f : Is(n, f)
    BY <1>2
  <2>. DEFINE g == [k \in 0 .. n + 1 |->
                      IF k <= n THEN f[k] ELSE Turn(quote, f[n], hits[k])]
  <2>2. ASSUME NEW k \in 0 .. n + 1
        PROVE  g[k] = IF k = 0 THEN Nothing ELSE Turn(quote, g[k - 1], hits[k])
    <3>1. CASE k = 0
      BY <2>1, <3>1
    <3>2. CASE k \in 1 .. n
      <4>1. k - 1 \in 0 .. n /\ k \in 0 .. n /\ k # 0
        BY <3>2
      <4>2. g[k - 1] = f[k - 1] /\ g[k] = f[k]
        BY <4>1
      <4>3. f[k] = Turn(quote, f[k - 1], hits[k])
        BY <2>1, <4>1
      <4>. HIDE DEF g
      <4>. QED
        BY <4>1, <4>2, <4>3
    <3>3. CASE k = n + 1
      <4>1. g[n] = f[n] /\ k - 1 = n /\ k # 0
        BY <3>3
      <4>2. g[k] = Turn(quote, f[n], hits[k])
        BY <3>3
      <4>. HIDE DEF g
      <4>. QED
        BY <4>1, <4>2
    <3>. QED
      BY <3>1, <3>2, <3>3
  <2>3. g = [k \in 0 .. n + 1 |-> g[k]]
    OBVIOUS
  <2>. HIDE DEF g
  <2>4. Is(n + 1, g)
    BY <2>2, <2>3
  <2>5. n + 1 \in Nat
    OBVIOUS
  <2>. HIDE DEF Is
  <2>. QED
    BY <2>4, <2>5
<1>3. PICK f : Is(Len(hits), f)
  <2>. HIDE DEF P
  <2>1. Len(hits) \in P
    BY <1>1, <1>2, Upwards
  <2>. QED
    BY <2>1 DEF P
<1>4. Turns(quote, hits) = CHOOSE g : Is(Len(hits), g)
  BY DEF Turns
<1>5. Is(Len(hits), CHOOSE g : Is(Len(hits), g))
  <2>. HIDE DEF Is
  <2>. QED
    BY <1>3
<1>6. PICK h : h = Turns(quote, hits)
  OBVIOUS
<1>7. Is(Len(hits), h)
  <2>. HIDE DEF Is
  <2>. QED
    BY <1>4, <1>5, <1>6
<1>8. h[0] = Nothing
  BY <1>7
<1>9. ASSUME NEW k \in 1 .. Len(hits) PROVE h[k] = Turn(quote, h[k - 1], hits[k])
  BY <1>7
<1>. QED
  BY <1>6, <1>8, <1>9

(* The place in a quote tells what stands before it in the document.        *)
Sound(content, quote, m) ==
    /\ m \in [state : 0 .. Len(quote), prev : Int, ok : BOOLEAN]
    /\ m.state = 0 => m.prev = -1
    /\ m.state > 0 => /\ m.prev \in 1 .. Len(content) /\ m.state <= m.prev
                      /\ \A j \in 1 .. m.state : content[m.prev - m.state + j] = quote[j]
    /\ m.ok => m.state = Len(quote)
    /\ ~m.ok /\ Len(quote) > 0 => m.state < Len(quote)

IsHit(content, hit) ==
    \E p \in 1 .. Len(content) : hit = [pos |-> p, word |-> content[p]]

LEMMA TurnSound ==
    ASSUME NEW content \in Seq(Word), NEW quote \in Seq(Word), NEW m,
           Sound(content, quote, m), NEW hit, IsHit(content, hit)
    PROVE  Sound(content, quote, Turn(quote, m, hit))
<1>. DEFINE n == Len(quote)
<1>1. n \in Nat /\ Len(content) \in Nat
  OBVIOUS
<1>2. PICK p \in 1 .. Len(content) : hit = [pos |-> p, word |-> content[p]]
  BY DEF IsHit
<1>3. hit.pos = p /\ hit.word = content[p]
  BY <1>2
<1>4. PICK st \in 0 .. n, pv \in Int, k \in BOOLEAN : m = [state |-> st, prev |-> pv, ok |-> k]
  BY DEF Sound
<1>5. m.state = st /\ m.prev = pv /\ m.ok = k
  BY <1>4
<1>6. /\ st = 0 => pv = -1
      /\ st > 0 => /\ pv \in 1 .. Len(content) /\ st <= pv
                   /\ \A j \in 1 .. st : content[pv - st + j] = quote[j]
      /\ k => st = n
      /\ ~k /\ n > 0 => st < n
  BY <1>5 DEF Sound
<1>. HIDE DEF n
<1>7. CASE k
  BY <1>5, <1>7 DEF Turn
<1>8. CASE ~k /\ n = 0
  <2>1. st = 0
    BY <1>8
  <2>2. Advance(quote, m, hit) = m
    BY <1>5, <1>8, <2>1 DEF Advance, n
  <2>3. Turn(quote, m, hit) = [state |-> 0, prev |-> -1, ok |-> TRUE]
    BY <1>4, <1>5, <1>6, <1>8, <2>1, <2>2 DEF Turn, n
  <2>. QED
    BY <1>1, <1>8, <2>3 DEF Sound, n
<1>9. CASE ~k /\ n > 0
  <2>1. st < n /\ st # n
    BY <1>1, <1>6, <1>9
  <2>. DEFINE next == Advance(quote, m, hit)
              Partly(q) == /\ q \in [state : 0 .. n, prev : Int, ok : {FALSE}]
                           /\ q.state = 0 => q.prev = -1
                           /\ q.state > 0 =>
                                 /\ q.prev \in 1 .. Len(content) /\ q.state <= q.prev
                                 /\ \A j \in 1 .. q.state :
                                      content[q.prev - q.state + j] = quote[j]
  <2>2. Partly(next)
    <3>0. /\ GoesOn(quote, m, hit) <=> content[p] = quote[st + 1] /\ (pv = -1 \/ p = pv + 1)
          /\ Begins(quote, m, hit) <=> content[p] # quote[st + 1] /\ content[p] = quote[1]
      BY <1>3, <1>5 DEF GoesOn, Begins
    <3>1. CASE ~GoesOn(quote, m, hit) /\ ~Begins(quote, m, hit)
      <4>1. next = Nothing
        BY <1>5, <2>1, <3>1 DEF Advance, n
      <4>. HIDE DEF next
      <4>. QED
        BY <1>1, <4>1 DEF Nothing
    <3>2. CASE content[p] # quote[st + 1] /\ content[p] = quote[1]
      <4>0. next = [Nothing EXCEPT !.state = 1, !.prev = hit.pos]
        BY <1>5, <2>1, <3>0, <3>2 DEF Advance, n
      <4>1. next = [state |-> 1, prev |-> p, ok |-> FALSE]
        BY <1>3, <4>0 DEF Nothing
      <4>2. next.state = 1 /\ next.prev = p
        BY <4>1
      <4>3. 1 \in 0 .. n /\ p \in Int /\ 1 <= p
        BY <1>1, <1>9
      <4>4. \A j \in 1 .. 1 : p - 1 + j = p /\ j = 1
        BY <4>3
      <4>. HIDE DEF next
      <4>5. next \in [state : 0 .. n, prev : Int, ok : {FALSE}]
        BY <4>1, <4>3
      <4>6. \A j \in 1 .. 1 : content[p - 1 + j] = quote[j]
        BY <3>2, <4>4
      <4>7. p \in 1 .. Len(content)
        OBVIOUS
      <4>8. \A j \in 1 .. next.state : content[next.prev - next.state + j] = quote[j]
        BY <4>2, <4>6, Zenon
      <4>9. next.state > 0 /\ next.prev \in 1 .. Len(content) /\ next.state <= next.prev
        BY <4>2, <4>3, <4>7
      <4>10. next.state = 0 => next.prev = -1
        BY <4>5, <4>9
      <4>. QED
        BY <4>5, <4>8, <4>9, <4>10, Zenon
    <3>3. CASE content[p] = quote[st + 1] /\ (pv = -1 \/ p = pv + 1)
      <4>0. next = [m EXCEPT !.state = m.state + 1, !.prev = hit.pos]
        BY <1>5, <2>1, <3>0, <3>3 DEF Advance, n
      <4>1. next = [state |-> st + 1, prev |-> p, ok |-> FALSE]
        BY <1>3, <1>4, <1>5, <1>9, <4>0
      <4>2. next.state = st + 1 /\ next.prev = p
        BY <4>1
      <4>3. st + 1 \in 0 .. n /\ p \in Int /\ st \in Nat
        BY <1>1, <2>1
      <4>. HIDE DEF next
      <4>4. next \in [state : 0 .. n, prev : Int, ok : {FALSE}]
        BY <4>1, <4>3
      <4>5. st + 1 <= p
        BY <1>6, <3>3, <4>3
      <4>6. ASSUME NEW j \in 1 .. st + 1
            PROVE  content[p - (st + 1) + j] = quote[j]
        <5>1. CASE j = st + 1
          <6>1. p - (st + 1) + j = p
            BY <4>3, <5>1
          <6>. QED
            BY <3>3, <5>1, <6>1
        <5>2. CASE j # st + 1
          <6>1. j \in 1 .. st /\ st > 0
            BY <4>3, <5>2
          <6>2. pv \in 1 .. Len(content) /\ content[pv - st + j] = quote[j]
            BY <1>6, <6>1
          <6>3. p - (st + 1) + j = pv - st + j
            BY <3>3, <4>3, <6>2
          <6>. QED
            BY <6>2, <6>3
        <5>. QED
          BY <5>1, <5>2
      <4>7. st + 1 > 0 /\ p \in 1 .. Len(content)
        BY <4>3
      <4>8. \A j \in 1 .. next.state : content[next.prev - next.state + j] = quote[j]
        BY <4>2, <4>6, Zenon
      <4>9. next.state > 0 /\ next.prev \in 1 .. Len(content) /\ next.state <= next.prev
        BY <4>2, <4>5, <4>7
      <4>10. next.state = 0 => next.prev = -1
        BY <4>4, <4>9
      <4>. QED
        BY <4>4, <4>8, <4>9, <4>10, Zenon
    <3>. QED
      BY <3>0, <3>1, <3>2, <3>3
  <2>3. Turn(quote, m, hit) = [next EXCEPT !.ok = next.state = Len(quote)]
    BY <1>5, <1>9 DEF Turn
  <2>. HIDE DEF next
  <2>4. PICK s2 \in 0 .. n, p2 \in Int : next = [state |-> s2, prev |-> p2, ok |-> FALSE]
    BY <2>2
  <2>5. next.state = s2 /\ next.prev = p2
    BY <2>4
  <2>6. PICK b \in BOOLEAN : b = (s2 = n)
    OBVIOUS
  <2>7. Turn(quote, m, hit) = [state |-> s2, prev |-> p2, ok |-> b]
    <3>1. Turn(quote, m, hit) = [next EXCEPT !.ok = b]
      BY <2>3, <2>5, <2>6 DEF n
    <3>. QED
      BY <2>4, <3>1
  <2>8. PICK t : t = Turn(quote, m, hit)
    OBVIOUS
  <2>9. t.state = s2 /\ t.prev = p2 /\ t.ok = b /\ t \in [state : 0 .. n, prev : Int, ok : BOOLEAN]
    BY <2>7, <2>8
  <2>10. /\ s2 = 0 => p2 = -1
         /\ s2 > 0 => /\ p2 \in 1 .. Len(content) /\ s2 <= p2
                      /\ \A j \in 1 .. s2 : content[p2 - s2 + j] = quote[j]
    BY <2>2, <2>5
  <2>11. (b => s2 = n) /\ (~b => s2 < n)
    <3>1. s2 = n \/ s2 < n
      BY <1>1
    <3>. QED
      BY <2>6, <3>1
  <2>12. Sound(content, quote, t)
    <3>. HIDE DEF Partly
    <3>. QED
      BY <2>9, <2>10, <2>11 DEF Sound, n
  <2>. QED
    BY <2>8, <2>12
<1>. QED
  BY <1>1, <1>7, <1>8, <1>9

(* The hits in a document: its places with a word asked for, in order.      *)
HitPlaces(entry, asked) == Ordered(entry.text, Places(entry.text, asked))

LEMMA HitsRight ==
    ASSUME NEW entry, entry.text \in Seq(Word), NEW asked
    PROVE  /\ Len(Hits(entry, asked)) \in Nat
           /\ Len(HitPlaces(entry, asked)) = Len(Hits(entry, asked))
           /\ HitPlaces(entry, asked) \in Seq(Places(entry.text, asked))
           /\ Range(HitPlaces(entry, asked)) = Places(entry.text, asked)
           /\ Ascending(HitPlaces(entry, asked))
           /\ \A k \in 1 .. Len(Hits(entry, asked)) :
                 Hits(entry, asked)[k] = [pos |-> HitPlaces(entry, asked)[k],
                                          word |-> entry.text[HitPlaces(entry, asked)[k]]]
<1>. DEFINE at == HitPlaces(entry, asked)
            places == Places(entry.text, asked)
<1>1. Len(entry.text) \in Nat /\ DOMAIN entry.text = 1 .. Len(entry.text)
  OBVIOUS
<1>2. places \in SUBSET (1 .. Len(entry.text))
  BY <1>1 DEF Places
<1>. HIDE DEF places
<1>3. at \in Seq(places) /\ Range(at) = places /\ Ascending(at)
  BY <1>1, <1>2, OrderedRight DEF HitPlaces, places
<1>4. Hits(entry, asked) = [k \in DOMAIN at |-> [pos |-> at[k], word |-> entry.text[at[k]]]]
  BY DEF Hits, HitPlaces
<1>. HIDE DEF at
<1>5. DOMAIN at = 1 .. Len(at) /\ Len(at) \in Nat
  BY <1>3
<1>6. PICK hits : hits = Hits(entry, asked)
  OBVIOUS
<1>7. hits = [k \in 1 .. Len(at) |-> [pos |-> at[k], word |-> entry.text[at[k]]]]
  BY <1>4, <1>5, <1>6
<1>8. Len(hits) = Len(at)
  BY <1>5, <1>7
<1>9. \A k \in 1 .. Len(hits) : hits[k] = [pos |-> at[k], word |-> entry.text[at[k]]]
  BY <1>7, <1>8
<1>. QED
  BY <1>3, <1>5, <1>6, <1>8, <1>9 DEF at, places

LEMMA AllSound ==
    ASSUME NEW entry, entry.text \in Seq(Word), NEW asked, NEW quote \in Seq(Word),
           NEW hits, hits = Hits(entry, asked), NEW f, f[0] = Nothing,
           \A k \in 1 .. Len(hits) : f[k] = Turn(quote, f[k - 1], hits[k])
    PROVE  \A k \in 0 .. Len(hits) : Sound(entry.text, quote, f[k])
<1>. DEFINE P == {k \in Nat : k <= Len(hits) => Sound(entry.text, quote, f[k])}
<1>1. Len(hits) \in Nat /\ \A k \in 1 .. Len(hits) : IsHit(entry.text, hits[k])
  <2>. DEFINE at == HitPlaces(entry, asked)
  <2>1. /\ Len(hits) \in Nat /\ Len(at) = Len(hits)
        /\ at \in Seq(Places(entry.text, asked))
        /\ \A k \in 1 .. Len(hits) : hits[k] = [pos |-> at[k], word |-> entry.text[at[k]]]
    BY HitsRight
  <2>. HIDE DEF at
  <2>2. ASSUME NEW k \in 1 .. Len(hits) PROVE at[k] \in 1 .. Len(entry.text)
    <3>1. at[k] \in Places(entry.text, asked)
      BY <2>1
    <3>. QED
      BY <3>1 DEF Places
  <2>. QED
    BY <2>1, <2>2 DEF IsHit
<1>2. 0 \in P
  <2>1. Len(quote) \in Nat
    OBVIOUS
  <2>2. f[0] = [state |-> 0, prev |-> -1, ok |-> FALSE]
    BY DEF Nothing
  <2>3. Sound(entry.text, quote, f[0])
    BY <2>1, <2>2 DEF Sound
  <2>. QED
    BY <2>3
<1>3. ASSUME NEW k \in Nat, k \in P PROVE k + 1 \in P
  <2>1. SUFFICES ASSUME k + 1 <= Len(hits) PROVE Sound(entry.text, quote, f[k + 1])
    OBVIOUS
  <2>2. k <= Len(hits) /\ k + 1 \in 1 .. Len(hits) /\ k + 1 - 1 = k
    BY <1>1, <2>1
  <2>3. Sound(entry.text, quote, f[k])
    BY <1>3, <2>2
  <2>4. f[k + 1] = Turn(quote, f[k + 1 - 1], hits[k + 1]) /\ IsHit(entry.text, hits[k + 1])
    BY <1>1, <2>2
  <2>. QED
    BY <2>2, <2>3, <2>4, TurnSound
<1>4. \A k \in Nat : k \in P
  <2>. HIDE DEF P
  <2>. QED
    BY <1>2, <1>3, Upwards
<1>. QED
  BY <1>1, <1>4

(* A quote that matches is in the document.                                 *)
LEMMA MatchIsPhrase ==
    ASSUME NEW entry, entry.text \in Seq(Word), NEW asked, NEW quote \in Seq(Word),
           QuoteMatches(quote, Hits(entry, asked))
    PROVE  HasPhrase(entry.text, quote)
<1>. DEFINE content == entry.text
            n == Len(quote)
<1>1. PICK hits : hits = Hits(entry, asked)
  OBVIOUS
<1>2. Len(hits) \in Nat
  BY <1>1, HitsRight
<1>3. PICK f : /\ Turns(quote, hits) = f
               /\ f[0] = Nothing
               /\ \A k \in 1 .. Len(hits) : f[k] = Turn(quote, f[k - 1], hits[k])
  BY <1>2, TurnsDefined
<1>4. PICK m : m = f[Len(hits)]
  OBVIOUS
<1>5. Sound(content, quote, m)
  <2>1. \A k \in 0 .. Len(hits) : Sound(content, quote, f[k])
    BY <1>1, <1>3, AllSound
  <2>. QED
    BY <1>2, <1>4, <2>1
<1>6. m.ok
  BY <1>1, <1>3, <1>4 DEF QuoteMatches
<1>7. PICK pv : pv = m.prev
  OBVIOUS
<1>8. n \in Nat /\ Len(content) \in Nat
  OBVIOUS
<1>9. n > 0 => /\ pv \in 1 .. Len(content) /\ n <= pv
               /\ \A j \in 1 .. n : content[pv - n + j] = quote[j]
  BY <1>5, <1>6, <1>7 DEF Sound
<1>10. CASE n = 0
  <2>1. SubSeq(content, 0 + 1, 0 + n) = quote
    BY <1>10
  <2>2. 0 \in 0 .. Len(content) - n
    BY <1>8, <1>10
  <2>. QED
    BY <2>1, <2>2 DEF HasPhrase
<1>11. CASE n > 0
  <2>. DEFINE i == pv - n
  <2>1. i \in 0 .. Len(content) - n
    BY <1>8, <1>9, <1>11
  <2>2. \A j \in 1 .. n : content[i + j] = quote[j]
    BY <1>9, <1>11
  <2>. HIDE DEF i, n
  <2>3. SubSeq(content, i + 1, i + n) = [j \in 1 .. i + n - (i + 1) + 1 |-> content[j + (i + 1) - 1]]
    BY <1>8, <2>1
  <2>4. i + n - (i + 1) + 1 = n /\ \A j \in 1 .. n : j + (i + 1) - 1 = i + j
    BY <1>8, <2>1
  <2>5. SubSeq(content, i + 1, i + n) = [j \in 1 .. n |-> quote[j]]
    BY <2>2, <2>3, <2>4
  <2>6. quote = [j \in 1 .. n |-> quote[j]]
    BY DEF n
  <2>. QED
    BY <2>1, <2>5, <2>6 DEF HasPhrase, n
<1>. QED
  BY <1>8, <1>10, <1>11

(* A word that is the first of the quote begins it anew: the words of the   *)
(* quote differ, so that this is not the word waited for.                   *)
LEMMA TurnBegins ==
    ASSUME NEW content \in Seq(Word), NEW quote \in Seq(Word), IsInjective(quote),
           Len(quote) > 0, NEW m, Sound(content, quote, m), ~m.ok,
           NEW p, NEW w, w = quote[1]
    PROVE  LET t == Turn(quote, m, [pos |-> p, word |-> w])
           IN  t.ok \/ (t.state = 1 /\ t.prev = p)
<1>. DEFINE n == Len(quote)
            hit == [pos |-> p, word |-> w]
<1>1. n \in Nat /\ DOMAIN quote = 1 .. n
  OBVIOUS
<1>2. hit.pos = p /\ hit.word = w
  OBVIOUS
<1>3. PICK st \in 0 .. n, pv \in Int : m = [state |-> st, prev |-> pv, ok |-> FALSE]
  BY DEF Sound
<1>4. m.state = st /\ m.prev = pv /\ st < n /\ (st = 0 => pv = -1)
  BY <1>3 DEF Sound
<1>. HIDE DEF hit, n
<1>5. st # Len(quote)
  <2>1. st # n
    BY <1>1, <1>4
  <2>. QED
    BY <2>1 DEF n
<1>6. Advance(quote, m, hit) = [state |-> 1, prev |-> p, ok |-> FALSE]
  <2>1. CASE st = 0
    <3>1. GoesOn(quote, m, hit)
      BY <1>2, <1>4, <2>1 DEF GoesOn
    <3>2. Advance(quote, m, hit) = [m EXCEPT !.state = 0 + 1, !.prev = p]
      BY <1>2, <1>4, <1>5, <2>1, <3>1 DEF Advance
    <3>3. 0 + 1 = 1
      OBVIOUS
    <3>4. Advance(quote, m, hit) = [m EXCEPT !.state = 1, !.prev = p]
      BY <3>2, <3>3
    <3>. QED
      BY <1>3, <3>4
  <2>2. CASE st # 0
    <3>1. st + 1 \in DOMAIN quote /\ 1 \in DOMAIN quote /\ st + 1 # 1
      BY <1>1, <1>4, <2>2
    <3>2. quote[st + 1] # quote[1]
      BY <3>1 DEF IsInjective
    <3>3. ~GoesOn(quote, m, hit) /\ Begins(quote, m, hit)
      BY <1>2, <1>4, <3>2 DEF GoesOn, Begins
    <3>4. Advance(quote, m, hit) = [Nothing EXCEPT !.state = 1, !.prev = p]
      BY <1>2, <1>4, <1>5, <3>3 DEF Advance
    <3>. QED
      BY <3>4 DEF Nothing
  <2>. QED
    BY <2>1, <2>2
<1>7. PICK b \in BOOLEAN : b = (1 = Len(quote))
  OBVIOUS
<1>8. PICK next : next = Advance(quote, m, hit)
  OBVIOUS
<1>9. Turn(quote, m, hit) = [next EXCEPT !.ok = b]
  <2>1. Turn(quote, m, hit) = [next EXCEPT !.ok = next.state = Len(quote)]
    BY <1>8 DEF Turn
  <2>2. next.state = 1
    BY <1>6, <1>8
  <2>. QED
    BY <1>7, <2>1, <2>2
<1>10. Turn(quote, m, hit) = [state |-> 1, prev |-> p, ok |-> b]
  BY <1>6, <1>8, <1>9
<1>. QED
  BY <1>10 DEF hit

(* The word waited for, right behind the last, goes on with the quote.      *)
LEMMA TurnGoesOn ==
    ASSUME NEW content \in Seq(Word), NEW quote \in Seq(Word),
           Len(quote) > 0, NEW m, Sound(content, quote, m), ~m.ok,
           NEW p, NEW w, w = quote[m.state + 1], p = m.prev + 1
    PROVE  LET t == Turn(quote, m, [pos |-> p, word |-> w])
           IN  t.ok \/ (t.state = m.state + 1 /\ t.prev = p)
<1>. DEFINE n == Len(quote)
            hit == [pos |-> p, word |-> w]
<1>1. n \in Nat
  OBVIOUS
<1>2. hit.pos = p /\ hit.word = w
  OBVIOUS
<1>3. PICK st \in 0 .. n, pv \in Int : m = [state |-> st, prev |-> pv, ok |-> FALSE]
  BY DEF Sound
<1>4. m.state = st /\ m.prev = pv /\ st < n
  BY <1>3 DEF Sound
<1>. HIDE DEF hit
<1>5. st # Len(quote)
  BY <1>1, <1>4
<1>6. Advance(quote, m, hit) = [state |-> st + 1, prev |-> p, ok |-> FALSE]
  <2>1. GoesOn(quote, m, hit)
    BY <1>2, <1>4 DEF GoesOn
  <2>2. Advance(quote, m, hit) = [m EXCEPT !.state = st + 1, !.prev = p]
    BY <1>2, <1>4, <1>5, <2>1 DEF Advance
  <2>. QED
    BY <1>3, <2>2
<1>7. PICK b \in BOOLEAN : b = (st + 1 = Len(quote))
  OBVIOUS
<1>8. PICK next : next = Advance(quote, m, hit)
  OBVIOUS
<1>9. Turn(quote, m, hit) = [next EXCEPT !.ok = b]
  <2>1. Turn(quote, m, hit) = [next EXCEPT !.ok = next.state = Len(quote)]
    BY <1>8 DEF Turn
  <2>2. next.state = st + 1
    BY <1>6, <1>8
  <2>. QED
    BY <1>7, <2>1, <2>2
<1>10. Turn(quote, m, hit) = [state |-> st + 1, prev |-> p, ok |-> b]
  BY <1>6, <1>8, <1>9
<1>. QED
  BY <1>4, <1>10 DEF hit

(* A quote that has matched stays so.                                       *)
LEMMA OkStays ==
    ASSUME NEW quote, NEW hits, Len(hits) \in Nat, NEW f,
           \A k \in 1 .. Len(hits) : f[k] = Turn(quote, f[k - 1], hits[k]),
           NEW k \in 0 .. Len(hits), f[k].ok
    PROVE  f[Len(hits)].ok
<1>. DEFINE P == {d \in Nat : k + d <= Len(hits) => f[k + d].ok}
<1>1. 0 \in P
  BY k + 0 = k
<1>2. ASSUME NEW d \in Nat, d \in P PROVE d + 1 \in P
  <2>1. SUFFICES ASSUME k + (d + 1) <= Len(hits) PROVE f[k + (d + 1)].ok
    OBVIOUS
  <2>2. k + d <= Len(hits) /\ k + (d + 1) \in 1 .. Len(hits) /\ k + (d + 1) - 1 = k + d
    BY <2>1
  <2>3. f[k + d].ok
    BY <1>2, <2>2
  <2>4. f[k + (d + 1)] = Turn(quote, f[k + (d + 1) - 1], hits[k + (d + 1)])
    BY <2>2
  <2>. QED
    BY <2>2, <2>3, <2>4 DEF Turn
<1>3. Len(hits) - k \in Nat /\ k + (Len(hits) - k) = Len(hits)
  OBVIOUS
<1>4. Len(hits) - k \in P
  <2>1. \A d \in Nat : d \in P
    <3>. HIDE DEF P
    <3>. QED
      BY <1>1, <1>2, Upwards
  <2>. QED
    BY <1>3, <2>1
<1>. QED
  BY <1>3, <1>4

(* A quote of different words that is in the document matches.              *)
LEMMA PhraseIsMatched ==
    ASSUME NEW entry, entry.text \in Seq(Word), NEW asked,
           NEW quote \in Seq(Word), IsInjective(quote), Range(quote) \subseteq asked,
           HasPhrase(entry.text, quote), Hits(entry, asked) # << >>
    PROVE  QuoteMatches(quote, Hits(entry, asked))
<1>. DEFINE content == entry.text
            at == HitPlaces(entry, asked)
            places == Places(content, asked)
            n == Len(quote)
<1>1. PICK hits : hits = Hits(entry, asked)
  OBVIOUS
<1>2. /\ Len(hits) \in Nat /\ Len(at) = Len(hits)
      /\ at \in Seq(places) /\ Range(at) = places /\ Ascending(at)
      /\ \A k \in 1 .. Len(hits) : hits[k] = [pos |-> at[k], word |-> content[at[k]]]
  BY <1>1, HitsRight
<1>3. PICK f : /\ Turns(quote, hits) = f
               /\ f[0] = Nothing
               /\ \A k \in 1 .. Len(hits) : f[k] = Turn(quote, f[k - 1], hits[k])
  BY <1>2, TurnsDefined
<1>4. \A k \in 0 .. Len(hits) : Sound(content, quote, f[k])
  BY <1>1, <1>3, AllSound
<1>5. SUFFICES \E k \in 0 .. Len(hits) : f[k].ok
  <2>1. f[Len(hits)].ok
    BY <1>2, <1>3, <1>5, OkStays
  <2>. QED
    BY <1>1, <1>3, <2>1 DEF QuoteMatches
<1>6. n \in Nat /\ Len(content) \in Nat /\ DOMAIN quote = 1 .. n /\ DOMAIN content = 1 .. Len(content)
  OBVIOUS
<1>7. places \in SUBSET Nat /\ DOMAIN at = 1 .. Len(hits) /\ \A k \in DOMAIN at : at[k] \in places
  <2>1. places \in SUBSET Nat
    BY <1>6 DEF Places
  <2>. HIDE DEF at, places
  <2>. QED
    BY <1>2, <2>1
<1>8. CASE n = 0
  <2>1. Len(hits) > 0
    <3>1. hits = Hits(entry, asked) /\ hits # << >>
      BY <1>1
    <3>2. hits = [k \in DOMAIN at |-> [pos |-> at[k], word |-> content[at[k]]]]
      BY <1>1 DEF Hits, HitPlaces
    <3>3. Len(hits) # 0
      <4>1. CASE Len(hits) = 0
        <5>1. DOMAIN at = {}
          BY <1>7, <4>1
        <5>. HIDE DEF at
        <5>. QED
          BY <3>1, <3>2, <5>1
      <4>. QED
        BY <4>1
    <3>. QED
      BY <1>2, <3>3
  <2>2. f[1] = Turn(quote, Nothing, hits[1])
    <3>1. 1 \in 1 .. Len(hits) /\ 1 - 1 = 0
      BY <1>2, <2>1
    <3>. QED
      BY <1>3, <3>1
  <2>3. Advance(quote, Nothing, hits[1]) = Nothing
    BY <1>8 DEF Advance, Nothing
  <2>4. f[1].ok
    <3>1. ~Nothing.ok /\ Nothing.state = 0
      BY DEF Nothing
    <3>2. f[1] = [Nothing EXCEPT !.ok = Nothing.state = Len(quote)]
      BY <2>2, <2>3, <3>1 DEF Turn
    <3>3. PICK b \in BOOLEAN : b = (Nothing.state = Len(quote))
      OBVIOUS
    <3>4. b
      BY <1>8, <3>1, <3>3
    <3>5. f[1] = [Nothing EXCEPT !.ok = b]
      BY <3>2, <3>3
    <3>. QED
      BY <3>4, <3>5 DEF Nothing
  <2>. QED
    BY <1>2, <2>1, <2>4
<1>9. CASE n > 0
  <2>1. PICK i \in 0 .. Len(content) - n : SubSeq(content, i + 1, i + n) = quote
    BY DEF HasPhrase
  <2>2. \A j \in 1 .. n : i + j \in 1 .. Len(content) /\ content[i + j] = quote[j]
    <3>1. SubSeq(content, i + 1, i + n) = [j \in 1 .. i + n - (i + 1) + 1 |-> content[j + (i + 1) - 1]]
      BY <1>6, <2>1
    <3>2. i + n - (i + 1) + 1 = n /\ \A j \in 1 .. n : j + (i + 1) - 1 = i + j
      BY <1>6, <2>1
    <3>3. quote = [j \in 1 .. n |-> content[i + j]]
      BY <2>1, <3>1, <3>2
    <3>4. \A j \in 1 .. n : i + j \in 1 .. Len(content)
      BY <1>6, <2>1
    <3>. QED
      BY <3>3, <3>4
  <2>3. \A j \in 1 .. n : i + j \in places
    <3>1. TAKE j \in 1 .. n
    <3>2. quote[j] \in asked
      BY <1>6 DEF Range
    <3>. QED
      BY <1>6, <2>2, <3>2 DEF Places
  <2>. DEFINE Reached(j, k) == /\ at[k] = i + j
                               /\ f[k].ok \/ (f[k].state = j /\ f[k].prev = i + j)
              P == {j \in Nat : j + 1 <= n => \E k \in 1 .. Len(hits) : Reached(j + 1, k)}
  <2>. HIDE DEF at, places, n
  <2>4. 0 \in P
    <3>1. 1 \in 1 .. n /\ 0 + 1 = 1
      BY <1>6, <1>9
    <3>2. PICK k \in 1 .. Len(hits) : at[k] = i + 1
      BY <1>2, <1>7, <2>3, <3>1 DEF Range
    <3>3. k - 1 \in 0 .. Len(hits)
      BY <1>2
    <3>4. f[k] = Turn(quote, f[k - 1], [pos |-> i + 1, word |-> quote[1]])
      BY <1>2, <1>3, <2>2, <3>1, <3>2
    <3>5. CASE f[k - 1].ok
      BY <3>1, <3>2, <3>4, <3>5 DEF Turn
    <3>6. CASE ~f[k - 1].ok
      <4>1. Sound(content, quote, f[k - 1])
        BY <1>4, <3>3
      <4>2. f[k].ok \/ (f[k].state = 1 /\ f[k].prev = i + 1)
        BY <1>9, <3>4, <3>6, <4>1, TurnBegins DEF n
      <4>3. Reached(0 + 1, k)
        BY <3>1, <3>2, <4>2
      <4>. QED
        BY <4>3
    <3>. QED
      BY <3>5, <3>6
  <2>5. ASSUME NEW j \in Nat, j \in P PROVE j + 1 \in P
    <3>1. SUFFICES ASSUME j + 1 + 1 <= n
                   PROVE  \E k \in 1 .. Len(hits) : Reached(j + 1 + 1, k)
      OBVIOUS
    <3>2. j + 1 <= n /\ j + 1 + 1 \in 1 .. n /\ j + 1 + 1 = j + 2
      BY <1>6, <3>1
    <3>3. PICK k \in 1 .. Len(hits) : Reached(j + 1, k)
      BY <2>5, <3>2
    <3>4. at[k] + 1 \in places /\ at[k] + 1 = i + (j + 2) /\ i + (j + 2) = i + (j + 1) + 1
      BY <2>3, <3>2, <3>3
    <3>5. k + 1 \in 1 .. Len(hits) /\ at[k + 1] = i + (j + 2)
      BY <1>2, <1>7, <3>4, Neighbours
    <3>6. k + 1 - 1 = k /\ k \in 0 .. Len(hits)
      OBVIOUS
    <3>7. f[k + 1] = Turn(quote, f[k], [pos |-> i + (j + 2), word |-> quote[j + 2]])
      <4>1. f[k + 1] = Turn(quote, f[k + 1 - 1], hits[k + 1])
        BY <1>3, <3>5
      <4>2. hits[k + 1] = [pos |-> i + (j + 2), word |-> content[i + (j + 2)]]
        BY <1>2, <3>5
      <4>3. content[i + (j + 2)] = quote[j + 2]
        BY <2>2, <3>2
      <4>. QED
        BY <3>6, <4>1, <4>2, <4>3
    <3>8. CASE f[k].ok
      <4>1. f[k + 1].ok
        BY <3>7, <3>8 DEF Turn
      <4>. QED
        BY <3>2, <3>5, <4>1
    <3>9. CASE ~f[k].ok
      <4>1. Sound(content, quote, f[k])
        BY <1>4, <3>6
      <4>2. f[k].state = j + 1 /\ f[k].prev = i + (j + 1)
        BY <3>3, <3>9
      <4>3. quote[j + 2] = quote[f[k].state + 1] /\ i + (j + 2) = f[k].prev + 1 /\ f[k].state + 1 = j + 2
        BY <3>2, <3>4, <4>2
      <4>4. f[k + 1].ok \/ (f[k + 1].state = j + 2 /\ f[k + 1].prev = i + (j + 2))
        BY <1>9, <3>7, <3>9, <4>1, <4>3, TurnGoesOn DEF n
      <4>5. Reached(j + 1 + 1, k + 1)
        BY <3>2, <3>5, <4>4
      <4>. QED
        BY <3>5, <4>5
    <3>. QED
      BY <3>8, <3>9
  <2>6. \A j \in Nat : j \in P
    <3>. HIDE DEF P
    <3>. QED
      BY <2>4, <2>5, Upwards
  <2>7. n - 1 \in Nat /\ n - 1 + 1 = n
    BY <1>6, <1>9
  <2>8. PICK k \in 1 .. Len(hits) : Reached(n, k)
    <3>1. n - 1 \in P
      BY <2>6, <2>7
    <3>2. \E k \in 1 .. Len(hits) : Reached(n - 1 + 1, k)
      BY <1>6, <2>7, <3>1
    <3>. QED
      BY <2>7, <3>2
  <2>9. f[k].ok
    <3>1. Sound(content, quote, f[k])
      BY <1>4
    <3>2. f[k].ok \/ f[k].state = n
      BY <2>8
    <3>. QED
      BY <1>6, <1>9, <3>1, <3>2 DEF Sound, n
  <2>. QED
    BY <2>9
<1>. QED
  BY <1>6, <1>8, <1>9

-----------------------------------------------------------------------------
LEMMA InsidesRight ==
    ASSUME NEW text \in Seq(Word \cup {Mark}), QuotesDistinct(text),
           NEW inside \in Insides(text)
    PROVE  /\ inside \in Seq(Word) /\ IsInjective(inside) /\ Tokens(inside) = inside
           /\ Range(inside) \subseteq AskedTokens(text)
<1>1. PICK q \in Range(Quotes(text)) : inside = Inside(text, q)
  BY DEF Insides
<1>2. inside \in Seq(Word)
  BY <1>1, QuotesRight, InsideRight
<1>3. IsInjective(inside)
  BY DEF QuotesDistinct
<1>4. Tokens(inside) = inside
  BY <1>2, <1>3, TokensPhrase
<1>5. Range(Tokens(inside)) \subseteq AskedTokens(text)
  BY DEF AskedTokens
<1>. QED
  BY <1>2, <1>3, <1>4, <1>5

(* A document that matches has every quote word for word.                   *)
LEMMA QuotesFound ==
    ASSUME NEW text \in Seq(Word \cup {Mark}), QuotesDistinct(text),
           NEW entry, entry.text \in Seq(Word), Matches(text, entry)
    PROVE  HasQuotes(text, entry.text)
<1>. SUFFICES ASSUME NEW inside \in Insides(text)
              PROVE  HasPhrase(entry.text, inside)
  BY DEF HasQuotes
<1>1. inside \in Seq(Word) /\ Tokens(inside) = inside
  BY InsidesRight
<1>2. QuoteMatches(Tokens(inside), Hits(entry, AskedTokens(text)))
  BY DEF Matches
<1>. QED
  BY <1>1, <1>2, MatchIsPhrase

(* What is left of a text with one quote at most.                           *)
LEMMA LeftRight ==
    ASSUME NEW text \in Seq(Word \cup {Mark})
    PROVE  /\ Len(Quotes(text)) = 0 => Left(text)[0] = text
           /\ Len(Quotes(text)) = 1 => Left(text)[1] = Cut(text, Quotes(text)[1])
<1>. DEFINE quotes == Quotes(text)
            Is(n, f) == f = [k \in 0 .. n |->
                               IF k = 0 THEN text ELSE Cut(f[k - 1], quotes[k])]
<1>1. Left(text) = CHOOSE g : Is(Len(quotes), g)
  BY DEF Left
<1>2. PICK h : h = Left(text)
  OBVIOUS
<1>3. ASSUME Len(quotes) = 0 PROVE h[0] = text
  <2>1. Is(0, [k \in 0 .. 0 |-> text])
    OBVIOUS
  <2>2. Is(0, h)
    <3>. HIDE DEF Is
    <3>. QED
      BY <1>1, <1>2, <1>3, <2>1
  <2>. QED
    BY <2>2
<1>4. ASSUME Len(quotes) = 1 PROVE h[1] = Cut(text, quotes[1])
  <2>. DEFINE g == [k \in 0 .. 1 |-> IF k = 0 THEN text ELSE Cut(text, quotes[1])]
  <2>1. \A k \in 0 .. 1 : g[k] = IF k = 0 THEN text ELSE Cut(g[k - 1], quotes[k])
    <3>1. g[0] = text /\ g[1] = Cut(text, quotes[1])
      OBVIOUS
    <3>2. 1 - 1 = 0 /\ \A k \in 0 .. 1 : k = 0 \/ k = 1
      OBVIOUS
    <3>. HIDE DEF g, quotes
    <3>. QED
      BY <3>1, <3>2
  <2>2. g = [k \in 0 .. 1 |-> g[k]]
    OBVIOUS
  <2>3. Is(1, g)
    <3>. HIDE DEF g, quotes
    <3>. QED
      BY <2>1, <2>2
  <2>4. Is(1, h)
    <3>. HIDE DEF Is, g
    <3>. QED
      BY <1>1, <1>2, <1>4, <2>3
  <2>5. \A k \in 0 .. 1 : h[k] = IF k = 0 THEN text ELSE Cut(h[k - 1], quotes[k])
    BY <2>4
  <2>6. h[0] = text
    BY <2>5
  <2>7. h[1] = Cut(h[1 - 1], quotes[1])
    BY <2>5
  <2>. QED
    BY <2>6, <2>7
<1>. QED
  BY <1>2, <1>3, <1>4

(* Taking out a quote leaves the words outside of it.                       *)
LEMMA CutRight ==
    ASSUME NEW text \in Seq(Word \cup {Mark}), NEW q, IsQuote(text, q)
    PROVE  Range(Tokens(Cut(text, q))) =
               {text[i] : i \in {j \in DOMAIN text :
                                   text[j] \in Word /\ ~(q.from < j /\ j < q.to)}}
<1>1. PICK from, to : from = q.from /\ to = q.to
  OBVIOUS
<1>2. PICK n : n = Len(text) /\ n \in Nat /\ DOMAIN text = 1 .. n
  OBVIOUS
<1>3. from \in 1 .. n /\ to \in 1 .. n /\ from < to /\ text[from] = Mark
  BY <1>1, <1>2 DEF IsQuote
<1>. DEFINE head == SubSeq(text, 1, from)
            tail == SubSeq(text, to, n)
            part == head \o tail
            m == from + (n - to + 1)
            back(i) == IF i <= from THEN i ELSE i - from + to - 1
<1>4. head = [i \in 1 .. from |-> text[i]]
  <2>1. head = [i \in 1 .. from - 1 + 1 |-> text[i + 1 - 1]]
    BY <1>2, <1>3
  <2>2. from - 1 + 1 = from /\ \A i \in 1 .. from : i + 1 - 1 = i
    BY <1>3
  <2>. QED
    BY <2>1, <2>2
<1>5. tail = [i \in 1 .. n - to + 1 |-> text[i + to - 1]]
  BY <1>2, <1>3
<1>6. \A i \in 1 .. n : text[i] \in Word \cup {Mark}
  BY <1>2
<1>7. head \in Seq(Word \cup {Mark}) /\ Len(head) = from
  <2>1. \A i \in 1 .. from : text[i] \in Word \cup {Mark}
    BY <1>2, <1>3, <1>6
  <2>2. from \in Nat
    BY <1>3
  <2>. HIDE DEF head
  <2>. QED
    BY <1>4, <2>1, <2>2
<1>8. tail \in Seq(Word \cup {Mark}) /\ Len(tail) = n - to + 1
  <2>1. \A i \in 1 .. n - to + 1 : text[i + to - 1] \in Word \cup {Mark}
    BY <1>2, <1>3, <1>6
  <2>2. n - to + 1 \in Nat
    BY <1>2, <1>3
  <2>. HIDE DEF tail
  <2>. QED
    BY <1>5, <2>1, <2>2
<1>9. Cut(text, q) = part
  <2>1. ~(from > n)
    BY <1>2, <1>3
  <2>2. Cut(text, q) = IF from > n THEN text ELSE SubSeq(text, 1, from) \o SubSeq(text, to, n)
    BY <1>1, <1>2, Zenon DEF Cut
  <2>. QED
    BY <2>1, <2>2
<1>. HIDE DEF head, tail
<1>10. part \in Seq(Word \cup {Mark}) /\ Len(part) = m
  BY <1>7, <1>8
<1>11. m \in Nat /\ \A i \in 1 .. m : back(i) \in 1 .. n
  BY <1>2, <1>3
<1>12. ASSUME NEW i \in 1 .. m PROVE part[i] = text[back(i)]
  <2>1. CASE i <= from
    <3>1. part[i] = head[i]
      BY <1>3, <1>7, <1>8, <2>1
    <3>. QED
      BY <1>3, <1>4, <2>1, <3>1
  <2>2. CASE i > from
    <3>1. part[i] = tail[i - from]
      BY <1>2, <1>3, <1>7, <1>8, <2>2
    <3>2. i - from \in 1 .. n - to + 1 /\ i - from + to - 1 = back(i)
      BY <1>2, <1>3, <2>2
    <3>. HIDE DEF back
    <3>. QED
      BY <1>5, <3>1, <3>2
  <2>3. i <= from \/ i > from
    BY <1>2, <1>3
  <2>. QED
    BY <2>1, <2>2, <2>3
<1>. DEFINE Out == {j \in DOMAIN text : text[j] \in Word /\ ~(q.from < j /\ j < q.to)}
<1>13. DOMAIN part = 1 .. m
  BY <1>10
<1>. HIDE DEF part
<1>14. ASSUME NEW i \in Places(part, Word) PROVE \E j \in Out : text[j] = part[i]
  <2>1. i \in 1 .. m /\ part[i] \in Word
    BY <1>13 DEF Places
  <2>2. back(i) \in 1 .. n /\ text[back(i)] = part[i]
    BY <1>11, <1>12, <2>1
  <2>3. ~(from < back(i) /\ back(i) < to)
    BY <1>2, <1>3, <2>1
  <2>. HIDE DEF back
  <2>. QED
    BY <1>1, <1>2, <2>1, <2>2, <2>3
<1>15. ASSUME NEW j \in Out PROVE \E i \in Places(part, Word) : text[j] = part[i]
  <2>1. j \in 1 .. n /\ text[j] \in Word /\ ~(from < j /\ j < to)
    BY <1>1, <1>2
  <2>2. PICK i \in 1 .. m : back(i) = j
    <3>1. CASE j <= from
      <4>1. j \in 1 .. m /\ back(j) = j
        BY <1>2, <1>3, <2>1, <3>1
      <4>. QED
        BY <4>1
    <3>2. CASE j > from
      <4>1. j >= to
        BY <1>2, <1>3, <2>1, <3>2
      <4>2. j - to + 1 + from \in 1 .. m /\ back(j - to + 1 + from) = j
        BY <1>2, <1>3, <2>1, <4>1
      <4>. QED
        BY <4>2
    <3>. QED
      BY <1>2, <1>3, <2>1, <3>1, <3>2
  <2>4. part[i] = text[j]
    BY <1>12, <2>2
  <2>. QED
    BY <1>13, <2>1, <2>4 DEF Places
<1>16. {part[i] : i \in Places(part, Word)} = {text[j] : j \in Out}
  <2>. HIDE DEF Out
  <2>. QED
    BY <1>14, <1>15
<1>17. Range(Tokens(part)) = {part[i] : i \in Places(part, Word)}
  BY <1>10, TokensWords
<1>. QED
  BY <1>9, <1>16, <1>17

(* A plain query asks for the words outside of its quote and in it.         *)
OutsideWords(text) == {text[i] : i \in Outside(text)}

LEMMA AskedRight ==
    ASSUME NEW text \in Seq(Word \cup {Mark}), Plain(text)
    PROVE  AskedTokens(text) = OutsideWords(text) \cup UNION {Range(inside) : inside \in Insides(text)}
<1>. DEFINE rest == Left(text)[Len(Quotes(text))]
<1>1. QuotesDistinct(text) /\ Len(Quotes(text)) <= 1
  BY DEF Plain
<1>2. Range(Tokens(rest)) = OutsideWords(text)
  <2>1. CASE Len(Quotes(text)) = 0
    <3>1. rest = text
      BY <2>1, LeftRight
    <3>2. Range(Quotes(text)) = {}
      BY <2>1, QuotesRight
    <3>3. Outside(text) = Places(text, Word)
      BY <3>2 DEF Outside, Places
    <3>4. Range(Tokens(text)) = {text[i] : i \in Places(text, Word)}
      BY TokensWords
    <3>. HIDE DEF rest
    <3>. QED
      BY <3>1, <3>3, <3>4 DEF OutsideWords
  <2>2. CASE Len(Quotes(text)) = 1
    <3>1. PICK q : q = Quotes(text)[1]
      OBVIOUS
    <3>2. rest = Cut(text, q)
      BY <2>2, <3>1, LeftRight
    <3>3. Range(Quotes(text)) = {q}
      BY <2>2, <3>1, QuotesRight
    <3>4. IsQuote(text, q)
      BY <3>3, QuotesRight
    <3>5. Outside(text) = {j \in DOMAIN text : text[j] \in Word /\ ~(q.from < j /\ j < q.to)}
      BY <3>3 DEF Outside
    <3>6. Range(Tokens(Cut(text, q))) =
             {text[i] : i \in {j \in DOMAIN text :
                                 text[j] \in Word /\ ~(q.from < j /\ j < q.to)}}
      BY <3>4, CutRight
    <3>. HIDE DEF rest
    <3>. QED
      BY <3>2, <3>5, <3>6 DEF OutsideWords
  <2>3. Len(Quotes(text)) \in Nat
    BY QuotesRight
  <2>4. Len(Quotes(text)) = 0 \/ Len(Quotes(text)) = 1
    <3>1. PICK n : n = Len(Quotes(text))
      OBVIOUS
    <3>2. n \in Nat /\ n <= 1
      BY <1>1, <2>3, <3>1, Zenon
    <3>. HIDE DEF rest
    <3>3. n = 0 \/ n = 1
      BY <3>2
    <3>. QED
      BY <3>1, <3>3, Zenon
  <2>. HIDE DEF rest
  <2>. QED
    BY <2>1, <2>2, <2>4, Zenon
<1>3. \A inside \in Insides(text) : Tokens(inside) = inside
  BY <1>1, InsidesRight
<1>4. AskedTokens(text) = UNION {Range(Tokens(part)) : part \in {rest} \cup Insides(text)}
  BY DEF AskedTokens
<1>. HIDE DEF rest
<1>. QED
  BY <1>2, <1>3, <1>4

(* A document that has what a plain query asks for has all words of it.     *)
LEMMA AnswersAsked ==
    ASSUME NEW text \in Seq(Word \cup {Mark}), Plain(text),
           NEW content \in Seq(Word), Answers(text, content)
    PROVE  AskedTokens(text) \subseteq Range(content)
<1>1. OutsideWords(text) \subseteq Range(content)
  BY DEF Answers, OutsideWords
<1>2. ASSUME NEW inside \in Insides(text) PROVE Range(inside) \subseteq Range(content)
  <2>1. inside \in Seq(Word)
    BY InsidesRight DEF Plain
  <2>2. PICK i \in 0 .. Len(content) - Len(inside) :
             SubSeq(content, i + 1, i + Len(inside)) = inside
    BY DEF Answers, HasQuotes, HasPhrase
  <2>3. PICK n : n = Len(inside) /\ n \in Nat /\ DOMAIN inside = 1 .. n
    BY <2>1
  <2>4. Len(content) \in Nat /\ DOMAIN content = 1 .. Len(content)
    OBVIOUS
  <2>5. ASSUME NEW j \in 1 .. n
        PROVE  inside[j] = content[i + j] /\ i + j \in DOMAIN content
    <3>1. SubSeq(content, i + 1, i + n) = [k \in 1 .. i + n - (i + 1) + 1 |-> content[k + (i + 1) - 1]]
      BY <2>2, <2>3, <2>4
    <3>2. i + n - (i + 1) + 1 = n /\ \A k \in 1 .. n : k + (i + 1) - 1 = i + k
      BY <2>3, <2>4
    <3>3. inside = [k \in 1 .. n |-> content[i + k]]
      BY <2>2, <2>3, <3>1, <3>2
    <3>4. i + j \in 1 .. Len(content)
      BY <2>3, <2>4
    <3>. QED
      BY <2>4, <3>3, <3>4
  <2>. QED
    BY <2>3, <2>5 DEF Range
<1>. QED
  BY <1>1, <1>2, AskedRight

(* A plain query is matched by the documents that answer it.                *)
THEOREM MatchesRight ==
    ASSUME NEW text \in Seq(Word \cup {Mark}), Plain(text), Unpackable(text),
           AskedTokens(text) # {}, NEW entry, entry.text \in Seq(Word)
    PROVE  Matches(text, entry) <=> Answers(text, entry.text)
<1>1. QuotesDistinct(text)
  BY DEF Plain
<1>2. ASSUME Matches(text, entry) PROVE Answers(text, entry.text)
  <2>1. HasQuotes(text, entry.text)
    BY <1>1, <1>2, QuotesFound
  <2>2. AskedTokens(text) \subseteq Range(entry.text)
    BY <1>2 DEF Matches, IndexNames, Unpackable
  <2>3. OutsideWords(text) \subseteq AskedTokens(text)
    BY AskedRight
  <2>. QED
    BY <2>1, <2>2, <2>3 DEF Answers, OutsideWords
<1>3. ASSUME Answers(text, entry.text) PROVE Matches(text, entry)
  <2>1. AskedTokens(text) \subseteq Range(entry.text)
    BY <1>3, AnswersAsked
  <2>2. Hits(entry, AskedTokens(text)) # << >>
    <3>1. PICK w \in AskedTokens(text) : w \in Range(entry.text)
      BY <2>1
    <3>2. PICK p \in Places(entry.text, AskedTokens(text)) : entry.text[p] = w
      BY <3>1 DEF Places, Range
    <3>3. PICK at : /\ at = HitPlaces(entry, AskedTokens(text))
                    /\ Range(at) = Places(entry.text, AskedTokens(text))
                    /\ at \in Seq(Places(entry.text, AskedTokens(text)))
                    /\ Len(at) = Len(Hits(entry, AskedTokens(text)))
      BY HitsRight
    <3>4. DOMAIN at = 1 .. Len(at) /\ Len(at) \in Nat
      BY <3>3
    <3>5. PICK k \in 1 .. Len(at) : at[k] = p
      BY <3>2, <3>3, <3>4 DEF Range
    <3>6. Len(at) # 0
      BY <3>4, <3>5
    <3>7. Len(Hits(entry, AskedTokens(text))) # 0
      BY <3>3, <3>6
    <3>. QED
      BY <3>7
  <2>3. ASSUME NEW inside \in Insides(text)
        PROVE  QuoteMatches(Tokens(inside), Hits(entry, AskedTokens(text)))
    <3>1. /\ inside \in Seq(Word) /\ IsInjective(inside) /\ Tokens(inside) = inside
          /\ Range(inside) \subseteq AskedTokens(text)
      BY <1>1, InsidesRight
    <3>2. HasPhrase(entry.text, inside)
      BY <1>3 DEF Answers, HasQuotes
    <3>. QED
      BY <2>2, <3>1, <3>2, PhraseIsMatched
  <2>. QED
    BY <2>1, <2>3 DEF Matches, IndexNames
<1>. QED
  BY <1>2, <1>3
=============================================================================
