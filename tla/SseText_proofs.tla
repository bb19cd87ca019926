---------------------------- MODULE SseText_proofs ----------------------------
(***************************************************************************)
(* Proofs about the decoded text of a stream, for any symbols, streams and *)
(* chunks and any length of tail: no marker whose beginning the tail holds *)
(* is spread over the deltas of events that were relayed, none of whatever *)
(* length is within one event, and no stream is terminated for less than a *)
(* marker.                                                                 *)
(***************************************************************************)
EXTENDS ChatCompletion_proofs

-----------------------------------------------------------------------------
(***************************************************************************)
(* Decoded is a recursive function over a stretch of symbols.  That it is  *)
(* defined, and by its equation alone, is proved by looking at a least     *)
(* position where it would not be.                                         *)
(***************************************************************************)
TextUpTo(f, s, n) ==
  f = [i \in 0..n |-> IF i = 0 THEN <<>>
                      ELSE IF Carried(s, i) THEN Append(f[i - 1], s[i]) ELSE f[i - 1]]
SymbolsUpTo(f, s, n) == TextUpTo(f, s, n) /\ f \in [0..n -> Seq(Symbols)]

LEMMA DecodedIsText ==
  ASSUME NEW s
  PROVE  Decoded(s) = (CHOOSE f : TextUpTo(f, s, Len(s)))[Len(s)]
BY DEF Decoded, TextUpTo

LEMMA TextStep ==
  ASSUME NEW n \in Nat, NEW s, NEW f, SymbolsUpTo(f, s, n)
  PROVE  /\ f[0] = <<>> /\ f \in [0..n -> Seq(Symbols)]
         /\ \A i \in 1..n :
              f[i] = IF Carried(s, i) THEN Append(f[i - 1], s[i]) ELSE f[i - 1]
<1>1. \A i \in 0..n :
        f[i] = IF i = 0 THEN <<>>
               ELSE IF Carried(s, i) THEN Append(f[i - 1], s[i]) ELSE f[i - 1]
  BY DEF SymbolsUpTo, TextUpTo
<1>2. 0 \in 0..n /\ \A i \in 1..n : i \in 0..n /\ i # 0
  OBVIOUS
<1>3. f[0] = <<>>
  BY <1>1, <1>2
<1>4. ASSUME NEW i \in 1..n
      PROVE  f[i] = IF Carried(s, i) THEN Append(f[i - 1], s[i]) ELSE f[i - 1]
  <2>1. i \in 0..n /\ i # 0
    BY <1>2
  <2>. QED  BY <1>1, <2>1
<1>5. f \in [0..n -> Seq(Symbols)]
  BY DEF SymbolsUpTo
<1>. QED  BY <1>3, <1>4, <1>5

LEMMA TextExtends ==
  ASSUME NEW s \in Seq(Symbols), NEW n \in Nat \ {0}, n <= Len(s),
         NEW f, SymbolsUpTo(f, s, n - 1)
  PROVE  \E g : SymbolsUpTo(g, s, n)
<1>. DEFINE last == IF Carried(s, n) THEN Append(f[n - 1], s[n]) ELSE f[n - 1]
            g == [i \in 0..n |-> IF i = n THEN last ELSE f[i]]
<1>1. f \in [0..(n - 1) -> Seq(Symbols)] /\ f[n - 1] \in Seq(Symbols)
  BY DEF SymbolsUpTo
<1>2. s[n] \in Symbols
  <2>1. n \in 1..Len(s)
    BY LenProperties
  <2>. QED  BY <2>1, ElementOfSeq
<1>3. last \in Seq(Symbols)
  BY <1>1, <1>2, AppendProperties
<1>. HIDE DEF last
<1>4. g \in [0..n -> Seq(Symbols)]
  BY <1>1, <1>3
<1>5. \A i \in 0..(n - 1) :
        f[i] = IF i = 0 THEN <<>>
               ELSE IF Carried(s, i) THEN Append(f[i - 1], s[i]) ELSE f[i - 1]
  BY DEF SymbolsUpTo, TextUpTo
<1>6. \A i \in 0..n :
        g[i] = IF i = 0 THEN <<>>
               ELSE IF Carried(s, i) THEN Append(g[i - 1], s[i]) ELSE g[i - 1]
  <2>. SUFFICES ASSUME NEW i \in 0..n
                PROVE  g[i] = IF i = 0 THEN <<>>
                              ELSE IF Carried(s, i) THEN Append(g[i - 1], s[i]) ELSE g[i - 1]
    OBVIOUS
  <2>1. CASE i = n
    <3>1. g[i] = last /\ g[i - 1] = f[n - 1] /\ i # 0
      BY <2>1
    <3>. HIDE DEF g
    <3>. QED  BY <2>1, <3>1 DEF last
  <2>2. CASE i # n
    <3>1. i \in 0..(n - 1) /\ g[i] = f[i]
      BY <2>2
    <3>2. i # 0 => g[i - 1] = f[i - 1]
      BY <2>2
    <3>. HIDE DEF g
    <3>. QED  BY <1>5, <3>1, <3>2
  <2>. QED  BY <2>1, <2>2
<1>7. g = [i \in 0..n |-> g[i]]
  BY <1>4
<1>. HIDE DEF g
<1>8. TextUpTo(g, s, n)
  BY <1>6, <1>7 DEF TextUpTo
<1>. QED  BY <1>4, <1>8 DEF SymbolsUpTo

LEMMA TextExists ==
  ASSUME NEW s \in Seq(Symbols)
  PROVE  Len(s) \in Nat /\ \E f : SymbolsUpTo(f, s, Len(s))
<1>. DEFINE Has(m) == \E f : SymbolsUpTo(f, s, m)
            S == {m \in 0..Len(s) : Has(m)}
<1>1. Has(0)
  <2>. DEFINE f == [i \in 0..0 |-> <<>>]
  <2>1. <<>> \in Seq(Symbols)
    BY EmptySeq
  <2>2. SymbolsUpTo(f, s, 0)
    BY <2>1 DEF SymbolsUpTo, TextUpTo
  <2>. QED  BY <2>2
<1>2. \A m \in 1..Len(s) : Has(m - 1) => Has(m)
  BY LenProperties, TextExtends
<1>. HIDE DEF Has
<1>3. Len(s) \in Nat /\ S \in SUBSET (0..Len(s)) /\ 0 \in S
      /\ \A m \in 1..Len(s) : m - 1 \in S => m \in S
  BY <1>1, <1>2, LenProperties
<1>. HIDE DEF S
<1>4. Len(s) \in S
  <2>1. Len(s) \in 0..Len(s)
    BY <1>3
  <2>. QED  BY <1>3, <2>1, Upward
<1>. QED  BY <1>3, <1>4 DEF S, Has

\* Two such functions agree, whatever they are called.
LEMMA TextsAgree ==
  ASSUME NEW s, NEW n \in Nat, NEW f, TextUpTo(f, s, n), NEW g, TextUpTo(g, s, n)
  PROVE  \A i \in 0..n : f[i] = g[i]
<1>. DEFINE S == {i \in 0..n : f[i] = g[i]}
<1>1. S \in SUBSET (0..n) /\ 0 \in S
  BY DEF TextUpTo
<1>2. ASSUME NEW i \in 1..n, i - 1 \in S PROVE i \in S
  <2>1. i \in 0..n /\ i # 0
    OBVIOUS
  <2>2. /\ f[i] = IF Carried(s, i) THEN Append(f[i - 1], s[i]) ELSE f[i - 1]
        /\ g[i] = IF Carried(s, i) THEN Append(g[i - 1], s[i]) ELSE g[i - 1]
    BY <2>1 DEF TextUpTo
  <2>3. f[i - 1] = g[i - 1]
    BY <1>2
  <2>. QED  BY <2>1, <2>2, <2>3
<1>3. \A i \in 0..n : i \in S
  <2>. HIDE DEF S
  <2>. QED  BY <1>1, <1>2, Upward
<1>. QED  BY <1>3

LEMMA DecodedIsEnd ==
  ASSUME NEW s \in Seq(Symbols)
  PROVE  /\ Len(s) \in Nat
         /\ \E f : SymbolsUpTo(f, s, Len(s)) /\ Decoded(s) = f[Len(s)]
         /\ Decoded(s) \in Seq(Symbols)
<1>1. Len(s) \in Nat
  BY LenProperties
<1>2. PICK f : SymbolsUpTo(f, s, Len(s))
  BY TextExists
<1>. DEFINE c == CHOOSE g : TextUpTo(g, s, Len(s))
<1>3. TextUpTo(c, s, Len(s)) /\ TextUpTo(f, s, Len(s))
  BY <1>2 DEF SymbolsUpTo
<1>4. Decoded(s) = c[Len(s)]
  BY DecodedIsText
<1>. HIDE DEF c
<1>5. c[Len(s)] = f[Len(s)]
  BY <1>1, <1>3, TextsAgree
<1>6. f[Len(s)] \in Seq(Symbols)
  BY <1>1, <1>2 DEF SymbolsUpTo
<1>. QED  BY <1>1, <1>2, <1>4, <1>5, <1>6

-----------------------------------------------------------------------------
(***************************************************************************)
(* A text that ends with a newline, or is empty, shares no line with what  *)
(* follows it.  This is what makes the guard's rolling window enough: the  *)
(* text of the whole is the text of the parts, put together.               *)
(***************************************************************************)
EndsLine(u) == Len(u) > 0 => u[Len(u)] = "n"

LEMMA LinesOfFirst ==
  ASSUME NEW u \in Seq(Symbols), NEW v \in Seq(Symbols), EndsLine(u),
         NEW i \in 1..Len(u)
  PROVE  Carried(u \o v, i) <=> Carried(u, i)
<1>. DEFINE w == u \o v
<1>1. /\ Len(u) \in Nat /\ Len(v) \in Nat /\ Len(w) = Len(u) + Len(v)
      /\ \A j \in 1..Len(u) : w[j] = u[j]
  BY ConcatProperties, LenProperties
<1>. HIDE DEF w
<1>2. u[Len(u)] = "n" /\ Len(u) \in 1..Len(u) /\ w[Len(u)] = "n"
  BY <1>1 DEF EndsLine
<1>3. ASSUME NEW from \in 1..(i - 1), NEW to \in (i + 1)..Len(w), IsDataLine(w, from, to)
      PROVE  to < Len(u) /\ IsDataLine(u, from, to)
  <2>1. to < Len(u)
    <3>. SUFFICES ASSUME to >= Len(u) PROVE FALSE
      BY <1>1
    <3>1. Len(u) \in from..to
      BY <1>1
    <3>. QED  BY <1>2, <1>3, <3>1 DEF IsDataLine
  <2>2. \A j \in from..(to + 1) : j \in 1..Len(u) /\ w[j] = u[j]
    BY <1>1, <2>1
  <2>3. from # 1 => w[from - 1] = u[from - 1]
    BY <1>1, <2>1
  <2>4. to # Len(w) /\ from \in from..(to + 1) /\ to \in from..(to + 1) /\ to + 1 \in from..(to + 1)
    BY <1>1, <2>1
  <2>. QED  BY <1>3, <2>1, <2>2, <2>3, <2>4 DEF IsDataLine
<1>4. ASSUME NEW from \in 1..(i - 1), NEW to \in (i + 1)..Len(u), IsDataLine(u, from, to)
      PROVE  to \in (i + 1)..Len(w) /\ IsDataLine(w, from, to)
  <2>1. to # Len(u)
    BY <1>2, <1>4 DEF IsDataLine
  <2>2. \A j \in from..(to + 1) : j \in 1..Len(u) /\ w[j] = u[j]
    BY <1>1, <2>1
  <2>3. from # 1 => w[from - 1] = u[from - 1]
    BY <1>1
  <2>4. from \in from..(to + 1) /\ to \in from..(to + 1) /\ to + 1 \in from..(to + 1)
    BY <1>1
  <2>5. to \in (i + 1)..Len(w)
    BY <1>1
  <2>. QED  BY <1>4, <2>1, <2>2, <2>3, <2>4, <2>5 DEF IsDataLine
<1>5. Carried(w, i) <=> Carried(u, i)
  <2>1. ASSUME Carried(w, i) PROVE Carried(u, i)
    <3>1. PICK from \in 1..(i - 1), to \in (i + 1)..Len(w) : IsDataLine(w, from, to)
      BY <2>1 DEF Carried
    <3>2. to \in (i + 1)..Len(u) /\ IsDataLine(u, from, to)
      BY <1>1, <1>3, <3>1
    <3>. QED  BY <3>2 DEF Carried
  <2>2. ASSUME Carried(u, i) PROVE Carried(w, i)
    BY <1>4, <2>2 DEF Carried
  <2>. QED  BY <2>1, <2>2
<1>. QED  BY <1>5 DEF w

LEMMA LinesOfSecond ==
  ASSUME NEW u \in Seq(Symbols), NEW v \in Seq(Symbols), EndsLine(u),
         NEW i \in 1..Len(v)
  PROVE  Carried(u \o v, Len(u) + i) <=> Carried(v, i)
<1>. DEFINE w == u \o v
            l == Len(u)
<1>1. /\ l \in Nat /\ Len(v) \in Nat /\ Len(w) = l + Len(v)
      /\ \A j \in 1..Len(v) : w[l + j] = v[j]
      /\ l > 0 => w[l] = "n"
  <2>1. /\ Len(u) \in Nat /\ Len(v) \in Nat /\ Len(w) = Len(u) + Len(v)
        /\ \A j \in 1..(Len(u) + Len(v)) :
             w[j] = IF j <= Len(u) THEN u[j] ELSE v[j - Len(u)]
    BY ConcatProperties, LenProperties
  <2>. HIDE DEF w
  <2>2. ASSUME NEW j \in 1..Len(v) PROVE w[l + j] = v[j]
    <3>1. l + j \in 1..(Len(u) + Len(v)) /\ ~ (l + j <= Len(u)) /\ (l + j) - Len(u) = j
      BY <2>1
    <3>. QED  BY <2>1, <3>1
  <2>3. l > 0 => w[l] = "n"
    BY <2>1 DEF EndsLine
  <2>. QED  BY <2>1, <2>2, <2>3
<1>. HIDE DEF w, l
<1>2. ASSUME NEW from \in 1..(l + i - 1), NEW to \in (l + i + 1)..Len(w), IsDataLine(w, from, to)
      PROVE  /\ from - l \in 1..(i - 1) /\ to - l \in (i + 1)..Len(v)
             /\ IsDataLine(v, from - l, to - l)
  <2>1. from > l
    <3>. SUFFICES ASSUME from <= l PROVE FALSE
      BY <1>1
    <3>1. l \in from..to /\ l > 0
      BY <1>1
    <3>. QED  BY <1>1, <1>2, <3>1 DEF IsDataLine
  <2>2. from - l \in 1..(i - 1) /\ to - l \in (i + 1)..Len(v)
    BY <1>1, <2>1
  <2>3. \A j \in 1..Len(v) : v[j] = w[l + j]
    BY <1>1
  <2>4. v[from - l] = "d" /\ v[to - l] = "e" /\ from - l < to - l
    <3>1. l + (from - l) = from /\ l + (to - l) = to /\ from - l \in 1..Len(v) /\ to - l \in 1..Len(v)
      BY <1>1, <2>2
    <3>2. v[from - l] = w[from] /\ v[to - l] = w[to]
      BY <2>3, <3>1
    <3>3. from - l < to - l
      BY <1>1, <2>2
    <3>. QED  BY <1>2, <3>2, <3>3 DEF IsDataLine
  <2>5. from - l = 1 \/ v[(from - l) - 1] = "n"
    <3>. SUFFICES ASSUME from - l # 1 PROVE v[(from - l) - 1] = "n"
      OBVIOUS
    <3>1. (from - l) - 1 \in 1..Len(v) /\ l + ((from - l) - 1) = from - 1 /\ from # 1
      BY <1>1, <2>2
    <3>. QED  BY <1>2, <2>3, <3>1 DEF IsDataLine
  <2>6. to - l = Len(v) \/ v[(to - l) + 1] = "n"
    <3>. SUFFICES ASSUME to - l # Len(v) PROVE v[(to - l) + 1] = "n"
      OBVIOUS
    <3>0. to - l \in 1..Len(v) /\ to \in Int
      BY <1>1, <2>2
    <3>1. to # Len(w)
      BY <1>1, <3>0
    <3>3. (to - l) + 1 \in 1..Len(v)
      <4>. DEFINE m == to - l
      <4>1. m \in 1..Len(v) /\ m # Len(v) /\ Len(v) \in Nat
        BY <1>1, <3>0
      <4>. HIDE DEF m
      <4>2. m + 1 \in 1..Len(v)
        BY <4>1
      <4>. QED  BY <4>2 DEF m
    <3>4. l + ((to - l) + 1) = to + 1
      BY <1>1, <3>0
    <3>2. v[(to - l) + 1] = w[to + 1]
      BY <2>3, <3>3, <3>4
    <3>. QED  BY <1>2, <3>1, <3>2 DEF IsDataLine
  <2>7. ASSUME NEW j \in (from - l)..(to - l) PROVE v[j] # "n"
    <3>1. j \in 1..Len(v) /\ l + j \in from..to
      BY <1>1, <2>2
    <3>. QED  BY <1>2, <2>3, <3>1 DEF IsDataLine
  <2>. QED  BY <2>2, <2>4, <2>5, <2>6, <2>7 DEF IsDataLine
<1>3. ASSUME NEW from \in 1..(i - 1), NEW to \in (i + 1)..Len(v), IsDataLine(v, from, to)
      PROVE  /\ l + from \in 1..(l + i - 1) /\ l + to \in (l + i + 1)..Len(w)
             /\ IsDataLine(w, l + from, l + to)
  <2>1. l + from \in 1..(l + i - 1) /\ l + to \in (l + i + 1)..Len(w) /\ l + from < l + to
    BY <1>1
  <2>2. w[l + from] = "d" /\ w[l + to] = "e"
    BY <1>1, <1>3 DEF IsDataLine
  <2>3. l + from = 1 \/ w[(l + from) - 1] = "n"
    <3>1. CASE from = 1
      <4>1. (l + from) - 1 = l /\ (l = 0 => l + from = 1)
        BY <1>1, <3>1
      <4>. QED  BY <1>1, <4>1
    <3>2. CASE from # 1
      <4>1. from - 1 \in 1..Len(v) /\ (l + from) - 1 = l + (from - 1)
        BY <1>1, <3>2
      <4>. QED  BY <1>1, <1>3, <3>2, <4>1 DEF IsDataLine
    <3>. QED  BY <3>1, <3>2
  <2>4. l + to = Len(w) \/ w[(l + to) + 1] = "n"
    <3>. SUFFICES ASSUME l + to # Len(w) PROVE w[(l + to) + 1] = "n"
      OBVIOUS
    <3>0. to # Len(v)
      BY <1>1
    <3>1. to + 1 \in 1..Len(v) /\ (l + to) + 1 = l + (to + 1)
      BY <1>1, <3>0
    <3>2. w[(l + to) + 1] = v[to + 1]
      BY <1>1, <3>1
    <3>. QED  BY <1>3, <3>1, <3>2 DEF IsDataLine
  <2>5. ASSUME NEW j \in (l + from)..(l + to) PROVE w[j] # "n"
    <3>1. j - l \in from..to /\ j - l \in 1..Len(v) /\ l + (j - l) = j
      BY <1>1
    <3>. QED  BY <1>1, <1>3, <3>1 DEF IsDataLine
  <2>. QED  BY <2>1, <2>2, <2>3, <2>4, <2>5 DEF IsDataLine
<1>4. ASSUME Carried(w, l + i) PROVE Carried(v, i)
  <2>1. PICK from \in 1..(l + i - 1), to \in (l + i + 1)..Len(w) : IsDataLine(w, from, to)
    BY <1>1, <1>4 DEF Carried
  <2>2. /\ from - l \in 1..(i - 1) /\ to - l \in (i + 1)..Len(v)
        /\ IsDataLine(v, from - l, to - l)
    BY <1>2, <2>1
  <2>. QED  BY <2>2 DEF Carried
<1>5. ASSUME Carried(v, i) PROVE Carried(w, l + i)
  <2>1. PICK from \in 1..(i - 1), to \in (i + 1)..Len(v) : IsDataLine(v, from, to)
    BY <1>5 DEF Carried
  <2>2. /\ l + from \in 1..(l + i - 1) /\ l + to \in (l + i + 1)..Len(w)
        /\ IsDataLine(w, l + from, l + to)
    BY <1>3, <2>1
  <2>. QED  BY <1>1, <2>2 DEF Carried
<1>. QED  BY <1>4, <1>5 DEF w, l

LEMMA AppendBehind ==
  ASSUME NEW a \in Seq(Symbols), NEW b \in Seq(Symbols), NEW x \in Symbols
  PROVE  Append(a \o b, x) = a \o Append(b, x)
<1>1. a \o b \in Seq(Symbols) /\ <<x>> \in Seq(Symbols)
  BY ConcatProperties
<1>2. Append(a \o b, x) = (a \o b) \o <<x>> /\ Append(b, x) = b \o <<x>>
  BY <1>1, AppendIsConcat
<1>3. (a \o b) \o <<x>> = a \o (b \o <<x>>)
  BY <1>1, ConcatAssociative
<1>. QED  BY <1>2, <1>3

\* The text of a stream that was cut between two lines is the text before the
\* cut and the text behind it.
LEMMA TextApart ==
  ASSUME NEW u \in Seq(Symbols), NEW v \in Seq(Symbols), EndsLine(u)
  PROVE  /\ Decoded(u) \in Seq(Symbols) /\ Decoded(v) \in Seq(Symbols)
         /\ Decoded(u \o v) = Decoded(u) \o Decoded(v)
<1>. DEFINE w == u \o v
            l == Len(u)
            k == Len(v)
<1>1. /\ w \in Seq(Symbols) /\ Len(w) = l + k /\ l \in Nat /\ k \in Nat
      /\ \A i \in 1..l : w[i] = u[i] /\ u[i] \in Symbols
      /\ \A i \in 1..k : w[l + i] = v[i] /\ v[i] \in Symbols
  <2>1. /\ w \in Seq(Symbols) /\ Len(w) = l + k /\ l \in Nat /\ k \in Nat
        /\ \A i \in 1..(Len(u) + Len(v)) :
             w[i] = IF i <= Len(u) THEN u[i] ELSE v[i - Len(u)]
    BY ConcatProperties, LenProperties
  <2>. HIDE DEF w
  <2>2. ASSUME NEW i \in 1..k PROVE w[l + i] = v[i]
    <3>1. l + i \in 1..(Len(u) + Len(v)) /\ ~ (l + i <= Len(u)) /\ (l + i) - Len(u) = i
      BY <2>1
    <3>. QED  BY <2>1, <3>1
  <2>. QED  BY <2>1, <2>2, ElementOfSeq
<1>2. PICK f : SymbolsUpTo(f, u, l) /\ Decoded(u) = f[l]
  BY DecodedIsEnd
<1>3. PICK g : SymbolsUpTo(g, v, k) /\ Decoded(v) = g[k]
  BY DecodedIsEnd
<1>4. PICK h : SymbolsUpTo(h, w, l + k) /\ Decoded(w) = h[l + k]
  BY <1>1, DecodedIsEnd
<1>5. \A i \in 1..l : Carried(w, i) <=> Carried(u, i)
  BY LinesOfFirst
<1>6. \A i \in 1..k : Carried(w, l + i) <=> Carried(v, i)
  BY LinesOfSecond
<1>. HIDE DEF w, l, k
<1>7. /\ f[0] = <<>> /\ f \in [0..l -> Seq(Symbols)]
      /\ \A i \in 1..l : f[i] = IF Carried(u, i) THEN Append(f[i - 1], u[i]) ELSE f[i - 1]
  BY <1>1, <1>2, TextStep
<1>8. /\ g[0] = <<>> /\ g \in [0..k -> Seq(Symbols)]
      /\ \A i \in 1..k : g[i] = IF Carried(v, i) THEN Append(g[i - 1], v[i]) ELSE g[i - 1]
  BY <1>1, <1>3, TextStep
<1>9. /\ h[0] = <<>>
      /\ \A i \in 1..(l + k) :
           h[i] = IF Carried(w, i) THEN Append(h[i - 1], w[i]) ELSE h[i - 1]
  <2>1. l + k \in Nat
    BY <1>1
  <2>. QED  BY <1>4, <2>1, TextStep
<1>10. h[l] = f[l]
  <2>. DEFINE S == {i \in 0..l : h[i] = f[i]}
  <2>1. S \in SUBSET (0..l) /\ 0 \in S
    BY <1>1, <1>7, <1>9
  <2>2. ASSUME NEW i \in 1..l, i - 1 \in S PROVE i \in S
    <3>1. i \in 1..(l + k) /\ i \in 0..l /\ h[i - 1] = f[i - 1]
      BY <1>1, <2>2
    <3>. QED  BY <1>1, <1>5, <1>7, <1>9, <3>1
  <2>3. l \in 0..l
    BY <1>1
  <2>4. l \in S
    <3>. HIDE DEF S
    <3>. QED  BY <1>1, <2>1, <2>2, <2>3, Upward
  <2>. QED  BY <2>4
<1>11. h[l + k] = f[l] \o g[k]
  <2>. DEFINE S == {i \in 0..k : h[l + i] = f[l] \o g[i]}
  <2>0. f[l] \in Seq(Symbols) /\ l + 0 = l
    BY <1>1, <1>7
  <2>1. S \in SUBSET (0..k) /\ 0 \in S
    <3>1. h[l + 0] = f[l] \o g[0]
      BY <1>8, <1>10, <2>0, ConcatEmptySeq
    <3>2. 0 \in 0..k
      BY <1>1
    <3>. QED  BY <3>1, <3>2
  <2>2. ASSUME NEW i \in 1..k, i - 1 \in S PROVE i \in S
    <3>0. h[l + (i - 1)] = f[l] \o g[i - 1]
      <4>1. \A j \in S : h[l + j] = f[l] \o g[j]
        OBVIOUS
      <4>. HIDE DEF S
      <4>. QED  BY <2>2, <4>1
    <3>1. h[l + (i - 1)] = f[l] \o g[i - 1] /\ i \in 0..k
      BY <1>1, <3>0
    <3>2. g[i - 1] \in Seq(Symbols) /\ v[i] \in Symbols /\ w[l + i] = v[i]
      <4>1. i - 1 \in 0..k
        BY <1>1
      <4>. QED  BY <1>1, <1>8, <4>1
    <3>3. l + i \in 1..(l + k) /\ (l + i) - 1 = l + (i - 1)
      BY <1>1
    <3>4. h[l + i] = IF Carried(v, i) THEN Append(f[l] \o g[i - 1], v[i]) ELSE f[l] \o g[i - 1]
      BY <1>6, <1>9, <3>1, <3>2, <3>3
    <3>5. Append(f[l] \o g[i - 1], v[i]) = f[l] \o Append(g[i - 1], v[i])
      BY <2>0, <3>2, AppendBehind
    <3>6. g[i] = IF Carried(v, i) THEN Append(g[i - 1], v[i]) ELSE g[i - 1]
      BY <1>8
    <3>7. h[l + i] = f[l] \o g[i]
      BY <3>4, <3>5, <3>6
    <3>. QED  BY <3>1, <3>7
  <2>3. k \in 0..k
    BY <1>1
  <2>4. k \in S
    <3>. HIDE DEF S
    <3>. QED  BY <1>1, <2>1, <2>2, <2>3, Upward
  <2>. QED  BY <2>4
<1>12. Decoded(u) \in Seq(Symbols) /\ Decoded(v) \in Seq(Symbols)
  BY DecodedIsEnd
<1>13. Decoded(w) = Decoded(u) \o Decoded(v)
  BY <1>2, <1>3, <1>4, <1>11
<1>. QED  BY <1>12, <1>13 DEF w

\* Two texts that end with a newline do so together.
LEMMA EndsTogether ==
  ASSUME NEW u \in Seq(Symbols), NEW v \in Seq(Symbols), EndsLine(u), EndsLine(v)
  PROVE  EndsLine(u \o v)
<1>. DEFINE w == u \o v
<1>1. /\ Len(w) = Len(u) + Len(v) /\ Len(u) \in Nat /\ Len(v) \in Nat
      /\ \A i \in 1..(Len(u) + Len(v)) :
           w[i] = IF i <= Len(u) THEN u[i] ELSE v[i - Len(u)]
  BY ConcatProperties, LenProperties
<1>. HIDE DEF w
<1>2. ASSUME Len(v) = 0 PROVE EndsLine(w)
  BY <1>1, <1>2 DEF EndsLine
<1>3. ASSUME Len(v) > 0 PROVE EndsLine(w)
  <2>1. Len(w) \in 1..(Len(u) + Len(v)) /\ ~ (Len(w) <= Len(u)) /\ Len(w) - Len(u) = Len(v)
    BY <1>1, <1>3
  <2>. QED  BY <1>1, <1>3, <2>1 DEF EndsLine
<1>4. EndsLine(w)
  <2>1. Len(v) = 0 \/ Len(v) > 0
    BY <1>1
  <2>. QED  BY <1>2, <1>3, <2>1
<1>. QED  BY <1>4 DEF w

-----------------------------------------------------------------------------
(***************************************************************************)
(* The tails are ends of what they are the tails of, so that a marker the  *)
(* guard finds in a window was really sent.                                *)
(***************************************************************************)
\* A marker in the end of a text is in the text.
LEMMA MarkerInTail ==
  ASSUME NEW t \in Seq(Symbols), NEW s \in Seq(Symbols), TailOf(t, s), HasMarker(t)
  PROVE  HasMarker(s)
<1>. DEFINE d == Len(s) - Len(t)
<1>1. Len(t) \in Nat /\ Len(s) \in Nat /\ d \in Nat
  BY LenProperties DEF TailOf
<1>2. PICK i \in 1..Len(t), j \in 1..Len(t) : MarkerAt(t, i, j)
  BY DEF HasMarker
<1>3. \A l \in i..j : t[l] = s[d + l]
  BY <1>1 DEF TailOf
<1>4. d + i \in 1..Len(s) /\ d + j \in 1..Len(s)
  BY <1>1
<1>. HIDE DEF d
<1>5. MarkerAt(t, i, j) <=> MarkerAt(s, d + i, d + j)
  <2>1. d \in Int /\ i \in Int /\ j \in Int
    BY <1>1
  <2>. QED  BY <1>3, <2>1, MarkerShifts
<1>. QED  BY <1>2, <1>4, <1>5 DEF HasMarker

\* A marker stays in a text that goes on.
LEMMA MarkerStays ==
  ASSUME NEW u \in Seq(Symbols), NEW v \in Seq(Symbols), HasMarker(u)
  PROVE  HasMarker(u \o v)
<1>. DEFINE w == u \o v
<1>1. /\ Len(w) = Len(u) + Len(v) /\ Len(u) \in Nat /\ Len(v) \in Nat
      /\ \A i \in 1..Len(u) : u[i] = w[0 + i]
  BY ConcatProperties, LenProperties
<1>. HIDE DEF w
<1>2. PICK i \in 1..Len(u), j \in 1..Len(u) : MarkerAt(u, i, j)
  BY DEF HasMarker
<1>3. MarkerAt(u, i, j) <=> MarkerAt(w, 0 + i, 0 + j)
  <2>1. 0 \in Int /\ i \in Int /\ j \in Int /\ \A l \in i..j : u[l] = w[0 + l]
    BY <1>1
  <2>. QED  BY <2>1, MarkerShifts
<1>4. 0 + i \in 1..Len(w) /\ 0 + j \in 1..Len(w)
  BY <1>1
<1>5. HasMarker(w)
  BY <1>2, <1>3, <1>4 DEF HasMarker
<1>. QED  BY <1>5 DEF w

-----------------------------------------------------------------------------
\* A cut at a boundary is a cut between two lines.
LEMMA CutEndsLine ==
  ASSUME NEW s \in Seq(Symbols), Boundaries(s) # {}
  PROVE  EndsLine(SubSeq(s, 1, Cut(s)))
<1>1. Len(s) \in Nat /\ Boundaries(s) \in SUBSET (0..Len(s))
  BY LenProperties DEF Boundaries
<1>2. \E i \in Boundaries(s) : \A j \in Boundaries(s) : i >= j
  BY <1>1, GreatestExists
<1>. DEFINE c == Cut(s)
<1>3. c \in Boundaries(s)
  BY <1>2 DEF Cut
<1>. HIDE DEF c
<1>4. c \in 2..Len(s) /\ s[c] = "n"
  BY <1>3 DEF Boundaries
<1>. DEFINE r == SubSeq(s, 1, c)
<1>5. /\ Len(r) = c - 1 + 1
      /\ \A i \in 1..(c - 1 + 1) : r[i] = s[1 + i - 1]
  BY <1>1, <1>4, PartOf
<1>. HIDE DEF r
<1>6. Len(r) = c /\ c \in 1..(c - 1 + 1) /\ 1 + c - 1 = c
  BY <1>1, <1>4, <1>5
<1>7. EndsLine(r)
  BY <1>4, <1>5, <1>6 DEF EndsLine
<1>. QED  BY <1>7 DEF r, c

\* A part of a stream without long events is not cut elsewhere.
LEMMA CutAtBoundary ==
  ASSUME NEW w \in Seq(Symbols), NEW l \in Nat, NEW a \in Seq(Symbols),
         l + Len(a) <= Len(w), \A i \in 1..Len(a) : a[i] = w[l + i],
         Uncut(w), Cut(a) > 0
  PROVE  Boundaries(a) # {}
<1>. SUFFICES ASSUME Boundaries(a) = {} PROVE FALSE
  OBVIOUS
<1>1. /\ Len(a) \in Nat /\ Len(w) \in Nat /\ MaxPending \in Nat \ {0}
  BY LenProperties, GuardAssumption
<1>2. Len(a) >= MaxPending
  BY <1>1 DEF Cut
<1>. DEFINE p == SubSeq(w, l + 1, l + 1 + MaxPending - 1)
<1>3. l + 1 \in 1..(Len(w) - MaxPending + 1)
  BY <1>1, <1>2
<1>4. Boundaries(p) # {}
  BY <1>3 DEF Uncut
<1>5. /\ Len(p) = MaxPending
      /\ \A i \in 1..MaxPending : p[i] = w[l + i]
  <2>. DEFINE from == l + 1
              to == l + 1 + MaxPending - 1
  <2>1. from \in Nat \ {0} /\ to \in Nat /\ to <= Len(w) /\ from <= to + 1
    BY <1>1, <1>2
  <2>2. to - from + 1 = MaxPending /\ \A i \in 1..MaxPending : from + i - 1 = l + i
    BY <1>1
  <2>3. p = SubSeq(w, from, to)
    OBVIOUS
  <2>. HIDE DEF p, from, to
  <2>4. /\ Len(p) = to - from + 1
        /\ \A i \in 1..(to - from + 1) : p[i] = w[from + i - 1]
    BY <2>1, <2>3, PartOf
  <2>. QED  BY <2>2, <2>4
<1>. HIDE DEF p
<1>6. PICK j \in 2..Len(p) : p[j - 1] = "n" /\ p[j] = "n"
  BY <1>4 DEF Boundaries
<1>7. /\ j \in 2..Len(a) /\ j \in 1..Len(a) /\ j - 1 \in 1..Len(a)
      /\ j \in 1..MaxPending /\ j - 1 \in 1..MaxPending
  BY <1>1, <1>2, <1>5, <1>6
<1>8. a[j] = p[j] /\ a[j - 1] = p[j - 1]
  BY <1>5, <1>7
<1>. QED  BY <1>6, <1>7, <1>8 DEF Boundaries

LEMMA ReadyEndsLine ==
  ASSUME StreamType, InPlace, Awaited, NEW n, Arrives(n), Uncut(whole), Cut(Arrived(n)) > 0
  PROVE  EndsLine(Ready(n))
<1>. DEFINE a == Arrived(n)
            l == Len(released)
<1>1. /\ a \in Seq(Symbols) /\ l + Len(a) <= Len(whole)
      /\ \A i \in 1..Len(a) : a[i] = whole[l + i]
      /\ l \in Nat /\ whole \in Seq(Symbols)
  <2>1. whole \in Seq(Symbols) /\ Len(whole) \in Nat /\ l \in Nat
    BY LenProperties DEF StreamType
  <2>2. /\ read' \in 0..Len(whole) /\ a \in Seq(Symbols)
        /\ l + Len(a) = read' /\ \A i \in 1..Len(a) : a[i] = whole[l + i]
    BY ArrivedType
  <2>. HIDE DEF a, l
  <2>. QED  BY <2>1, <2>2
<1>. HIDE DEF l
<1>2. Boundaries(a) # {}
  <2>. HIDE DEF a
  <2>1. Cut(a) > 0
    BY DEF a
  <2>. QED  BY <1>1, <2>1, CutAtBoundary
<1>3. EndsLine(SubSeq(a, 1, Cut(a)))
  <2>. HIDE DEF a
  <2>. QED  BY <1>1, <1>2, CutEndsLine
<1>. QED  BY <1>3 DEF Ready

\* A beginning of what is in place, put together from two parts.
LEMMA TwoParts ==
  ASSUME NEW w \in Seq(Symbols), NEW u \in Seq(Symbols), NEW v \in Seq(Symbols),
         Len(u) + Len(v) <= Len(w),
         \A i \in 1..Len(u) : u[i] = w[i],
         \A i \in 1..Len(v) : v[i] = w[Len(u) + i]
  PROVE  SubSeq(w, 1, Len(u) + Len(v)) = u \o v
<1>. DEFINE uv == u \o v
            r == SubSeq(w, 1, Len(u) + Len(v))
<1>1. /\ uv \in Seq(Symbols) /\ Len(uv) = Len(u) + Len(v) /\ Len(u) \in Nat /\ Len(v) \in Nat
      /\ \A i \in 1..(Len(u) + Len(v)) :
           uv[i] = IF i <= Len(u) THEN u[i] ELSE v[i - Len(u)]
  BY ConcatProperties, LenProperties
<1>. HIDE DEF uv
<1>2. /\ r \in Seq(Symbols) /\ Len(r) = Len(u) + Len(v)
      /\ \A i \in 1..(Len(u) + Len(v)) : r[i] = w[i]
  <2>1. /\ r \in Seq(Symbols) /\ Len(r) = Len(u) + Len(v) - 1 + 1
        /\ \A i \in 1..(Len(u) + Len(v) - 1 + 1) : r[i] = w[1 + i - 1]
    <3>1. Len(u) + Len(v) \in Nat /\ 1 <= Len(u) + Len(v) + 1
      BY <1>1
    <3>. QED  BY <3>1, PartOf
  <2>. HIDE DEF r
  <2>2. Len(u) + Len(v) - 1 + 1 = Len(u) + Len(v)
    BY <1>1
  <2>3. \A i \in 1..(Len(u) + Len(v)) : 1 + i - 1 = i
    BY <1>1
  <2>. QED  BY <2>1, <2>2, <2>3
<1>. HIDE DEF r
<1>3. ASSUME NEW i \in 1..Len(r) PROVE r[i] = uv[i]
  <2>1. CASE i <= Len(u)
    BY <1>1, <1>2, <2>1
  <2>2. CASE i > Len(u)
    <3>1. i - Len(u) \in 1..Len(v) /\ Len(u) + (i - Len(u)) = i /\ ~ (i <= Len(u))
      BY <1>1, <1>2, <2>2
    <3>2. v[i - Len(u)] = w[Len(u) + (i - Len(u))]
      BY <3>1
    <3>. QED  BY <1>1, <1>2, <3>1, <3>2
  <2>. QED  BY <1>1, <1>2, <2>1, <2>2
<1>4. r = uv
  BY <1>1, <1>2, <1>3, SeqEqual
<1>. QED  BY <1>4 DEF r, uv

-----------------------------------------------------------------------------
\* What the guard refuses has a marker in what was released and is refused.
LEMMA UnsafeIsReal ==
  ASSUME NEW text \in Seq(Symbols), released \in Seq(Symbols),
         releasedTail \in Seq(Symbols), decodedTail \in Seq(Symbols),
         EndsLine(released), TailOf(releasedTail, released),
         TailOf(decodedTail, Decoded(released)), Unsafe(text)
  PROVE  HasMarker(released \o text) \/ HasMarker(Decoded(released \o text))
<1>1. CASE HasMarker(releasedTail \o text)
  <2>1. /\ releasedTail \o text \in Seq(Symbols) /\ released \o text \in Seq(Symbols)
        /\ TailOf(releasedTail \o text, released \o text)
    BY ConcatProperties, TailStays
  <2>. QED  BY <1>1, <2>1, MarkerInTail
<1>2. CASE HasMarker(decodedTail \o Decoded(text))
  <2>. DEFINE old == Decoded(released)
              new == Decoded(text)
  <2>1. /\ old \in Seq(Symbols) /\ new \in Seq(Symbols)
        /\ Decoded(released \o text) = old \o new
    BY TextApart
  <2>2. TailOf(decodedTail, old) /\ HasMarker(decodedTail \o new)
    BY <1>2
  <2>. HIDE DEF old, new
  <2>3. /\ decodedTail \o new \in Seq(Symbols) /\ old \o new \in Seq(Symbols)
        /\ TailOf(decodedTail \o new, old \o new)
    BY <2>1, <2>2, ConcatProperties, TailStays
  <2>4. HasMarker(old \o new)
    BY <2>2, <2>3, MarkerInTail
  <2>. QED  BY <2>1, <2>4
<1>. QED  BY <1>1, <1>2 DEF Unsafe

\* What the guard lets through adds no marker to the text of what was released.
LEMMA SafeStaysSafe ==
  ASSUME NEW text \in Seq(Symbols), released \in Seq(Symbols), decodedTail \in Seq(Symbols),
         EndsLine(released), TailOf(decodedTail, Decoded(released)),
         OnlyLongMarkers(Decoded(released)), ~Unsafe(text)
  PROVE  OnlyLongMarkers(Decoded(released \o text))
<1>. DEFINE old == Decoded(released)
            new == Decoded(text)
<1>1. /\ old \in Seq(Symbols) /\ new \in Seq(Symbols)
      /\ Decoded(released \o text) = old \o new
  BY TextApart
<1>2. TailOf(decodedTail, old) /\ OnlyLongMarkers(old) /\ ~HasMarker(decodedTail \o new)
  BY DEF Unsafe
<1>. HIDE DEF old, new
<1>3. OnlyLongMarkers(old \o new)
  BY <1>1, <1>2, NoMarkerAcross
<1>. QED  BY <1>1, <1>3

(***************************************************************************)
(* TextInv: while a stream without long events is relayed, what was        *)
(* released ends with a line and the tail of the text is an end of it.     *)
(* So the window the guard scans is an end of what the client would have,  *)
(* and joins the old text to the new one where the client does.            *)
(***************************************************************************)
MarkerArrived ==
  LET got == SubSeq(whole, 1, read) IN HasMarker(got) \/ HasMarker(Decoded(got))

TextInv ==
  /\ decodedTail \in Seq(Symbols)
  /\ Uncut(whole) => OnlyLongMarkers(Decoded(released))
  /\ Uncut(whole) /\ pc = "relay" =>
       EndsLine(released) /\ TailOf(decodedTail, Decoded(released))
  /\ Uncut(whole) /\ pc = "marker" => MarkerArrived

LEMMA EmptyText ==
  /\ <<>> \in Seq(Symbols) /\ TailOf(<<>>, <<>>) /\ EndsLine(<<>>)
  /\ Decoded(<<>>) = <<>> /\ OnlyLongMarkers(<<>>)
<1>1. <<>> \in Seq(Symbols) /\ Len(<<>>) = 0
  BY EmptySeq
<1>2. TailOf(<<>>, <<>>) /\ EndsLine(<<>>) /\ OnlyLongMarkers(<<>>)
  BY <1>1 DEF TailOf, EndsLine, OnlyLongMarkers
<1>3. PICK f : SymbolsUpTo(f, <<>>, Len(<<>>)) /\ Decoded(<<>>) = f[Len(<<>>)]
  BY <1>1, DecodedIsEnd
<1>4. f[0] = <<>>
  BY <1>1, <1>3, TextStep
<1>. QED  BY <1>1, <1>2, <1>3, <1>4

LEMMA InitText == Init => TextInv
BY EmptyText DEF Init, GuardInit, TextInv

LEMMA BeginKeepsText == Begin => TextInv'
<1>. SUFFICES ASSUME Begin PROVE TextInv'
  OBVIOUS
<1>1. releasedTail' = <<>> /\ decodedTail' = <<>> /\ released' = <<>> /\ pc' = "relay"
  BY DEF Begin, Open
<1>. QED  BY <1>1, EmptyText DEF TextInv

LEMMA QuietKeepsText ==
  ASSUME TextInv, UNCHANGED <<whole, read, releasedTail, decodedTail, released>>,
         pc' = pc \/ pc' \notin {"relay", "marker"}
  PROVE  TextInv'
BY DEF TextInv, MarkerArrived

LEMMA HoldKeepsText ==
  ASSUME TextInv, pc = "relay", NEW n, Hold(n), pc' = pc
  PROVE  TextInv'
<1>1. UNCHANGED <<whole, releasedTail, decodedTail, released>>
  BY DEF Hold
<1>. QED  BY <1>1 DEF TextInv

LEMMA ReleaseKeepsText ==
  ASSUME StreamInv, TextInv, pc = "relay", NEW n, Release(n), pc' = pc
  PROVE  TextInv'
<1>1. /\ StreamType /\ InPlace /\ Awaited /\ Arrives(n)
      /\ Ready(n) \in Seq(Symbols)
  <2>1. StreamType /\ InPlace /\ Awaited /\ Arrives(n)
    BY DEF StreamInv, Release
  <2>. QED  BY <2>1, SplitType
<1>2. /\ released \in Seq(Symbols) /\ releasedTail \in Seq(Symbols)
      /\ decodedTail \in Seq(Symbols) /\ TailOf(releasedTail, released)
  BY <1>1 DEF StreamType, TextInv, Awaited
<1>3. /\ whole' = whole /\ released' = released \o Ready(n)
      /\ releasedTail' = Tailed(releasedTail \o Ready(n))
      /\ decodedTail' = Tailed(decodedTail \o Decoded(Ready(n)))
      /\ Cut(Arrived(n)) > 0 /\ ~Unsafe(Ready(n))
  BY DEF Release
<1>. DEFINE ready == Ready(n)
            text == Decoded(ready)
<1>4. text \in Seq(Symbols)
  BY <1>1, DecodedIsEnd
<1>5. decodedTail' \in Seq(Symbols)
  <2>. HIDE DEF text
  <2>1. decodedTail \o text \in Seq(Symbols)
    BY <1>2, <1>4, ConcatProperties
  <2>2. Tailed(decodedTail \o text) \in Seq(Symbols)
    <3>1. TailOf(decodedTail \o text, decodedTail \o text)
      <4>1. Len(decodedTail \o text) \in Nat
        BY <2>1, LenProperties
      <4>. QED  BY <4>1 DEF TailOf
    <3>. QED  BY <2>1, <3>1, TailIsCut
  <2>. QED  BY <1>3, <2>2 DEF text
<1>7. ASSUME Uncut(whole)
      PROVE  /\ OnlyLongMarkers(Decoded(released')) /\ EndsLine(released')
             /\ TailOf(decodedTail', Decoded(released'))
  <2>1. /\ EndsLine(released) /\ TailOf(decodedTail, Decoded(released))
        /\ OnlyLongMarkers(Decoded(released)) /\ EndsLine(Ready(n))
    BY <1>1, <1>3, <1>7, ReadyEndsLine DEF TextInv
  <2>2. OnlyLongMarkers(Decoded(released \o Ready(n)))
    BY <1>1, <1>2, <1>3, <2>1, SafeStaysSafe
  <2>3. EndsLine(released \o Ready(n))
    BY <1>1, <1>2, <2>1, EndsTogether
  <2>4. Decoded(released) \in Seq(Symbols) /\ Decoded(released \o Ready(n)) = Decoded(released) \o text
    BY <1>1, <1>2, <2>1, TextApart
  <2>5. TailOf(decodedTail', Decoded(released) \o text)
    <3>. HIDE DEF text
    <3>1. TailOf(Tailed(decodedTail \o text), Decoded(released) \o text)
      BY <1>2, <1>4, <2>1, <2>4, TailGoesOn
    <3>. QED  BY <1>3, <3>1 DEF text
  <2>. QED  BY <1>3, <2>2, <2>3, <2>4, <2>5
<1>. QED  BY <1>3, <1>5, <1>7 DEF TextInv

LEMMA TripIsReal ==
  ASSUME StreamInv, TextInv, pc = "relay", NEW n, Trip(n), pc' = "marker"
  PROVE  TextInv'
<1>1. StreamType /\ InPlace /\ Awaited /\ Arrives(n)
  BY DEF StreamInv, Trip
<1>2. /\ whole' = whole /\ released' = released /\ releasedTail' = releasedTail
      /\ decodedTail' = decodedTail /\ Cut(Arrived(n)) > 0 /\ Unsafe(Ready(n))
  BY DEF Trip
<1>. DEFINE c == Cut(Arrived(n))
<1>3. /\ Ready(n) \in Seq(Symbols) /\ Len(Ready(n)) = c
      /\ Rest(n) \in Seq(Symbols) /\ Len(Rest(n)) = Len(Arrived(n)) - c
      /\ \A i \in 1..Len(Ready(n)) : Ready(n)[i] = whole[Len(released) + i]
      /\ \A i \in 1..Len(Rest(n)) : Rest(n)[i] = whole[Len(released) + c + i]
      /\ c \in 0..Len(Arrived(n))
  BY <1>1, SplitType
<1>4. /\ released \in Seq(Symbols) /\ whole \in Seq(Symbols) /\ releasedTail \in Seq(Symbols)
      /\ decodedTail \in Seq(Symbols) /\ TailOf(releasedTail, released)
      /\ Len(released) \in Nat
  BY <1>1, LenProperties DEF StreamType, TextInv, Awaited
<1>5. /\ Len(released) + Len(Arrived(n)) = read' /\ read' \in 0..Len(whole)
      /\ Len(Arrived(n)) \in Nat /\ Len(whole) \in Nat
  BY <1>1, <1>4, ArrivedType, LenProperties
<1>. HIDE DEF c
<1>6. ASSUME Uncut(whole) PROVE MarkerArrived'
  <2>1. /\ EndsLine(released) /\ TailOf(decodedTail, Decoded(released)) /\ EndsLine(Ready(n))
    BY <1>1, <1>2, <1>6, ReadyEndsLine DEF TextInv
  <2>. DEFINE u == released \o Ready(n)
  <2>2. HasMarker(u) \/ HasMarker(Decoded(u))
    BY <1>2, <1>3, <1>4, <2>1, UnsafeIsReal
  <2>3. EndsLine(u)
    BY <1>3, <1>4, <2>1, EndsTogether
  <2>4. /\ u \in Seq(Symbols) /\ Len(u) = Len(released) + c
        /\ \A i \in 1..Len(u) : u[i] = whole[i]
    <3>1. Len(u) = Len(released) + c /\ u \in Seq(Symbols)
          /\ \A i \in 1..(Len(released) + c) :
               u[i] = IF i <= Len(released) THEN released[i] ELSE Ready(n)[i - Len(released)]
      BY <1>3, <1>4, ConcatProperties
    <3>. HIDE DEF u
    <3>2. ASSUME NEW i \in 1..(Len(released) + c) PROVE u[i] = whole[i]
      <4>1. CASE i <= Len(released)
        BY <1>1, <1>4, <3>1, <3>2, <4>1 DEF InPlace
      <4>2. CASE i > Len(released)
        <5>1. i - Len(released) \in 1..c /\ Len(released) + (i - Len(released)) = i
              /\ ~ (i <= Len(released))
          BY <1>3, <1>4, <1>5, <4>2
        <5>. QED  BY <1>3, <3>1, <5>1
      <4>. QED  BY <1>3, <1>4, <1>5, <4>1, <4>2
    <3>. QED  BY <3>1, <3>2
  <2>. HIDE DEF u
  <2>5. Len(u) + Len(Rest(n)) = read' /\ read' <= Len(whole)
    BY <1>3, <1>4, <1>5, <2>4
  <2>6. SubSeq(whole, 1, Len(u) + Len(Rest(n))) = u \o Rest(n)
    <3>1. \A i \in 1..Len(Rest(n)) : Rest(n)[i] = whole[Len(u) + i]
      BY <1>3, <2>4
    <3>2. Len(u) + Len(Rest(n)) <= Len(whole)
      BY <2>5
    <3>. QED  BY <1>3, <1>4, <2>4, <3>1, <3>2, TwoParts
  <2>7. HasMarker(u \o Rest(n)) \/ HasMarker(Decoded(u \o Rest(n)))
    <3>1. CASE HasMarker(u)
      BY <1>3, <2>4, <3>1, MarkerStays
    <3>2. CASE HasMarker(Decoded(u))
      <4>1. /\ Decoded(u) \in Seq(Symbols) /\ Decoded(Rest(n)) \in Seq(Symbols)
            /\ Decoded(u \o Rest(n)) = Decoded(u) \o Decoded(Rest(n))
        BY <1>3, <2>3, <2>4, TextApart
      <4>2. HasMarker(Decoded(u) \o Decoded(Rest(n)))
        BY <3>2, <4>1, MarkerStays
      <4>. QED  BY <4>1, <4>2
    <3>. QED  BY <2>2, <3>1, <3>2
  <2>8. SubSeq(whole', 1, read') = u \o Rest(n)
    BY <1>2, <2>5, <2>6
  <2>. QED  BY <2>7, <2>8 DEF MarkerArrived
<1>. QED  BY <1>2, <1>4, <1>6 DEF TextInv

LEMMA TripAtEndIsReal ==
  ASSUME StreamInv, TextInv, pc = "relay", TripAtEnd, pc' = "marker"
  PROVE  TextInv'
<1>1. StreamType /\ InPlace /\ Awaited
  BY DEF StreamInv
<1>2. /\ UNCHANGED <<whole, read, releasedTail, decodedTail, released>>
      /\ read = Len(whole) /\ Unsafe(pending)
  BY DEF TripAtEnd, AtEnd, guardVars
<1>3. /\ released \in Seq(Symbols) /\ whole \in Seq(Symbols) /\ pending \in Seq(Symbols)
      /\ releasedTail \in Seq(Symbols) /\ decodedTail \in Seq(Symbols)
      /\ TailOf(releasedTail, released) /\ read \in 0..Len(whole) /\ Len(whole) \in Nat
  BY <1>1, LenProperties DEF StreamType, TextInv, Awaited
<1>4. ASSUME Uncut(whole) PROVE MarkerArrived'
  <2>1. HasMarker(released \o pending) \/ HasMarker(Decoded(released \o pending))
    BY <1>2, <1>3, <1>4, UnsafeIsReal DEF TextInv
  <2>2. Len(released) + Len(pending) = read /\ Len(released) + Len(pending) <= Len(whole)
    BY <1>1, <1>2, <1>3 DEF Awaited
  <2>3. SubSeq(whole, 1, Len(released) + Len(pending)) = released \o pending
    BY <1>1, <1>3, <2>2, TwoParts DEF InPlace, Awaited
  <2>4. SubSeq(whole', 1, read') = released \o pending
    BY <1>2, <2>2, <2>3
  <2>. QED  BY <2>1, <2>4 DEF MarkerArrived
<1>. QED  BY <1>2, <1>4 DEF TextInv

LEMMA FinishKeepsText ==
  ASSUME StreamInv, TextInv, pc = "relay", Finish, pc' = "done"
  PROVE  TextInv'
<1>1. /\ released \in Seq(Symbols) /\ pending \in Seq(Symbols) /\ decodedTail \in Seq(Symbols)
  BY DEF StreamInv, StreamType, TextInv
<1>2. /\ whole' = whole /\ released' = released \o pending /\ decodedTail' = decodedTail
      /\ (pending # <<>> => ~Unsafe(pending))
  BY DEF Finish
<1>3. ASSUME Uncut(whole) PROVE OnlyLongMarkers(Decoded(released'))
  <2>1. CASE pending = <<>>
    <3>1. released' = released
      BY <1>1, <1>2, <2>1, ConcatEmptySeq
    <3>. QED  BY <1>3, <3>1 DEF TextInv
  <2>2. CASE pending # <<>>
    <3>1. OnlyLongMarkers(Decoded(released \o pending))
      BY <1>1, <1>2, <1>3, <2>2, SafeStaysSafe DEF TextInv
    <3>. QED  BY <1>2, <3>1
  <2>. QED  BY <2>1, <2>2
<1>. QED  BY <1>1, <1>2, <1>3 DEF TextInv

LEMMA StepText == StreamInv /\ TextInv /\ [Next]_vars => TextInv'
<1>. SUFFICES ASSUME StreamInv, TextInv, [Next]_vars PROVE TextInv'
  OBVIOUS
<1>1. CASE Unreadable \/ Receive \/ NoLimiter \/ OverQuota \/ Admitted \/ Disconnect
  BY <1>1, QuietKeepsText
     DEF Unreadable, Receive, NoLimiter, OverQuota, Admitted, Disconnect, guardVars
<1>2. CASE FailOver \/ Reject \/ PassOn \/ CutOff \/ Answer \/ Undecodable \/ GiveUp \/ Break
  BY <1>2, QuietKeepsText
     DEF FailOver, Reject, PassOn, CutOff, Answer, Undecodable, GiveUp, Break, guardVars,
         routerVars
<1>3. CASE Begin
  BY <1>3, BeginKeepsText
<1>4. CASE Chunk
  <2>1. PICK n \in 1..Len(whole) : \/ Hold(n) /\ pc' = pc
                                   \/ Release(n) /\ pc' = pc
                                   \/ Trip(n) /\ pc' = "marker"
    BY <1>4 DEF Chunk
  <2>2. pc = "relay"
    BY <1>4 DEF Chunk
  <2>. QED  BY <2>1, <2>2, HoldKeepsText, ReleaseKeepsText, TripIsReal
<1>5. CASE EndOfStream
  <2>1. pc = "relay"
    BY <1>5 DEF EndOfStream
  <2>2. CASE Finish /\ pc' = "done"
    BY <2>1, <2>2, FinishKeepsText
  <2>3. CASE TripAtEnd /\ pc' = "marker"
    BY <2>1, <2>3, TripAtEndIsReal
  <2>. QED  BY <1>5, <2>2, <2>3 DEF EndOfStream
<1>6. CASE UNCHANGED vars
  BY <1>6, QuietKeepsText DEF vars, guardVars
<1>. QED  BY <1>1, <1>2, <1>3, <1>4, <1>5, <1>6 DEF Next, Upstream

-----------------------------------------------------------------------------
\* However the deltas that spell a marker are spread over events, and those over
\* chunks, it reaches the client only if it is longer than the tail, if no event
\* was longer than max_pending (router.py:37-46, 320-330): the rolling tail of the
\* decoded text joins them.
THEOREM NoMarkerInWhatTheClientReads == Spec => []NoMarkerInText
<1>1. TextInv => NoMarkerInText
  BY DEF TextInv, NoMarkerInText
<1>. QED  BY <1>1, InitStream, StepStream, InitText, StepText, PTL DEF Spec

\* No stream is terminated for a marker that its provider did not send
\* (router.py:319-328): the window is an end of what was sent, so what is found
\* in it was sent.
THEOREM NoStreamEndsForNothing == Spec => []MarkerIsReal
<1>1. TextInv => MarkerIsReal
  BY DEF TextInv, MarkerArrived, MarkerIsReal
<1>. QED  BY <1>1, InitStream, StepStream, InitText, StepText, PTL DEF Spec
-----------------------------------------------------------------------------
(***************************************************************************)
(* EventInv: a stream without long events is relayed up to the end of an   *)
(* event, and a marker in what was relayed goes on over such an end.       *)
(***************************************************************************)
EndsEvent(u) == Len(u) > 0 => Len(u) \in Boundaries(u)
Spread(u) == \A i, j \in 1..Len(u) : MarkerAt(u, i, j) => Split(u, i, j)
EventInv ==
  /\ Uncut(whole) => Spread(released)
  /\ Uncut(whole) /\ pc = "relay" => EndsEvent(released)

\* An end of an event is one wherever the text stands.
LEMMA BoundaryShifts ==
  ASSUME NEW t \in Seq(Symbols), NEW s \in Seq(Symbols), NEW d \in Nat, d + Len(t) <= Len(s),
         \A l \in 1..Len(t) : t[l] = s[d + l], NEW b \in Boundaries(t)
  PROVE  d + b \in Boundaries(s)
<1>1. Len(t) \in Nat /\ Len(s) \in Nat
  BY LenProperties
<1>2. b \in 2..Len(t) /\ t[b - 1] = "n" /\ t[b] = "n"
  BY DEF Boundaries
<1>3. b \in 1..Len(t) /\ b - 1 \in 1..Len(t) /\ d + b \in 2..Len(s) /\ d + (b - 1) = d + b - 1
  BY <1>1, <1>2
<1>4. s[d + b - 1] = "n" /\ s[d + b] = "n"
  BY <1>2, <1>3
<1>. QED  BY <1>3, <1>4 DEF Boundaries

LEMMA ReadyEndsEvent ==
  ASSUME StreamType, InPlace, Awaited, NEW n, Arrives(n), Uncut(whole), Cut(Arrived(n)) > 0
  PROVE  EndsEvent(Ready(n))
<1>1. PICK a : a = Arrived(n)
  OBVIOUS
<1>2. /\ a \in Seq(Symbols) /\ Len(released) + Len(a) <= Len(whole)
      /\ \A i \in 1..Len(a) : a[i] = whole[Len(released) + i]
      /\ Len(released) \in Nat /\ whole \in Seq(Symbols) /\ Len(a) \in Nat
  <2>1. whole \in Seq(Symbols) /\ Len(whole) \in Nat /\ Len(released) \in Nat
    BY LenProperties DEF StreamType
  <2>2. /\ read' \in 0..Len(whole) /\ a \in Seq(Symbols)
        /\ Len(released) + Len(a) = read' /\ \A i \in 1..Len(a) : a[i] = whole[Len(released) + i]
    BY <1>1, ArrivedType
  <2>. QED  BY <2>1, <2>2, LenProperties
<1>3. Boundaries(a) # {}
  BY <1>1, <1>2, CutAtBoundary
<1>4. Boundaries(a) \in SUBSET (0..Len(a))
  BY <1>2 DEF Boundaries
<1>5. PICK c : c = Cut(a)
  OBVIOUS
<1>6. c \in Boundaries(a)
  <2>1. \E i \in Boundaries(a) : \A j \in Boundaries(a) : i >= j
    BY <1>2, <1>3, <1>4, GreatestExists
  <2>. QED  BY <1>3, <1>5, <2>1 DEF Cut
<1>7. c \in 2..Len(a) /\ a[c - 1] = "n" /\ a[c] = "n"
  BY <1>6 DEF Boundaries
<1>8. PICK r : r = SubSeq(a, 1, c)
  OBVIOUS
<1>9. /\ Len(r) = c - 1 + 1
      /\ \A i \in 1..(c - 1 + 1) : r[i] = a[1 + i - 1]
  BY <1>2, <1>7, <1>8, PartOf
<1>10. Len(r) = c /\ r[c] = a[c] /\ r[c - 1] = a[c - 1]
  <2>1. c \in 1..(c - 1 + 1) /\ c - 1 \in 1..(c - 1 + 1) /\ 1 + c - 1 = c /\ 1 + (c - 1) - 1 = c - 1
        /\ c - 1 + 1 = c
    BY <1>2, <1>7
  <2>. QED  BY <1>9, <2>1
<1>11. c \in Boundaries(r)
  BY <1>2, <1>7, <1>10 DEF Boundaries
<1>12. Ready(n) = r
  BY <1>1, <1>5, <1>8 DEF Ready
<1>. QED  BY <1>10, <1>11, <1>12 DEF EndsEvent

\* New text without a marker, behind an end of an event.
LEMMA StaysSpread ==
  ASSUME NEW old \in Seq(Symbols), NEW new \in Seq(Symbols),
         Spread(old), EndsEvent(old), ~HasMarker(new)
  PROVE  Spread(old \o new)
<1>. DEFINE s == old \o new
            d == Len(old)
<1>1. /\ s \in Seq(Symbols) /\ Len(s) = d + Len(new) /\ d \in Nat /\ Len(new) \in Nat
      /\ \A l \in 1..d : old[l] = s[0 + l]
      /\ \A l \in 1..Len(new) : new[l] = s[d + l]
  <2>1. /\ s \in Seq(Symbols) /\ Len(s) = Len(old) + Len(new)
        /\ Len(old) \in Nat /\ Len(new) \in Nat
        /\ \A l \in 1..(Len(old) + Len(new)) :
             s[l] = IF l <= Len(old) THEN old[l] ELSE new[l - Len(old)]
    BY ConcatProperties, LenProperties
  <2>. HIDE DEF s
  <2>2. ASSUME NEW l \in 1..Len(new) PROVE new[l] = s[Len(old) + l]
    <3>1. Len(old) + l \in 1..(Len(old) + Len(new)) /\ ~ (Len(old) + l <= Len(old))
          /\ (Len(old) + l) - Len(old) = l
      BY <2>1
    <3>. QED  BY <2>1, <3>1
  <2>. QED  BY <2>1, <2>2
<1>. HIDE DEF s
<1>2. ASSUME NEW b \in Boundaries(old) PROVE b \in Boundaries(s)
  <2>1. 0 \in Nat /\ 0 + Len(old) <= Len(s)
    BY <1>1
  <2>2. 0 + b \in Boundaries(s)
    BY <1>1, <2>1, BoundaryShifts
  <2>3. b \in Nat
    BY <1>1 DEF Boundaries
  <2>. QED  BY <2>2, <2>3
<1>3. ASSUME NEW i \in 1..Len(s), NEW j \in 1..Len(s), MarkerAt(s, i, j)
      PROVE  Split(s, i, j)
  <2>1. i < j
    BY <1>3 DEF MarkerAt
  <2>2. CASE j <= d
    <3>1. i \in 1..Len(old) /\ j \in 1..Len(old) /\ i \in Int /\ j \in Int
      BY <1>1, <2>1, <2>2
    <3>2. MarkerAt(old, i, j) <=> MarkerAt(s, 0 + i, 0 + j)
      <4>1. 0 \in Int /\ \A l \in i..j : old[l] = s[0 + l]
        BY <1>1, <3>1
      <4>. QED  BY <3>1, <4>1, MarkerShifts, ZenonT(30)
    <3>3. 0 + i = i /\ 0 + j = j
      BY <3>1
    <3>4. Split(old, i, j)
      BY <1>3, <3>1, <3>2, <3>3 DEF Spread
    <3>. QED  BY <1>2, <3>4 DEF Split
  <2>3. CASE i <= d /\ d < j
    <3>1. d \in Boundaries(old)
      BY <1>1, <2>3 DEF EndsEvent
    <3>. QED  BY <1>2, <2>3, <3>1 DEF Split
  <2>4. CASE i > d
    <3>1. PICK a : a = i - d
      OBVIOUS
    <3>2. PICK b : b = j - d
      OBVIOUS
    <3>3. /\ a \in 1..Len(new) /\ b \in 1..Len(new) /\ d + a = i /\ d + b = j
          /\ a \in Int /\ b \in Int /\ d \in Int
      BY <1>1, <1>3, <2>1, <2>4, <3>1, <3>2
    <3>4. MarkerAt(new, a, b) <=> MarkerAt(s, d + a, d + b)
      <4>1. \A l \in a..b : new[l] = s[d + l]
        BY <1>1, <3>3
      <4>. HIDE DEF d
      <4>. QED  BY <3>3, <4>1, MarkerShifts
    <3>. QED  BY <1>3, <3>3, <3>4 DEF HasMarker
  <2>. QED  BY <1>1, <2>2, <2>3, <2>4
<1>4. Spread(s)
  BY <1>3 DEF Spread
<1>. QED  BY <1>4 DEF s

LEMMA EventsGoOn ==
  ASSUME NEW u \in Seq(Symbols), NEW v \in Seq(Symbols), EndsEvent(u), EndsEvent(v)
  PROVE  EndsEvent(u \o v)
<1>. DEFINE s == u \o v
<1>1. /\ s \in Seq(Symbols) /\ Len(s) = Len(u) + Len(v) /\ Len(u) \in Nat /\ Len(v) \in Nat
      /\ \A l \in 1..(Len(u) + Len(v)) :
           s[l] = IF l <= Len(u) THEN u[l] ELSE v[l - Len(u)]
  BY ConcatProperties, LenProperties
<1>. HIDE DEF s
<1>2. ASSUME Len(v) = 0 PROVE EndsEvent(s)
  <2>1. ASSUME Len(u) > 0 PROVE Len(u) \in Boundaries(s)
    <3>1. Len(u) \in Boundaries(u) /\ 0 \in Nat /\ 0 + Len(u) <= Len(s)
          /\ \A l \in 1..Len(u) : u[l] = s[0 + l]
      BY <1>1, <2>1 DEF EndsEvent
    <3>2. 0 + Len(u) \in Boundaries(s)
      BY <1>1, <3>1, BoundaryShifts
    <3>. QED  BY <1>1, <3>2
  <2>. QED  BY <1>1, <1>2, <2>1 DEF EndsEvent
<1>3. ASSUME Len(v) > 0 PROVE EndsEvent(s)
  <2>1. /\ Len(v) \in Boundaries(v) /\ Len(u) + Len(v) <= Len(s)
    BY <1>1, <1>3 DEF EndsEvent
  <2>2. ASSUME NEW l \in 1..Len(v) PROVE v[l] = s[Len(u) + l]
    <3>1. Len(u) + l \in 1..(Len(u) + Len(v)) /\ ~ (Len(u) + l <= Len(u))
          /\ (Len(u) + l) - Len(u) = l
      BY <1>1
    <3>. QED  BY <1>1, <3>1
  <2>3. Len(u) + Len(v) \in Boundaries(s)
    <3>1. PICK b : b = Len(v)
      OBVIOUS
    <3>2. PICK d : d = Len(u)
      OBVIOUS
    <3>3. s \in Seq(Symbols) /\ d \in Nat /\ d + Len(v) <= Len(s) /\ b \in Boundaries(v)
      BY <1>1, <2>1, <3>1, <3>2
    <3>4. \A l \in 1..Len(v) : v[l] = s[d + l]
      BY <2>2, <3>2
    <3>5. d + b \in Boundaries(s)
      BY <3>3, <3>4, BoundaryShifts
    <3>. QED  BY <3>1, <3>2, <3>5
  <2>. QED  BY <1>1, <2>3 DEF EndsEvent
<1>4. EndsEvent(s)
  <2>1. Len(v) = 0 \/ Len(v) > 0
    BY <1>1
  <2>. QED  BY <1>2, <1>3, <2>1
<1>. QED  BY <1>4 DEF s

\* What is scanned with the tail before it is scanned itself.
LEMMA SafeAlone ==
  ASSUME NEW text \in Seq(Symbols), releasedTail \in Seq(Symbols), ~Unsafe(text)
  PROVE  ~HasMarker(text)
<1>. SUFFICES ASSUME HasMarker(text) PROVE FALSE
  OBVIOUS
<1>. DEFINE w == releasedTail \o text
            d == Len(releasedTail)
<1>1. /\ w \in Seq(Symbols) /\ Len(w) = d + Len(text) /\ d \in Nat /\ Len(text) \in Nat
      /\ \A l \in 1..(d + Len(text)) : w[l] = IF l <= d THEN releasedTail[l] ELSE text[l - d]
  BY ConcatProperties, LenProperties
<1>. HIDE DEF w
<1>2. ASSUME NEW l \in 1..Len(text) PROVE text[l] = w[d + l]
  <2>1. d + l \in 1..(d + Len(text)) /\ ~ (d + l <= d) /\ (d + l) - d = l
    BY <1>1
  <2>. QED  BY <1>1, <2>1
<1>. HIDE DEF d
<1>3. PICK i \in 1..Len(text), j \in 1..Len(text) : MarkerAt(text, i, j)
  BY DEF HasMarker
<1>4. d + i \in 1..Len(w) /\ d + j \in 1..Len(w) /\ \A l \in i..j : text[l] = w[d + l]
  BY <1>1, <1>2
<1>5. MarkerAt(text, i, j) <=> MarkerAt(w, d + i, d + j)
  <2>1. d \in Int /\ i \in Int /\ j \in Int
    BY <1>1
  <2>. QED  BY <1>4, <2>1, MarkerShifts
<1>6. HasMarker(w)
  BY <1>3, <1>4, <1>5 DEF HasMarker
<1>. QED  BY <1>6 DEF w, d, Unsafe

LEMMA QuietKeepsEvents ==
  ASSUME EventInv, UNCHANGED <<whole, released>>, pc' = pc \/ pc' # "relay"
  PROVE  EventInv'
BY DEF EventInv

LEMMA EmptyEvents == Spread(<<>>) /\ EndsEvent(<<>>)
BY EmptySeq DEF Spread, EndsEvent

LEMMA InitEvents == Init => EventInv
BY EmptyEvents DEF Init, GuardInit, EventInv

LEMMA StepEvents == StreamInv /\ EventInv /\ [Next]_vars => EventInv'
<1>. SUFFICES ASSUME StreamInv, EventInv, [Next]_vars PROVE EventInv'
  OBVIOUS
<1>1. CASE Unreadable \/ Receive \/ NoLimiter \/ OverQuota \/ Admitted \/ Disconnect
  BY <1>1, QuietKeepsEvents
     DEF Unreadable, Receive, NoLimiter, OverQuota, Admitted, Disconnect, guardVars
<1>2. CASE FailOver \/ Reject \/ PassOn \/ CutOff \/ Answer \/ Undecodable \/ GiveUp \/ Break
  BY <1>2, QuietKeepsEvents
     DEF FailOver, Reject, PassOn, CutOff, Answer, Undecodable, GiveUp, Break, guardVars
<1>3. CASE Begin
  <2>1. released' = <<>>
    BY <1>3 DEF Begin, Open
  <2>. QED  BY <2>1, EmptyEvents DEF EventInv
<1>4. ASSUME pc = "relay", NEW n, Release(n), pc' = pc PROVE EventInv'
  <2>1. /\ StreamType /\ InPlace /\ Awaited /\ Arrives(n) /\ ~Unsafe(Ready(n))
        /\ Cut(Arrived(n)) > 0 /\ whole' = whole /\ released' = released \o Ready(n)
    BY <1>4 DEF StreamInv, Release
  <2>2. /\ Ready(n) \in Seq(Symbols) /\ released \in Seq(Symbols)
        /\ releasedTail \in Seq(Symbols)
    BY <2>1, SplitType DEF StreamType
  <2>3. ASSUME Uncut(whole) PROVE Spread(released \o Ready(n)) /\ EndsEvent(released \o Ready(n))
    <3>1. Spread(released) /\ EndsEvent(released) /\ EndsEvent(Ready(n))
      BY <1>4, <2>1, <2>3, ReadyEndsEvent DEF EventInv
    <3>2. ~HasMarker(Ready(n))
      BY <2>1, <2>2, SafeAlone
    <3>. QED  BY <2>2, <3>1, <3>2, StaysSpread, EventsGoOn
  <2>. QED  BY <2>1, <2>3 DEF EventInv
<1>5. CASE Chunk
  <2>1. PICK n \in 1..Len(whole) : \/ Hold(n) /\ pc' = pc
                                   \/ Release(n) /\ pc' = pc
                                   \/ Trip(n) /\ pc' = "marker"
    BY <1>5 DEF Chunk
  <2>2. pc = "relay"
    BY <1>5 DEF Chunk
  <2>3. CASE Release(n) /\ pc' = pc
    BY <1>4, <2>2, <2>3
  <2>4. CASE Hold(n) /\ pc' = pc
    BY <2>4, QuietKeepsEvents DEF Hold
  <2>5. CASE Trip(n) /\ pc' = "marker"
    BY <2>5, QuietKeepsEvents DEF Trip
  <2>. QED  BY <2>1, <2>3, <2>4, <2>5
<1>6. CASE EndOfStream
  <2>1. pc = "relay"
    BY <1>6 DEF EndOfStream
  <2>2. CASE Finish /\ pc' = "done"
    <3>1. /\ released \in Seq(Symbols) /\ pending \in Seq(Symbols) /\ releasedTail \in Seq(Symbols)
          /\ whole' = whole /\ released' = released \o pending
          /\ (pending # <<>> => ~Unsafe(pending))
      BY <2>2 DEF StreamInv, StreamType, Finish
    <3>2. ASSUME Uncut(whole) PROVE Spread(released')
      <4>1. Spread(released) /\ EndsEvent(released)
        BY <2>1, <3>2 DEF EventInv
      <4>2. CASE pending = <<>>
        <5>1. released' = released
          BY <3>1, <4>2, ConcatEmptySeq
        <5>. QED  BY <4>1, <5>1
      <4>3. CASE pending # <<>>
        <5>1. ~HasMarker(pending)
          BY <3>1, <4>3, SafeAlone
        <5>2. Spread(released \o pending)
          BY <3>1, <4>1, <5>1, StaysSpread
        <5>. QED  BY <3>1, <5>2
      <4>. QED  BY <4>2, <4>3
    <3>. QED  BY <2>2, <3>1, <3>2 DEF EventInv
  <2>3. CASE TripAtEnd /\ pc' = "marker"
    BY <2>3, QuietKeepsEvents DEF TripAtEnd, guardVars
  <2>. QED  BY <1>6, <2>2, <2>3 DEF EndOfStream
<1>7. CASE UNCHANGED vars
  BY <1>7, QuietKeepsEvents DEF vars, guardVars
<1>. QED  BY <1>1, <1>2, <1>3, <1>5, <1>6, <1>7 DEF Next, Upstream

\* A marker within one event is not relayed, however long it is and wherever the
\* network splits it (router.py:299-304): with events that are not cut, one that
\* is relayed goes on over the end of an event.
THEOREM NoMarkerWithinAnEvent == Spec => []NoMarkerInAnEvent
<1>1. EventInv => NoMarkerInAnEvent
  BY DEF EventInv, Spread, NoMarkerInAnEvent
<1>. QED  BY <1>1, InitStream, StepStream, InitEvents, StepEvents, PTL DEF Spec
=============================================================================
