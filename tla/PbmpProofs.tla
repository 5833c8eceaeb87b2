----------------------------- MODULE PbmpProofs -----------------------------
(***************************************************************************)
(* Proofs about the port bitmaps of the client: a port has one place in the*)
(* words; what Ports reads is what the bits say; and a well-formed text, of*)
(* any length, comes to the ports that it names.                           *)
(*                                                                         *)
(* The last is an induction over the characters read so far.  The library's*)
(* induction theorems take a predicate as a parameter; Smallest is the same*)
(* principle about a set of numbers, which needs none, and UpTo draws from *)
(* it what holds for every prefix of the text.                             *)
(***************************************************************************)
EXTENDS Pbmp, WellFoundedInduction, TLAPS

-----------------------------------------------------------------------------
(* Words and bits.                                                         *)

LEMMA Product ==
  ASSUME NEW a \in Nat, NEW b \in Nat, NEW c \in Nat, a < b
  PROVE  a * c + c <= b * c
<1>1. \A k \in Nat : (k + 1) * c = k * c + c
  OBVIOUS
<1>2. PICK d \in Nat : b = (a + 1) + d
  <2>1. b - (a + 1) \in Nat
    OBVIOUS
  <2> QED
    BY <2>1
<1>3. b * c = (a + 1) * c + d * c
  BY <1>2
<1>4. d * c \in Nat
  OBVIOUS
<1> QED
  BY <1>1, <1>3, <1>4

\* A port is its bit in its word, and no other bit of any word.
LEMMA DivMod ==
  ASSUME NEW n \in Nat, NEW c \in Nat \ {0}
  PROVE  /\ n \div c \in Nat /\ n % c \in 0 .. c - 1
         /\ n = (n \div c) * c + (n % c)
  OBVIOUS

LEMMA DivModUnique ==
  ASSUME NEW c \in Nat \ {0}, NEW w \in Nat, NEW b \in 0 .. c - 1
  PROVE  (w * c + b) \div c = w /\ (w * c + b) % c = b
<1> DEFINE n == w * c + b
           q == n \div c
           r == n % c
<1>0. w * c \in Nat
  OBVIOUS
<1>1. n \in Nat
  BY <1>0
<1>2. q \in Nat /\ r \in 0 .. c - 1 /\ n = q * c + r
  BY <1>1, DivMod
<1>3. q * c + r = w * c + b
  BY <1>2
<1> HIDE DEF q, r, n
<1>4. q * c \in Nat
  BY <1>2
<1>5. ASSUME q < w PROVE FALSE
  <2>1. q * c + c <= w * c
    BY <1>2, <1>5, Product
  <2> QED
    BY <1>0, <1>2, <1>3, <1>4, <2>1
<1>6. ASSUME w < q PROVE FALSE
  <2>1. w * c + c <= q * c
    BY <1>2, <1>6, Product
  <2> QED
    BY <1>0, <1>2, <1>3, <1>4, <2>1
<1>7. q = w
  BY <1>2, <1>5, <1>6
<1>8. r = b
  BY <1>0, <1>2, <1>3, <1>7
<1> QED
  BY <1>7, <1>8 DEF q, r, n

LEMMA PortPlace ==
  ASSUME NEW i \in 0 .. PortMax - 1
  PROVE  /\ WordEntry(i) \in Words /\ WordBit(i) \in Bits
         /\ i = WordEntry(i) * WordWidth + WordBit(i)
<1> DEFINE q == i \div WordWidth
           b == i % WordWidth
<1>1. WordWidth \in Nat \ {0} /\ WordMax \in Nat \ {0} /\ EntryMax \in Nat /\ WordMax < EntryMax
  BY PbmpAssumption
<1>2. PortMax \in Nat /\ PortMax = WordMax * WordWidth /\ i \in Nat /\ i < PortMax
  BY <1>1 DEF PortMax
<1>3. q \in Nat /\ b \in 0 .. WordWidth - 1 /\ i = q * WordWidth + b
  BY <1>1, <1>2, DivMod
<1> HIDE DEF q, b
<1>4. q < WordMax
  <2> SUFFICES ASSUME WordMax <= q PROVE FALSE
    BY <1>1, <1>3
  <2>1. WordMax * WordWidth <= q * WordWidth
    <3>1. CASE WordMax = q
      BY <1>1, <1>3, <3>1
    <3>2. CASE WordMax < q
      <4>1. WordMax * WordWidth + WordWidth <= q * WordWidth
        BY <1>1, <1>3, <3>2, Product
      <4>2. WordMax * WordWidth \in Nat /\ q * WordWidth \in Nat
        BY <1>1, <1>3
      <4> QED
        BY <1>1, <4>1, <4>2
    <3> QED
      BY <1>1, <1>3, <3>1, <3>2
  <2>2. q * WordWidth \in Nat
    BY <1>1, <1>3
  <2> QED
    BY <1>1, <1>2, <1>3, <2>1, <2>2
<1>5. q % EntryMax = q
  BY <1>1, <1>3, <1>4
<1> QED
  BY <1>1, <1>3, <1>4, <1>5 DEF WordEntry, WordBit, Words, Bits, q, b

LEMMA PlaceOfPort ==
  ASSUME NEW w \in Words, NEW b \in Bits
  PROVE  /\ WordEntry(w * WordWidth + b) = w /\ WordBit(w * WordWidth + b) = b
         /\ w * WordWidth + b \in 0 .. PortMax - 1
<1>1. WordWidth \in Nat \ {0} /\ WordMax \in Nat \ {0} /\ EntryMax \in Nat /\ WordMax < EntryMax
  BY PbmpAssumption
<1>2. w \in Nat /\ w < WordMax /\ b \in 0 .. WordWidth - 1
  BY <1>1 DEF Words, Bits
<1>3. (w * WordWidth + b) \div WordWidth = w /\ (w * WordWidth + b) % WordWidth = b
  BY <1>1, <1>2, DivModUnique
<1>4. w % EntryMax = w
  BY <1>1, <1>2
<1>5. w * WordWidth + WordWidth <= WordMax * WordWidth
  BY <1>1, <1>2, Product
<1>6. w * WordWidth \in Nat /\ WordMax * WordWidth \in Nat /\ PortMax = WordMax * WordWidth
  BY <1>1, <1>2 DEF PortMax
<1>7. w * WordWidth + b \in 0 .. PortMax - 1
  BY <1>1, <1>2, <1>5, <1>6
<1> QED
  BY <1>3, <1>4, <1>7 DEF WordEntry, WordBit

LEMMA PortIsBit ==
  ASSUME NEW p \in PBMPs, NEW w \in Words, NEW b \in Bits
  PROVE  w * WordWidth + b \in PortsIn(p) <=> b \in p[w]
<1>1. ASSUME NEW x \in Words, NEW c \in p[x], x * WordWidth + c = w * WordWidth + b
      PROVE  x = w /\ c = b
  <2>1. c \in Bits
    BY DEF PBMPs
  <2> QED
    BY <1>1, <2>1, PlaceOfPort
<1>2. w * WordWidth + b \in PortsIn(p)
        <=> \E x \in Words : \E c \in p[x] : x * WordWidth + c = w * WordWidth + b
  BY DEF PortsIn
<1> QED
  BY <1>1, <1>2

\* The ports of a bitmap are those of which IsMember is true.
LEMMA PortIsMember ==
  ASSUME NEW p \in PBMPs, NEW i \in 0 .. PortMax - 1
  PROVE  i \in PortsIn(p) <=> WordBit(i) \in p[WordEntry(i)]
  BY PortPlace, PortIsBit

LEMMA PortsInTyped ==
  ASSUME NEW p \in PBMPs
  PROVE  PortsIn(p) \subseteq 0 .. PortMax - 1
<1> SUFFICES ASSUME NEW w \in Words, NEW b \in p[w] PROVE w * WordWidth + b \in 0 .. PortMax - 1
  BY DEF PortsIn
<1>1. b \in Bits
  BY DEF PBMPs
<1> QED
  BY <1>1, PlaceOfPort

LEMMA PortsOfTheClient ==
  ASSUME NEW p \in PBMPs
  PROVE  Ports(p) = PortsIn(p)
<1>1. \A i \in 0 .. PortMax - 1 : i \in Ports(p) <=> i \in PortsIn(p)
  BY PortIsMember DEF Ports, IsMember
<1>2. Ports(p) \subseteq 0 .. PortMax - 1
  BY DEF Ports
<1> QED
  BY <1>1, <1>2, PortsInTyped

LEMMA NoPorts == NewPBMP \in PBMPs /\ PortsIn(NewPBMP) = {}
  BY DEF NewPBMP, PBMPs, PortsIn

LEMMA AddAllTyped ==
  ASSUME NEW p \in PBMPs, NEW new, new \subseteq Nat
  PROVE  AddAll(p, new) \in PBMPs
<1>1. \A i \in new : WordBit(i) \in Bits
  BY PbmpAssumption DEF WordBit, Bits
<1>2. \A w \in Words : p[w] \union {WordBit(i) : i \in {j \in new : WordEntry(j) = w}} \in SUBSET Bits
  BY <1>1 DEF PBMPs
<1> QED
  BY <1>2 DEF AddAll, PBMPs

LEMMA PortsInAddAll ==
  ASSUME NEW p \in PBMPs, NEW new, new \subseteq 0 .. PortMax - 1
  PROVE  PortsIn(AddAll(p, new)) = PortsIn(p) \union new
<1> DEFINE a == AddAll(p, new)
<1>1. new \subseteq Nat
  OBVIOUS
<1>2. a \in PBMPs
  BY <1>1, AddAllTyped
<1>3. \A w \in Words : a[w] = p[w] \union {WordBit(i) : i \in {j \in new : WordEntry(j) = w}}
  BY DEF AddAll
<1> HIDE DEF a
<1>4. \A i \in 0 .. PortMax - 1 : i \in PortsIn(a) <=> i \in PortsIn(p) \/ i \in new
  <2> TAKE i \in 0 .. PortMax - 1
  <2>1. WordEntry(i) \in Words
    BY PortPlace
  <2>2. i \in PortsIn(a)
          <=> \/ WordBit(i) \in p[WordEntry(i)]
              \/ \E j \in new : WordEntry(j) = WordEntry(i) /\ WordBit(j) = WordBit(i)
    BY <1>2, <1>3, <2>1, PortIsMember
  <2>3. \A j \in new : WordEntry(j) = WordEntry(i) /\ WordBit(j) = WordBit(i) => j = i
    BY PortPlace
  <2> QED
    BY <2>2, <2>3, PortIsMember
<1> QED
  BY <1>2, <1>4, PortsInTyped DEF a

-----------------------------------------------------------------------------
(* The states of the loop.                                                 *)

\* A set of natural numbers has a smallest one: what induction is made of below.
LEMMA Smallest ==
  ASSUME NEW T, T \subseteq Nat, T # {}
  PROVE  \E x \in T : \A y \in T : ~(y < x)
<1> DEFINE Less == OpToRel(<, Nat)
<1>1. \A x, y \in Nat : <<y, x>> \in Less <=> y < x
  BY Zenon DEF OpToRel
<1>2. IsWellFoundedOn(Less, Nat)
  BY NatLessThanWellFounded, Zenon
<1> HIDE DEF Less
<1>3. \E x \in T : \A y \in T : ~(<<y, x>> \in Less)
  BY <1>2, WFMin, Zenon
<1> QED
  BY <1>1, <1>3

LEMMA ReadingUnfolds ==
  ASSUME NEW text, Len(text) \in Nat
  PROVE  Reading(text) =
           [n \in 0 .. Len(text) |-> IF n = 0 THEN Start ELSE Read(Reading(text)[n - 1], text[n])]
<1> DEFINE Upto(m, g) == g = [n \in 0 .. m |-> IF n = 0 THEN Start ELSE Read(g[n - 1], text[n])]
           Bad == {m \in Nat : ~\E g : Upto(m, g)}
<1>1. Bad = {}
  <2> SUFFICES ASSUME Bad # {} PROVE FALSE
    OBVIOUS
  <2>1. PICK m \in Bad : \A k \in Bad : ~(k < m)
    <3>1. Bad \subseteq Nat
      OBVIOUS
    <3> HIDE DEF Bad
    <3> QED
      BY <3>1, Smallest
  <2>2. m \in Nat /\ ~\E g : Upto(m, g)
    OBVIOUS
  <2>3. m # 0
    <3>1. Upto(0, [n \in 0 .. 0 |-> Start])
      OBVIOUS
    <3> QED
      BY <2>2, <3>1
  <2>4. m - 1 \in Nat /\ ~(m - 1 \in Bad)
    BY <2>1, <2>2, <2>3
  <2>5. PICK g : Upto(m - 1, g)
    BY <2>4
  <2> DEFINE h == [n \in 0 .. m |-> IF n = m THEN Read(g[m - 1], text[m]) ELSE g[n]]
  <2>6. \A n \in 0 .. m : h[n] = IF n = 0 THEN Start ELSE Read(h[n - 1], text[n])
    <3> TAKE n \in 0 .. m
    <3>1. CASE n = m
      BY <2>2, <2>3, <3>1
    <3>2. CASE n # m
      <4>1. n \in 0 .. m - 1 /\ h[n] = g[n]
        BY <2>2, <3>2
      <4>2. g[n] = IF n = 0 THEN Start ELSE Read(g[n - 1], text[n])
        BY <2>5, <4>1
      <4>3. n # 0 => h[n - 1] = g[n - 1]
        BY <2>2, <4>1
      <4> HIDE DEF h
      <4> QED
        BY <4>1, <4>2, <4>3
    <3> QED
      BY <3>1, <3>2
  <2>7. h = [n \in 0 .. m |-> h[n]]
    OBVIOUS
  <2> HIDE DEF h
  <2>8. Upto(m, h)
    BY <2>6, <2>7
  <2> QED
    BY <2>2, <2>8
<1>2. \E g : Upto(Len(text), g)
  BY <1>1
<1>3. Reading(text) = CHOOSE g : Upto(Len(text), g)
  BY DEF Reading
<1>4. Upto(Len(text), Reading(text))
  <2> HIDE DEF Upto
  <2> QED
    BY <1>2, <1>3, Zenon
<1> QED
  BY <1>4

LEMMA ReadingSteps ==
  ASSUME NEW text, Len(text) \in Nat
  PROVE  /\ Reading(text)[0] = Start
         /\ \A n \in 1 .. Len(text) : Reading(text)[n] = Read(Reading(text)[n - 1], text[n])
<1> DEFINE r == Reading(text)
<1>1. r = [n \in 0 .. Len(text) |-> IF n = 0 THEN Start ELSE Read(r[n - 1], text[n])]
  BY ReadingUnfolds
<1> HIDE DEF r
<1>2. r[0] = Start /\ \A n \in 1 .. Len(text) : r[n] = Read(r[n - 1], text[n])
  BY <1>1
<1> QED
  BY <1>2 DEF r

-----------------------------------------------------------------------------
(* What the parser returns.                                                *)

Tokens == Nat \union {Comma, Dash, Other}
States == [pbmp : PBMPs, dash : BOOLEAN, fst : Nat, verdict : {"ok", "refused", "panic"}]

LEMMA UpTo ==
  ASSUME NEW N \in Nat, NEW S, 0 \in S, \A n \in 1 .. N : n - 1 \in S => n \in S
  PROVE  \A n \in 0 .. N : n \in S
<1> DEFINE Bad == {n \in 0 .. N : n \notin S}
<1> SUFFICES ASSUME Bad # {} PROVE FALSE
  OBVIOUS
<1>1. PICK m \in Bad : \A k \in Bad : ~(k < m)
  <2>1. Bad \subseteq Nat
    OBVIOUS
  <2> HIDE DEF Bad
  <2> QED
    BY <2>1, Smallest
<1>2. m \in 1 .. N
  OBVIOUS
<1>3. m - 1 \in S
  BY <1>1, <1>2
<1> QED
  BY <1>2, <1>3

LEMMA StartTyped == Start \in States
  BY NoPorts DEF Start, States

LEMMA ReadNumberTyped ==
  ASSUME NEW s \in States, NEW n \in Nat
  PROVE  ReadNumber(s, n) \in States
<1> DEFINE new == IF s.dash THEN Span(s.fst, n) ELSE {n}
<1>1. new \subseteq Nat
  BY DEF Span, States
<1>2. AddAll(s.pbmp, new) \in PBMPs
  BY <1>1, AddAllTyped DEF States
<1>3. \/ ReadNumber(s, n) = [s EXCEPT !.verdict = "refused"]
      \/ ReadNumber(s, n) = [s EXCEPT !.verdict = "panic"]
      \/ ReadNumber(s, n) = [s EXCEPT !.pbmp = AddAll(s.pbmp, new), !.dash = FALSE,
                                      !.fst = IF s.dash THEN s.fst ELSE n]
  BY DEF ReadNumber
<1> HIDE DEF new
<1> QED
  BY <1>2, <1>3 DEF States

LEMMA ReadTyped ==
  ASSUME NEW s \in States, NEW token \in Tokens
  PROVE  Read(s, token) \in States
<1>1. \/ Read(s, token) = s
      \/ Read(s, token) = [s EXCEPT !.dash = TRUE]
      \/ Read(s, token) = [s EXCEPT !.verdict = "refused"]
      \/ token \in Nat /\ Read(s, token) = ReadNumber(s, token)
  BY PbmpAssumption DEF Read, Tokens
<1> QED
  BY <1>1, ReadNumberTyped DEF States

LEMMA ReadingTyped ==
  ASSUME NEW text \in Seq(Tokens)
  PROVE  /\ Len(text) \in Nat
         /\ \A n \in 1 .. Len(text) : text[n] \in Tokens
         /\ \A n \in 0 .. Len(text) : Reading(text)[n] \in States
<1> DEFINE S == {n \in 0 .. Len(text) : Reading(text)[n] \in States}
<1>1. Len(text) \in Nat /\ \A n \in 1 .. Len(text) : text[n] \in Tokens
  OBVIOUS
<1>2. 0 \in S
  BY <1>1, ReadingSteps, StartTyped
<1>3. \A n \in 1 .. Len(text) : n - 1 \in S => n \in S
  BY <1>1, ReadingSteps, ReadTyped
<1> HIDE DEF S
<1>4. \A n \in 0 .. Len(text) : n \in S
  BY <1>1, <1>2, <1>3, UpTo
<1> QED
  BY <1>1, <1>4 DEF S

LEMMA ParseTyped ==
  ASSUME NEW text \in Seq(Tokens)
  PROVE  ParsePBMP(text) \in States
  BY ReadingTyped DEF ParsePBMP

\* What the first n tokens of a text name.
NamedTo(text, n) ==
  {text[i] : i \in {k \in Odd(text) : k <= n}}
    \union UNION {text[i - 1] .. text[i + 1] : i \in {k \in Dashes(text) : k + 1 <= n}}

LEMMA Places ==
  ASSUME NEW text \in Seq(Tokens), WellFormed(text)
  PROVE  /\ Len(text) \in Nat /\ Len(text) \in Odd(text)
         /\ DOMAIN text = 1 .. Len(text)
         /\ \A i \in Odd(text) : i \in 1 .. Len(text) /\ text[i] \in 0 .. PortMax - 1
         /\ \A i \in Dashes(text) : /\ i \in 2 .. Len(text) - 1 /\ i \notin Odd(text) /\ text[i] = Dash
                                    /\ i - 1 \in Odd(text) /\ i + 1 \in Odd(text)
                                    /\ i + 2 \notin Dashes(text) /\ text[i - 1] < text[i + 1]
         /\ \A i \in 1 .. Len(text) : i \notin Odd(text) =>
              i >= 2 /\ i - 1 \in Odd(text) /\ text[i] \in {Comma, Dash}
<1>1. Len(text) \in Nat /\ DOMAIN text = 1 .. Len(text) /\ Len(text) % 2 = 1
  BY DEF WellFormed
<1>2. \A i \in Dashes(text) : i \in 2 .. Len(text) - 1 /\ i - 1 \in Odd(text) /\ i + 1 \in Odd(text)
  BY <1>1 DEF Dashes, Even, Odd
<1>3. \A i \in 1 .. Len(text) : i \notin Odd(text) => i >= 2 /\ i - 1 \in Odd(text) /\ i \in Even(text)
  BY <1>1 DEF Even, Odd
<1>4. Len(text) \in Odd(text) /\ \A i \in Odd(text) : i \in 1 .. Len(text)
  BY <1>1 DEF Odd
<1>5. \A i \in Dashes(text) : i \notin Odd(text) /\ text[i] = Dash
  BY DEF Dashes, Even
<1> QED
  BY <1>1, <1>2, <1>3, <1>4, <1>5 DEF WellFormed

LEMMA NamedGrows ==
  ASSUME NEW text \in Seq(Tokens), WellFormed(text), NEW n \in 1 .. Len(text)
  PROVE  /\ n \notin Odd(text) => NamedTo(text, n) = NamedTo(text, n - 1)
         /\ n \in Odd(text) /\ n - 1 \notin Dashes(text) =>
              NamedTo(text, n) = NamedTo(text, n - 1) \union {text[n]}
         /\ n \in Odd(text) /\ n - 1 \in Dashes(text) =>
              NamedTo(text, n) = NamedTo(text, n - 1) \union Span(text[n - 2], text[n])
<1>1. \A m, x : x \in NamedTo(text, m)
        <=> \/ \E i \in Odd(text) : i <= m /\ x = text[i]
            \/ \E i \in Dashes(text) : i + 1 <= m /\ x \in text[i - 1] .. text[i + 1]
  BY DEF NamedTo
<1>2. CASE n \notin Odd(text)
  <2>1. \A i \in Odd(text) : i <= n <=> i <= n - 1
    BY <1>2, Places
  <2>2. \A i \in Dashes(text) : i + 1 <= n <=> i + 1 <= n - 1
    BY <1>2, Places
  <2>3. \A x : x \in NamedTo(text, n) <=> x \in NamedTo(text, n - 1)
    BY <1>1, <2>1, <2>2
  <2> QED
    BY <1>2, <2>3
<1>3. ASSUME n \in Odd(text) PROVE \A i \in Odd(text) : i <= n <=> i <= n - 1 \/ i = n
  BY Places
<1>4. CASE n \in Odd(text) /\ n - 1 \notin Dashes(text)
  <2>1. \A i \in Dashes(text) : i + 1 <= n <=> i + 1 <= n - 1
    BY <1>4, Places
  <2>2. \A x : x \in NamedTo(text, n) <=> x \in NamedTo(text, n - 1) \/ x = text[n]
    BY <1>1, <1>3, <1>4, <2>1
  <2> QED
    BY <1>4, <2>2
<1>5. CASE n \in Odd(text) /\ n - 1 \in Dashes(text)
  <2>1. \A i \in Dashes(text) : i + 1 <= n <=> i + 1 <= n - 1 \/ i = n - 1
    BY <1>5, Places
  <2>2. /\ n - 2 \in Odd(text) /\ n - 2 <= n - 1 /\ (n - 1) - 1 = n - 2 /\ (n - 1) + 1 = n
        /\ text[n - 2] \in Nat /\ text[n] \in Nat /\ text[n - 2] < text[n]
    <3>1. n - 1 \in Dashes(text) /\ (n - 1) - 1 = n - 2 /\ (n - 1) + 1 = n /\ n - 2 <= n - 1
      BY <1>5
    <3>2. (n - 1) - 1 \in Odd(text) /\ text[(n - 1) - 1] < text[(n - 1) + 1]
      BY <3>1, Places
    <3>3. n - 2 \in Odd(text) /\ text[n - 2] < text[n]
      BY <3>1, <3>2
    <3>4. text[n - 2] \in Nat /\ text[n] \in Nat
      BY <1>5, <3>3, Places
    <3> QED
      BY <3>1, <3>3, <3>4
  <2>3. text[n - 2] .. text[n] = {text[n - 2]} \union Span(text[n - 2], text[n])
        /\ text[n] \in Span(text[n - 2], text[n])
    BY <2>2 DEF Span
  <2>4. text[n - 2] \in NamedTo(text, n - 1)
    BY <1>1, <2>2
  <2>5. \A x : x \in NamedTo(text, n)
          <=> x \in NamedTo(text, n - 1) \/ x = text[n] \/ x \in text[n - 2] .. text[n]
    BY <1>1, <1>3, <1>5, <2>1, <2>2
  <2>6. \A x : x \in NamedTo(text, n)
          <=> x \in NamedTo(text, n - 1) \/ x \in Span(text[n - 2], text[n])
    BY <2>3, <2>4, <2>5
  <2> QED
    BY <1>5, <2>6
<1> QED
  BY <1>2, <1>4, <1>5

\* The state of the loop after n tokens of a well-formed text.
GoodAfter(text, n, s) ==
  /\ s.verdict = "ok"
  /\ PortsIn(s.pbmp) = NamedTo(text, n)
  /\ s.dash <=> n \in Dashes(text)
  /\ n \in Odd(text) /\ n - 1 \notin Dashes(text) => s.fst = text[n]
  /\ n \in Dashes(text) => s.fst = text[n - 1]

LEMMA GoodNumber ==
  ASSUME NEW text \in Seq(Tokens), WellFormed(text), NEW n \in Odd(text),
         NEW s \in States, GoodAfter(text, n - 1, s)
  PROVE  GoodAfter(text, n, Read(s, text[n]))
<1> DEFINE k == text[n]
           new == IF s.dash THEN Span(s.fst, k) ELSE {k}
           r == Read(s, k)
<1>1. /\ k \in 0 .. PortMax - 1 /\ k \in Nat /\ n \in 1 .. Len(text) /\ Len(text) \in Nat
      /\ PortMax \in Nat
  BY Places, PbmpAssumption DEF PortMax
<1>2. s.verdict = "ok" /\ s.dash \in BOOLEAN /\ s.fst \in Nat /\ s.pbmp \in PBMPs
  BY DEF GoodAfter, States
<1>3. s.dash <=> n - 1 \in Dashes(text)
  BY <1>2 DEF GoodAfter
<1>4. s.dash => s.fst = text[n - 2] /\ s.fst < k
  <2> SUFFICES ASSUME s.dash PROVE s.fst = text[n - 2] /\ s.fst < k
    OBVIOUS
  <2>1. n - 1 \in Dashes(text) /\ (n - 1) - 1 = n - 2 /\ (n - 1) + 1 = n
    BY <1>1, <1>3
  <2>2. s.fst = text[(n - 1) - 1]
    BY <2>1 DEF GoodAfter
  <2> QED
    BY <2>1, <2>2, Places
<1>5. new \subseteq 0 .. PortMax - 1
  BY <1>1, <1>2, <1>4 DEF Span
<1>6. \A i \in new : WordEntry(i) \in Words
  BY <1>5, PortPlace
<1>7. k \notin {Comma, Dash, Other}
  BY <1>1, PbmpAssumption
<1>8. r = ReadNumber(s, k)
  BY <1>2, <1>7 DEF Read
<1>9. ReadNumber(s, k) = [s EXCEPT !.pbmp = AddAll(s.pbmp, new), !.dash = FALSE,
                                   !.fst = IF s.dash THEN s.fst ELSE k]
  BY <1>1, <1>2, <1>4, <1>6 DEF ReadNumber
<1>10. /\ r.verdict = "ok" /\ r.pbmp = AddAll(s.pbmp, new) /\ ~r.dash
       /\ ~s.dash => r.fst = k
  BY <1>2, <1>8, <1>9 DEF States
<1>11. PortsIn(r.pbmp) = NamedTo(text, n - 1) \union new
  BY <1>2, <1>5, <1>10, PortsInAddAll DEF GoodAfter
<1>12. NamedTo(text, n) = NamedTo(text, n - 1) \union new
  BY <1>1, <1>3, <1>4, NamedGrows
<1>13. n \notin Dashes(text)
  BY Places
<1> HIDE DEF r, k, new
<1> QED
  BY <1>3, <1>10, <1>11, <1>12, <1>13 DEF GoodAfter, k, r

LEMMA GoodSign ==
  ASSUME NEW text \in Seq(Tokens), WellFormed(text), NEW n \in 1 .. Len(text), n \notin Odd(text),
         NEW s \in States, GoodAfter(text, n - 1, s)
  PROVE  GoodAfter(text, n, Read(s, text[n]))
<1>1. text[n] \in {Comma, Dash} /\ n - 1 \in Odd(text) /\ n - 1 \notin Dashes(text)
  BY Places
<1>2. s.verdict = "ok" /\ ~s.dash /\ PortsIn(s.pbmp) = NamedTo(text, n - 1)
  BY <1>1 DEF GoodAfter
<1>3. NamedTo(text, n) = NamedTo(text, n - 1)
  BY NamedGrows
<1>4. n \in Dashes(text) <=> text[n] = Dash
  BY DEF Dashes, Even
<1>5. CASE text[n] = Comma
  <2>1. Read(s, text[n]) = s /\ text[n] # Dash
    BY <1>2, <1>5, PbmpAssumption DEF Read
  <2> QED
    BY <1>2, <1>3, <1>4, <2>1 DEF GoodAfter
<1>6. CASE text[n] = Dash
  <2>1. Read(s, text[n]) = [s EXCEPT !.dash = TRUE]
    BY <1>2, <1>6, PbmpAssumption DEF Read
  <2>2. s.fst = text[n - 1]
    <3>1. (n - 1) - 1 \notin Dashes(text)
      <4> SUFFICES ASSUME n - 2 \in Dashes(text) PROVE FALSE
        BY Places
      <4>1. (n - 2) + 2 = n
        BY Places
      <4> QED
        BY <1>4, <1>6, <4>1, Places
    <3> QED
      BY <1>1, <3>1 DEF GoodAfter
  <2> QED
    BY <1>2, <1>3, <1>4, <1>6, <2>1, <2>2 DEF GoodAfter, States
<1> QED
  BY <1>1, <1>5, <1>6

\* A well-formed argument of any length is accepted, and the words hold the ports that it
\* names and no others, those of its ranges included (pbmp.go:98-132).
THEOREM ParserIsRight ==
  ASSUME NEW text \in Seq(Tokens), WellFormed(text)
  PROVE  ParsePBMP(text).verdict = "ok" /\ PortsIn(ParsePBMP(text).pbmp) = Named(text)
<1> DEFINE S == {n \in 0 .. Len(text) : GoodAfter(text, n, Reading(text)[n])}
<1>1. Len(text) \in Nat
  BY Places
<1>2. 0 \in S
  <2>1. 0 \notin Odd(text) /\ 0 \notin Dashes(text) /\ 0 \in 0 .. Len(text)
    <3>1. \A i \in Odd(text) : i # 0
      BY Places
    <3>2. \A i \in Dashes(text) : i # 0
      BY Places
    <3> QED
      BY <1>1, <3>1, <3>2
  <2>2. NamedTo(text, 0) = {}
    <3>1. \A i \in Odd(text) : ~(i <= 0)
      BY Places
    <3>2. \A i \in Dashes(text) : ~(i + 1 <= 0)
      BY Places
    <3> QED
      BY <3>1, <3>2 DEF NamedTo
  <2>3. Reading(text)[0] = Start
    BY <1>1, ReadingSteps
  <2>4. Start.verdict = "ok" /\ ~Start.dash /\ Start.pbmp = NewPBMP
    BY DEF Start
  <2>5. GoodAfter(text, 0, Start)
    BY <2>1, <2>2, <2>4, NoPorts DEF GoodAfter
  <2> QED
    BY <2>1, <2>3, <2>5
<1>3. \A n \in 1 .. Len(text) : n - 1 \in S => n \in S
  <2> SUFFICES ASSUME NEW n \in 1 .. Len(text), n - 1 \in S
               PROVE  GoodAfter(text, n, Reading(text)[n])
    OBVIOUS
  <2>1. Reading(text)[n] = Read(Reading(text)[n - 1], text[n])
    BY <1>1, ReadingSteps
  <2>2. Reading(text)[n - 1] \in States /\ GoodAfter(text, n - 1, Reading(text)[n - 1])
    BY ReadingTyped
  <2> QED
    BY <2>1, <2>2, GoodNumber, GoodSign
<1> HIDE DEF S
<1>4. Len(text) \in S
  <2>1. \A n \in 0 .. Len(text) : n \in S
    BY <1>1, <1>2, <1>3, UpTo
  <2> QED
    BY <1>1, <2>1
<1>5. GoodAfter(text, Len(text), ParsePBMP(text))
  BY <1>4 DEF S, ParsePBMP
<1>6. NamedTo(text, Len(text)) = Named(text)
  <2>1. {k \in Odd(text) : k <= Len(text)} = Odd(text)
    BY Places
  <2>2. {k \in Dashes(text) : k + 1 <= Len(text)} = Dashes(text)
    BY Places
  <2> QED
    BY <2>1, <2>2 DEF NamedTo, Named
<1> QED
  BY <1>5, <1>6 DEF GoodAfter
=============================================================================
