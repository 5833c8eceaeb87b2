-------------------------------- MODULE Pbmp --------------------------------
(***************************************************************************)
(* client/pbmp.go: the port bitmap of the command line client, and         *)
(* ParsePBMP, which reads one from an argument such as "1-10,20".          *)
(*                                                                         *)
(* A bitmap is an array of words, a word the set of its bits that are 1.   *)
(* A text is a sequence of what ParsePBMP looks at: numbers (a maximal run *)
(* of digits is one), commas, dashes, and any other character.             *)
(***************************************************************************)
EXTENDS Integers, Sequences

CONSTANTS
  WordWidth,          \* PBMP_WORD_WIDTH: bits of a word
  WordMax,            \* PBMP_WORD_MAX: words of a bitmap
  EntryMax,           \* 2^32: wordEntry returns a uint32
  Comma, Dash, Other  \* characters that are not digits

ASSUME PbmpAssumption ==
  /\ WordWidth \in Nat \ {0} /\ WordMax \in Nat \ {0}
  /\ EntryMax \in Nat /\ WordMax < EntryMax
  /\ {Comma, Dash, Other} \intersect Nat = {}
  /\ Comma # Dash /\ Comma # Other /\ Dash # Other

PortMax == WordWidth * WordMax
Words == 0 .. WordMax - 1
Bits == 0 .. WordWidth - 1
PBMPs == [Words -> SUBSET Bits]

NewPBMP == [w \in Words |-> {}]

-----------------------------------------------------------------------------
(* Mutants: operators of the code below with a plausible bug each.         *)

\* The bits of a word are counted from 1.
WordBitFromOne(port) == (port % WordWidth) + 1

\* The last port of the bitmap is left out.
IsMemberBelowLast(p, port) ==
  port < PortMax - 1 /\ port % WordWidth \in p[port \div WordWidth]

\* i < n: a range loses its last port.
SpanToLast(fst, n) == fst + 1 .. n - 1

-----------------------------------------------------------------------------
WordEntry(port) == (port \div WordWidth) % EntryMax
WordBit(port) == port % WordWidth
IsMember(p, port) == WordBit(port) \in p[WordEntry(port)]
\* AddPort for each of some ports.
AddAll(p, new) ==
  [w \in Words |-> p[w] \union {WordBit(i) : i \in {j \in new : WordEntry(j) = w}}]

\* Ports() of the client.
Ports(p) == {i \in 0 .. PortMax - 1 : IsMember(p, i)}

\* for i := fst + 1; i <= n; i++: the port fst itself was added when it was read.
Span(fst, n) == fst + 1 .. n

\* One round of the loop of ParsePBMP; s.verdict is "panic" when an index is out of
\* range.  A comma does not end a range, and a range does not change fst.
Start == [pbmp |-> NewPBMP, dash |-> FALSE, fst |-> 0, verdict |-> "ok"]

ReadNumber(s, n) ==
  LET new == IF s.dash THEN Span(s.fst, n) ELSE {n} IN
  CASE s.dash /\ s.fst >= n -> [s EXCEPT !.verdict = "refused"]
    [] \E i \in new : WordEntry(i) \notin Words -> [s EXCEPT !.verdict = "panic"]
    [] OTHER -> [s EXCEPT !.pbmp = AddAll(@, new),
                          !.dash = FALSE,
                          !.fst = IF s.dash THEN @ ELSE n]

Read(s, token) ==
  CASE s.verdict # "ok" -> s
    [] s.verdict = "ok" /\ token = Comma -> s
    [] s.verdict = "ok" /\ token = Dash -> [s EXCEPT !.dash = TRUE]
    [] s.verdict = "ok" /\ token = Other -> [s EXCEPT !.verdict = "refused"]
    [] OTHER -> ReadNumber(s, token)

\* The states of the loop, by the number of tokens read.
Reading(text) ==
  LET after[n \in 0 .. Len(text)] == IF n = 0 THEN Start ELSE Read(after[n - 1], text[n])
  IN after

ParsePBMP(text) == Reading(text)[Len(text)]

-----------------------------------------------------------------------------
(* What the texts mean: single ports and ranges between single commas.     *)

Odd(text) == {i \in DOMAIN text : i % 2 = 1}
Even(text) == DOMAIN text \ Odd(text)
Dashes(text) == {i \in Even(text) : text[i] = Dash}

WellFormed(text) ==
  /\ Len(text) % 2 = 1
  /\ \A i \in Odd(text) : text[i] \in 0 .. PortMax - 1
  /\ \A i \in Even(text) : text[i] \in {Comma, Dash}
  /\ \A i \in Dashes(text) : i + 2 \notin Dashes(text) /\ text[i - 1] < text[i + 1]

Named(text) ==
  {text[i] : i \in Odd(text)} \union UNION {text[i - 1] .. text[i + 1] : i \in Dashes(text)}

\* The ports the SDK sees in the words it is given.
PortsIn(p) == UNION {{w * WordWidth + b : b \in p[w]} : w \in Words}
=============================================================================
