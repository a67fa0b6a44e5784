------------------------------- MODULE QrBits -------------------------------
(***************************************************************************)
(* What both QR code libraries of the repository (qrcodegen.cpp, which the *)
(* server uses, and qrcodegen.c) compute alike: bits, groups of digits,    *)
(* the tables and the Reed-Solomon code.  A bit buffer is a sequence of    *)
(* Booleans, a byte the set of its bits, a text the sequence of its        *)
(* character codes without the NUL.                                        *)
(***************************************************************************)
EXTENDS Integers, Sequences, FiniteSets, Strict

\* No call of a library yet.
NoCall == [none |-> TRUE]

Least(a, b) == IF a < b THEN a ELSE b

\* Bit i of a number, bit 0 being the lowest.
getBit(x, i) == (x \div 2^i) % 2 = 1

\* The bits of a number, from the highest down.
Bits(val, len) == [i \in 1 .. len |-> getBit(val, len - i)]

XorSet(a, b) == (a \ b) \cup (b \ a)

BitsOf(x) == {b \in 0 .. 7 : getBit(x, b)}

\* '0'..'9', 'A'..'Z' and " $%*+-./:"
ALPHANUMERIC_CHARSET ==
  [i \in 1 .. 10 |-> 47 + i] \o [i \in 1 .. 26 |-> 64 + i]
    \o <<32, 36, 37, 42, 43, 45, 46, 47, 58>>

CharValue(c) == (CHOOSE i \in 1 .. 45 : ALPHANUMERIC_CHARSET[i] = c) - 1

\* accumData after the digits of a group.
Accumulated(group, base) ==
  LET accumData[i \in 0 .. Len(group)] ==
        IF i = 0 THEN 0 ELSE accumData[i - 1] * base + group[i]
  IN  accumData[Len(group)]

\* Digits in groups as long as width is, a group of k digits in width[k] bits.
InGroups(digits, base, width) ==
  LET n == Len(width)
      group == Computed([g \in 0 .. Len(digits) \div n |->
                  SubSeq(digits, n * g + 1, Least(n * g + n, Len(digits)))])
      value == Computed([g \in DOMAIN group |-> Accumulated(group[g], base)])
      rest == Len(digits) % n
      total == width[n] * (Len(digits) \div n) + (IF rest = 0 THEN 0 ELSE width[rest])
  IN  [i \in 1 .. total |->
         LET g == (i - 1) \div width[n]
         IN  getBit(value[g], width[Len(group[g])] - 1 - ((i - 1) % width[n]))]

----------------------------------------------------------------------------
(* Error correction.                                                        *)

ECC_CODEWORDS_PER_BLOCK == <<
  <<7,10,15,20,26,18,20,24,30,18,20,24,26,30,22,24,28,30,28,28,28,28,30,30,26,28,30,30,30,30,30,30,30,30,30,30,30,30,30,30>>,
  <<10,16,26,18,24,16,18,22,22,26,30,22,22,24,24,28,28,26,26,26,26,28,28,28,28,28,28,28,28,28,28,28,28,28,28,28,28,28,28,28>>,
  <<13,22,18,26,18,24,18,22,20,24,28,26,24,20,30,24,28,28,26,30,28,30,30,30,30,28,30,30,30,30,30,30,30,30,30,30,30,30,30,30>>,
  <<17,28,22,16,22,28,26,26,24,28,24,28,22,24,24,30,28,28,26,28,30,24,30,30,30,30,30,30,30,30,30,30,30,30,30,30,30,30,30,30>> >>

NUM_ERROR_CORRECTION_BLOCKS == <<
  <<1,1,1,1,1,2,2,2,2,4,4,4,4,4,6,6,6,6,7,8,8,9,9,10,12,12,12,13,14,15,16,17,18,19,19,20,21,22,24,25>>,
  <<1,1,1,2,2,4,4,4,5,5,5,8,9,9,10,10,11,13,14,16,17,17,18,20,21,23,25,26,28,29,31,33,35,37,38,40,43,45,47,49>>,
  <<1,1,2,2,4,4,6,6,8,8,8,10,12,16,12,17,16,18,21,20,23,23,25,27,29,34,34,35,38,40,43,45,48,51,53,56,59,62,65,68>>,
  <<1,1,2,4,4,4,5,6,8,8,11,11,16,16,18,16,19,21,25,25,25,34,30,32,35,37,40,42,45,48,51,54,57,60,63,66,70,74,77,81>> >>

\* One step of a division of polynomials over two elements.
ShiftReduce(z, degree, poly) ==
  XorSet({b + 1 : b \in z}, IF degree - 1 \in z THEN poly ELSE {})

\* data with the remainder of its division, n bits long, below it
WithRemainder(data, n, poly) ==
  LET rem[i \in 0 .. n] ==
        IF i = 0 THEN data ELSE Value({ShiftReduce(w, n, poly) : w \in {rem[i - 1]}})
  IN  {b + n : b \in data} \cup rem[n]

reedSolomonMultiply(x, y) ==
  LET z[i \in 0 .. 8] ==
        IF i = 8 THEN {}
        ELSE Value({XorSet(ShiftReduce(w, 8, {0, 2, 3, 4, 8}), IF i \in y THEN x ELSE {}) :
                      w \in {z[i + 1]}})
  IN  z[0]

\* Times (x - root), the leading coefficient left out.
TimesFactor(poly, root) ==
  [j \in 1 .. Len(poly) |->
     XorSet(reedSolomonMultiply(poly[j], root), IF j < Len(poly) THEN poly[j + 1] ELSE {})]

reedSolomonComputeDivisor(degree) ==
  LET after[i \in 0 .. degree] ==
        IF i = 0 THEN [poly |-> [j \in 1 .. degree |-> IF j = degree THEN {0} ELSE {}], root |-> {0}]
        ELSE Value({[poly |-> Computed(TimesFactor(r.poly, r.root)),
                     root |-> reedSolomonMultiply(r.root, {1})] : r \in {after[i - 1]}})
  IN  after[degree].poly

\* A codeword of the data shifted in.
DivisionStep(result, b, divisor) ==
  LET factor == XorSet(b, result[1])
  IN  [j \in 1 .. Len(divisor) |->
         XorSet(IF j < Len(divisor) THEN result[j + 1] ELSE {},
                reedSolomonMultiply(divisor[j], factor))]

\* The codewords from .. to; in halves, which keeps the recursion of TLC flat.
RECURSIVE DivisionSteps(_, _, _, _, _)
DivisionSteps(result, data, divisor, from, to) ==
  IF to < from THEN result
  ELSE IF to = from THEN Computed(DivisionStep(result, data[from], divisor))
  ELSE Value({DivisionSteps(half, data, divisor, ((from + to) \div 2) + 1, to) :
                half \in {DivisionSteps(result, data, divisor, from, (from + to) \div 2)}})

reedSolomonComputeRemainder(data, divisor) ==
  DivisionSteps([j \in 1 .. Len(divisor) |-> {}], data, divisor, 1, Len(data))
=============================================================================
