----------------------------- MODULE QrSegment -----------------------------
(***************************************************************************)
(* The classes QrSegment and BitBuffer of qrcodegen.cpp: how a text        *)
(* becomes a string of bits.  A text is the sequence of its character      *)
(* codes without the NUL; a bit buffer is a sequence of Booleans.          *)
(***************************************************************************)
EXTENDS QrBits

INT_MAX == 2147483647

NUMERIC == [modeBits |-> 1, numBitsCharCount |-> <<10, 12, 14>>]
ALPHANUMERIC == [modeBits |-> 2, numBitsCharCount |-> <<9, 11, 13>>]
BYTE == [modeBits |-> 4, numBitsCharCount |-> <<8, 16, 16>>]

numCharCountBits(mode, ver) == mode.numBitsCharCount[((ver + 7) \div 17) + 1]

isNumeric(text) == \A i \in 1 .. Len(text) : text[i] \in 48 .. 57
isAlphanumeric(text) ==
  \A i \in 1 .. Len(text) : \E j \in 1 .. 45 : ALPHANUMERIC_CHARSET[j] = text[i]

Segment(mode, numChars, data) == [mode |-> mode, numChars |-> numChars, data |-> data]

makeBytes(data) ==
  Segment(BYTE, Len(data),
          [i \in 1 .. 8 * Len(data) |-> getBit(data[((i - 1) \div 8) + 1], 7 - ((i - 1) % 8))])

makeNumeric(digits) ==
  Segment(NUMERIC, Len(digits),
          InGroups([i \in 1 .. Len(digits) |-> digits[i] - 48], 10, <<4, 7, 10>>))

makeAlphanumeric(text) ==
  Segment(ALPHANUMERIC, Len(text),
          InGroups(Computed([i \in 1 .. Len(text) |-> CharValue(text[i])]), 45, <<6, 11>>))

\* The most compact mode for the whole text.
makeSegments(text) ==
  CASE text = <<>> -> <<>>
    [] text # <<>> /\ isNumeric(text) -> <<makeNumeric(text)>>
    [] text # <<>> /\ ~isNumeric(text) /\ isAlphanumeric(text) -> <<makeAlphanumeric(text)>>
    [] text # <<>> /\ ~isNumeric(text) /\ ~isAlphanumeric(text) -> <<makeBytes(text)>>

\* -1 if a length does not fit its field or the sum an int.
getTotalBits(segs, version) ==
  LET total[i \in 0 .. Len(segs)] ==
        IF i = 0 THEN 0
        ELSE LET ccbits == numCharCountBits(segs[i].mode, version)
                 before == total[i - 1]
             IN  IF \/ before = -1
                    \/ segs[i].numChars >= 2^ccbits
                    \/ 4 + ccbits > INT_MAX - before
                    \/ Len(segs[i].data) > INT_MAX - (before + 4 + ccbits)
                 THEN -1
                 ELSE before + 4 + ccbits + Len(segs[i].data)
  IN  total[Len(segs)]

\* The mode, the count and the data of every segment.
Concatenated(segs, version) ==
  LET bb[i \in 0 .. Len(segs)] ==
        IF i = 0 THEN <<>>
        ELSE bb[i - 1] \o Bits(segs[i].mode.modeBits, 4)
               \o Bits(segs[i].numChars, numCharCountBits(segs[i].mode, version))
               \o segs[i].data
  IN  bb[Len(segs)]

Terminator(used, capacity) == Least(4, capacity - used)

\* Terminator, zeros up to a byte, then the bytes 0xEC and 0x11 in turn.
Padded(bb, capacity) ==
  LET terminated == Len(bb) + Terminator(Len(bb), capacity)
      whole == terminated + ((8 - (terminated % 8)) % 8)
      PadByte(i) == IF ((i - whole - 1) \div 8) % 2 = 0 THEN 236 ELSE 17
  IN  [i \in 1 .. IF whole < capacity THEN capacity ELSE whole |->
         CASE i <= Len(bb) -> bb[i]
           [] i > Len(bb) /\ i <= whole -> FALSE
           [] i > whole -> getBit(PadByte(i), 7 - ((i - 1) % 8))]

\* Bits as bytes, the first bit the highest; a byte is the set of its bits.
Codewords(bits) == [k \in 1 .. Len(bits) \div 8 |-> {j \in 0 .. 7 : bits[8 * k - j]}]
=============================================================================
