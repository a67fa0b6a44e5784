----------------------------- MODULE QrBuffers -----------------------------
(***************************************************************************)
(* The functions of the library in C (lib/qrcodegen.c) on buffers: a       *)
(* buffer is an array of bytes, a byte the set of its bits.  A segment is  *)
(* its mode, number of characters and bitLength; its data is in a buffer.  *)
(* A byte that is written behind the end of a buffer is in its domain from *)
(* then on: the domain is the bytes of the caller and all that were hit.   *)
(***************************************************************************)
EXTENDS QrLayout

INT16_MAX == 32767
LENGTH_OVERFLOW == -1
SIZE_MAX == 2147483647

Mode_NUMERIC == 1
Mode_ALPHANUMERIC == 2
Mode_BYTE == 4
Mode_ECI == 7
Mode_KANJI == 8

\* Mutant: the byte for the size is forgotten.
BUFFER_LEN_OF_MODULES(n) == (SizeOf(n) * SizeOf(n) + 7) \div 8

BUFFER_LEN_FOR_VERSION(n) == ((SizeOf(n) * SizeOf(n) + 7) \div 8) + 1

----------------------------------------------------------------------------
(* Segments.                                                                *)

qrcodegen_isNumeric(text) == \A i \in 1 .. Len(text) : 48 <= text[i] /\ text[i] <= 57
qrcodegen_isAlphanumeric(text) ==
  {text[i] : i \in 1 .. Len(text)} \subseteq {ALPHANUMERIC_CHARSET[j] : j \in 1 .. 45}

numCharCountBits(mode, ver) ==
  LET i == ((ver + 7) \div 17) + 1
  IN  CASE mode = Mode_NUMERIC -> <<10, 12, 14>>[i]
        [] mode = Mode_ALPHANUMERIC -> <<9, 11, 13>>[i]
        [] mode = Mode_BYTE -> <<8, 16, 16>>[i]
        [] mode = Mode_KANJI -> <<8, 10, 12>>[i]
        [] mode = Mode_ECI -> 0

calcSegmentBitLength(mode, numChars) ==
  LET result == CASE mode = Mode_NUMERIC -> (numChars * 10 + 2) \div 3
                  [] mode = Mode_ALPHANUMERIC -> (numChars * 11 + 1) \div 2
                  [] mode = Mode_BYTE -> numChars * 8
                  [] mode = Mode_KANJI -> numChars * 13
                  [] mode = Mode_ECI -> 3 * 8
  IN  IF numChars > INT16_MAX THEN LENGTH_OVERFLOW
      ELSE IF result > INT16_MAX THEN LENGTH_OVERFLOW ELSE result

qrcodegen_calcSegmentBufferSize(mode, numChars) ==
  LET temp == calcSegmentBitLength(mode, numChars)
  IN  IF temp = LENGTH_OVERFLOW THEN SIZE_MAX ELSE (temp + 7) \div 8

getTotalBits(ss, ver) ==
  LET result[i \in 0 .. Len(ss)] ==
        IF i = 0 THEN 0
        ELSE LET ccbits == numCharCountBits(ss[i].mode, ver)
                 sum == result[i - 1] + 4 + ccbits + ss[i].bitLength
             IN  IF result[i - 1] = LENGTH_OVERFLOW \/ ss[i].numChars >= 2^ccbits \/ sum > INT16_MAX
                 THEN LENGTH_OVERFLOW ELSE sum
  IN  result[Len(ss)]

\* A byte behind the end may hold anything; none of its bits is relied on.
At(buf, k) == IF k \in DOMAIN buf THEN buf[k] ELSE {}

\* Mutant: the buffer is not cleared.
memsetNot(buf, n) == buf

\* The first n bytes zero.
memset(buf, n) ==
  Computed([k \in DOMAIN buf \cup 0 .. n - 1 |-> IF k < n THEN {} ELSE buf[k]])

\* appendBitsToBuffer for a string of bits: they are or-ed to what is there.
appendBitsToBuffer(bits, buf, bitLen) ==
  Computed([k \in DOMAIN buf \cup {p \div 8 : p \in bitLen .. bitLen + Len(bits) - 1} |-> At(buf, k) \cup
     {j \in 0 .. 7 : LET p == 8 * k + 7 - j - bitLen
                     IN  p >= 0 /\ p < Len(bits) /\ bits[p + 1]}])

Segment(mode, numChars, bitLength) ==
  [mode |-> mode, numChars |-> numChars, bitLength |-> bitLength]

\* The segment and the buffer with its bits.
Made(mode, numChars, bits, buf) ==
  [seg |-> Segment(mode, numChars, Len(bits)),
   buf |-> appendBitsToBuffer(bits, memset(buf, (Len(bits) + 7) \div 8), 0)]

\* memcpy, which overwrites
qrcodegen_makeBytes(data, buf) ==
  [seg |-> Segment(Mode_BYTE, Len(data), calcSegmentBitLength(Mode_BYTE, Len(data))),
   buf |-> Computed([k \in DOMAIN buf \cup 0 .. Len(data) - 1 |->
                       IF k < Len(data) THEN BitsOf(data[k + 1]) ELSE buf[k]])]

qrcodegen_makeNumeric(digits, buf) ==
  Made(Mode_NUMERIC, Len(digits),
       InGroups([i \in 1 .. Len(digits) |-> digits[i] - 48], 10, <<4, 7, 10>>), buf)

qrcodegen_makeAlphanumeric(text, buf) ==
  Made(Mode_ALPHANUMERIC, Len(text),
       InGroups(Computed([i \in 1 .. Len(text) |-> CharValue(text[i])]), 45, <<6, 11>>), buf)

\* The upper 11 and the lower 10 bits of a large value are appended one by one.
qrcodegen_makeEci(assignVal, buf) ==
  Made(Mode_ECI, 0,
       CASE assignVal < 2^7 -> Bits(assignVal, 8)
         [] assignVal \in 2^7 .. 2^14 - 1 -> Bits(2, 2) \o Bits(assignVal, 14)
         [] assignVal >= 2^14 ->
              Bits(6, 3) \o Bits(assignVal \div 1024, 11) \o Bits(assignVal % 1024, 10), buf)

\* bitLength bits of the data of a segment.
SegmentBits(seg, data) == [j \in 1 .. seg.bitLength |-> 7 - ((j - 1) % 8) \in data[(j - 1) \div 8]]

----------------------------------------------------------------------------
(* Error correction.  data is cut in blocks; ecc is stored behind it.       *)

addEccAndInterleave(data, ver, level, result) ==
  LET numBlocks == NUM_ERROR_CORRECTION_BLOCKS[level + 1][ver]
      blockEccLen == ECC_CODEWORDS_PER_BLOCK[level + 1][ver]
      rawCodewords == getNumRawDataModules(ver) \div 8
      dataLen == getNumDataCodewords(ver, level)
      numShortBlocks == numBlocks - (rawCodewords % numBlocks)
      shortBlockDataLen == (rawCodewords \div numBlocks) - blockEccLen
      Start(i) == i * shortBlockDataLen + (IF i < numShortBlocks THEN 0 ELSE i - numShortBlocks)
      Ecc(rsdiv) == Computed([i \in 0 .. numBlocks - 1 |->
         reedSolomonComputeRemainder([j \in 1 .. Start(i + 1) - Start(i) |-> data[Start(i) + j - 1]], rsdiv)])
      \* what is copied to place k: whole rows of the short blocks, the last row of
      \* the long ones, the codewords of the error correction
      Copied(k, ecc) ==
        CASE k < shortBlockDataLen * numBlocks -> data[Start(k % numBlocks) + (k \div numBlocks)]
          [] k >= shortBlockDataLen * numBlocks /\ k < dataLen ->
               data[Start(numShortBlocks + k - shortBlockDataLen * numBlocks) + shortBlockDataLen]
          [] k >= dataLen -> ecc[(k - dataLen) % numBlocks][((k - dataLen) \div numBlocks) + 1]
  IN  Value({[data |-> Computed([k \in DOMAIN data \cup dataLen .. dataLen + blockEccLen - 1 |->
                          IF k >= dataLen /\ k < dataLen + blockEccLen
                          THEN ecc[numBlocks - 1][k - dataLen + 1] ELSE data[k]]),
              result |-> Computed([k \in DOMAIN result \cup 0 .. rawCodewords - 1 |->
                          IF k < rawCodewords THEN Copied(k, ecc) ELSE result[k]])] :
               ecc \in {Ecc(d) : d \in {reedSolomonComputeDivisor(blockEccLen)}}})

----------------------------------------------------------------------------
(* Modules: bit y * size + x of the bytes after the first, which is the size. *)

qrcodegen_getSize(buf) ==
  LET sum[b \in -1 .. 7] == IF b = -1 THEN 0 ELSE sum[b - 1] + (IF b \in buf[0] THEN 2^b ELSE 0)
  IN  sum[7]

getModuleBounded(buf, size, x, y) == ((y * size + x) % 8) \in buf[((y * size + x) \div 8) + 1]

qrcodegen_getModule(buf, x, y) ==
  LET size == qrcodegen_getSize(buf)
  IN  0 <= x /\ x < size /\ 0 <= y /\ y < size /\ getModuleBounded(buf, size, x, y)

DarkCells(buf) ==
  UNION {{p \in Cells(size) : getModuleBounded(buf, size, p[1], p[2])} :
           size \in {qrcodegen_getSize(buf)}}

\* setModuleBounded for the cells at, which become dark or light.
setModules(buf, at, dark) ==
  LET size == qrcodegen_getSize(buf)
      Index(S) == {p[2] * size + p[1] : p \in S}
      In(k, I) == {b \in 0 .. 7 : 8 * (k - 1) + b \in I}
  IN  Value({Computed([k \in DOMAIN buf \cup {(i \div 8) + 1 : i \in I} |->
                IF k = 0 THEN buf[0] ELSE (At(buf, k) \ In(k, I)) \cup In(k, J)]) :
               I \in {Index(at)}, J \in {Index(dark)}})

\* setModuleUnbounded: what is outside the symbol is left out.
setModulesUnbounded(buf, at, dark) ==
  LET inside == Cells(qrcodegen_getSize(buf)) IN setModules(buf, at \cap inside, dark \cap inside)

Rectangle(left, top, width, height) == (left .. left + width - 1) \X (top .. top + height - 1)

\* The size in the first byte, every function module dark.
initializeFunctionModules(ver, buf) ==
  LET size == SizeOf(ver)
      cleared == [memset(buf, ((size * size + 7) \div 8) + 1) EXCEPT ![0] = BitsOf(size)]
      function ==
        Rectangle(6, 0, 1, size) \cup Rectangle(0, 6, size, 1)
          \cup Rectangle(0, 0, 9, 9) \cup Rectangle(size - 8, 0, 8, 9) \cup Rectangle(0, size - 8, 9, 8)
          \cup UNION {Rectangle(c[1] - 2, c[2] - 2, 5, 5) : c \in AlignmentCentres(ver)}
          \cup (IF ver >= 7 THEN Rectangle(size - 11, 0, 3, 6) \cup Rectangle(0, size - 11, 6, 3) ELSE {})
  IN  setModules(cleared, function, function)

\* Timing, finder and alignment patterns, then the version.
drawLightFunctionModules(buf, ver) ==
  LET size == SizeOf(ver)
      timing == {p \in Cells(size) : \E i \in 7 .. size - 8 : i % 2 = 1 /\ p \in {<<6, i>>, <<i, 6>>}}
      rings == {p \in Around(3, 3, 4) \cup Around(size - 4, 3, 4) \cup Around(3, size - 4, 4) :
                  \E c \in {<<3, 3>>, <<size - 4, 3>>, <<3, size - 4>>} : Distance(p, c[1], c[2]) \in {2, 4}}
      timed == setModulesUnbounded(setModules(buf, timing, {}), rings, {})
      aligned == setModules(timed, UNION {Around(c[1], c[2], 1) : c \in AlignmentCentres(ver)},
                            AlignmentCentres(ver))
  IN  IF ver < 7 THEN aligned
      ELSE setModules(aligned, UNION {VersionPlaces(ver, i) : i \in 0 .. 17},
                      UNION {VersionPlaces(ver, i) : i \in VersionBits(ver)})

drawFormatBits(level, msk, buf) ==
  LET size == qrcodegen_getSize(buf)
  IN  setModules(buf, UNION {FormatPlaces(size, i) : i \in 0 .. 14} \cup {<<8, size - 8>>},
        UNION {FormatPlaces(size, i) : i \in FormatBits(level, msk)} \cup {<<8, size - 8>>})

\* The light cells are taken for the codewords.
drawCodewords(data, dataLen, buf) ==
  Value({setModules(buf, {free[i] : i \in 1 .. Least(dataLen * 8, Len(free))},
           {free[i] : i \in {i \in 1 .. Least(dataLen * 8, Len(free)) :
                                7 - ((i - 1) % 8) \in data[(i - 1) \div 8]}}) :
         free \in {SelectSeq(Zigzag(qrcodegen_getSize(buf)), LAMBDA p : p \notin dark) :
                     dark \in {DarkCells(buf)}}})

applyMask(functionModules, buf, msk) ==
  Value({setModules(buf, at, at \ dark) :
         at \in {{p \in Cells(qrcodegen_getSize(buf)) \ DarkCells(functionModules) : Inverts(msk, p[1], p[2])}},
         dark \in {DarkCells(buf)}})
=============================================================================
