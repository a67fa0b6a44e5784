------------------------------ MODULE QrTests ------------------------------
(***************************************************************************)
(* The test program of the library in C (c/qrcodegen-test.c): main runs    *)
(* the tests one after the other, an assert that fails aborts it.  A test  *)
(* is the sequence of its cases, each the conjunction of its asserts.  A   *)
(* loop over all versions runs over Versions, a loop over random modules   *)
(* over every sequence of trials at the Places; random data is chosen      *)
(* among Seeds, and a buffer that the test leaves uninitialized holds Junk. *)
(***************************************************************************)
EXTENDS QrBuffers

CONSTANTS Versions, Places, Seeds, Junk

VARIABLES
  test,          \* the test that main calls next
  numTestCases,
  aborted,       \* an assert has failed
  qrcode,        \* of testGetSetModuleRandomly, <<>> outside of it
  modules        \* its copy of the modules: the dark ones

vars == <<test, numTestCases, aborted, qrcode, modules>>

\* An uninitialized buffer, and one of zeros.
Uninitialized(n) == [k \in 0 .. n - 1 |-> Junk]
Zeros(n) == [k \in 0 .. n - 1 |-> {}]

\* The bytes of a buffer are these numbers.
Holds(buf, bytes) == \A i \in 1 .. Len(bytes) : buf[i - 1] = BitsOf(bytes[i])

\* Values appended to an empty buffer; n[i] bits each.
Appended(buf, vals, n) ==
  LET after[i \in 0 .. Len(vals)] ==
        IF i = 0 THEN [buf |-> buf, bitLen |-> 0]
        ELSE Value({[buf |-> appendBitsToBuffer(Bits(vals[i], n[i]), b.buf, b.bitLen),
                     bitLen |-> b.bitLen + n[i]] : b \in {after[i - 1]}})
  IN  after[Len(vals)]

testAppendBitsToBuffer ==
  LET first(i) == Appended(Zeros(1), SubSeq(<<0, 1, 0, 5, 6>>, 1, i), SubSeq(<<0, 1, 1, 3, 3>>, 1, i))
      second(i) == Appended(Zeros(6), SubSeq(<<16942, 10, 15, 26664>>, 1, i), SubSeq(<<16, 7, 4, 15>>, 1, i))
  IN  <<\A i \in 1 .. 5 :
          LET a == first(i) IN a.bitLen = <<0, 1, 2, 5, 8>>[i] /\ Holds(a.buf, <<<<0, 128, 128, 168, 174>>[i]>>),
        \A i \in 1 .. 4 :
          LET a == second(i)
          IN  /\ a.bitLen = <<16, 23, 27, 42>>[i]
              /\ Holds(a.buf, << <<66, 46, 0, 0, 0, 0>>, <<66, 46, 20, 0, 0, 0>>,
                                 <<66, 46, 21, 224, 0, 0>>, <<66, 46, 21, 250, 10, 0>> >>[i])>>

\* Blocks of equal length with a place for the padding of the short ones, then read
\* across, the padding left out.
addEccAndInterleaveReference(data, ver, ecl) ==
  LET numBlocks == NUM_ERROR_CORRECTION_BLOCKS[ecl + 1][ver]
      blockEccLen == ECC_CODEWORDS_PER_BLOCK[ecl + 1][ver]
      rawCodewords == getNumRawDataModules(ver) \div 8
      numShortBlocks == numBlocks - (rawCodewords % numBlocks)
      shortBlockLen == rawCodewords \div numBlocks
      datLen(i) == shortBlockLen - blockEccLen + (IF i < numShortBlocks THEN 0 ELSE 1)
      start[i \in 0 .. numBlocks] == IF i = 0 THEN 0 ELSE start[i - 1] + datLen(i - 1)
      Blocks(generator) == Computed([i \in 0 .. numBlocks - 1 |->
         LET dat == [j \in 1 .. datLen(i) |-> data[start[i] + j - 1]]
         IN  dat \o (IF i < numShortBlocks THEN <<"padding">> ELSE <<>>)
                 \o reedSolomonComputeRemainder(dat, generator)])
      Across(blocks) == [n \in 1 .. (shortBlockLen + 1) * numBlocks |->
                           [i |-> (n - 1) \div numBlocks, j |-> (n - 1) % numBlocks]]
  IN  Value({LET read == SelectSeq(Across(blocks),
                           LAMBDA p : p.i # shortBlockLen - blockEccLen \/ p.j >= numShortBlocks)
             IN  [k \in 0 .. Len(read) - 1 |-> blocks[read[k + 1].j][read[k + 1].i + 1]] :
             blocks \in {Blocks(g) : g \in {reedSolomonComputeDivisor(blockEccLen)}}})

\* In the order of the versions and levels.
testAddEccAndInterleave(seed) ==
  [n \in 1 .. Len(Versions) * 4 |->
     LET ver == Versions[((n - 1) \div 4) + 1]
         ecl == (n - 1) % 4
         raw == getNumRawDataModules(ver) \div 8
         dataLen == getNumDataCodewords(ver, ecl)
         pureData == Computed([i \in 0 .. dataLen - 1 |-> BitsOf((seed * (i + 3) * (i + 1) + i) % 256)])
         paddedData == [i \in 0 .. raw - 1 |-> IF i < dataLen THEN pureData[i] ELSE Junk]
     IN  addEccAndInterleave(paddedData, ver, ecl, Uninitialized(raw)).result
           = addEccAndInterleaveReference(pureData, ver, ecl)]

testGetNumDataCodewords ==
  LET cases == << <<3,1,44>>, <<3,2,34>>, <<3,3,26>>, <<6,0,136>>, <<7,0,156>>, <<9,0,232>>, <<9,1,182>>,
                  <<12,3,158>>, <<15,0,523>>, <<16,2,325>>, <<19,3,341>>, <<21,0,932>>, <<22,0,1006>>,
                  <<22,1,782>>, <<22,3,442>>, <<24,0,1174>>, <<24,3,514>>, <<28,0,1531>>, <<30,3,745>>,
                  <<32,3,845>>, <<33,0,2071>>, <<33,3,901>>, <<35,0,2306>>, <<35,1,1812>>, <<35,2,1286>>,
                  <<36,3,1054>>, <<37,3,1096>>, <<39,1,2216>>, <<40,1,2334>> >>
  IN  [i \in 1 .. Len(cases) |-> getNumDataCodewords(cases[i][1], cases[i][2]) = cases[i][3]]

testGetNumRawDataModules ==
  LET cases == << <<1,208>>, <<2,359>>, <<3,567>>, <<6,1383>>, <<7,1568>>, <<12,3728>>, <<15,5243>>,
                  <<18,7211>>, <<22,10068>>, <<26,13652>>, <<32,19723>>, <<37,25568>>, <<40,29648>> >>
  IN  [i \in 1 .. Len(cases) |-> getNumRawDataModules(cases[i][1]) = cases[i][2]]

\* The degree, and places with what they hold.
testReedSolomonComputeDivisor ==
  LET cases == << <<1, << <<0,1>> >> >>, <<2, << <<0,3>>, <<1,2>> >> >>,
                  <<5, << <<0,31>>, <<1,198>>, <<2,63>>, <<3,147>>, <<4,116>> >> >>,
                  <<30, << <<0,212>>, <<1,246>>, <<5,192>>, <<12,22>>, <<13,217>>, <<20,18>>,
                           <<27,106>>, <<29,150>> >> >> >>
  IN  [i \in 1 .. 4 |-> \E generator \in {reedSolomonComputeDivisor(cases[i][1])} :
         \A k \in 1 .. Len(cases[i][2]) : generator[cases[i][2][k][1] + 1] = BitsOf(cases[i][2][k][2])]

testReedSolomonComputeRemainder ==
  LET long == <<56, 113, 219, 249, 215, 40, 246, 142, 254, 94, 230, 125, 125, 178, 165, 88, 188, 40, 35, 83,
                20, 213, 97, 192, 32, 108, 222, 222, 252, 121, 176, 139, 120, 107, 73, 208, 26, 173, 243, 239,
                82, 125, 154>>
      Remainder(data, degree) ==
        reedSolomonComputeRemainder([i \in 1 .. Len(data) |-> BitsOf(data[i])], reedSolomonComputeDivisor(degree))
  IN  <<Remainder(<<>>, 3) = <<{}, {}, {}>>,
        Remainder(<<0, 1>>, 4) = reedSolomonComputeDivisor(4),
        Remainder(<<3, 58, 96, 18, 199>>, 5) = <<BitsOf(203), BitsOf(54), BitsOf(22), BitsOf(250), BitsOf(157)>>,
        \E r \in {Remainder(long, 30)} :
          \A c \in {<<0,206>>, <<1,240>>, <<2,49>>, <<3,222>>, <<8,225>>, <<12,202>>, <<17,227>>, <<19,133>>,
                    <<20,80>>, <<24,190>>, <<29,179>>} : r[c[1] + 1] = BitsOf(c[2])>>

testReedSolomonMultiply ==
  LET cases == << <<0,0,0>>, <<1,1,1>>, <<2,2,4>>, <<0,110,0>>, <<178,221,230>>, <<65,17,37>>, <<176,31,17>>,
                  <<5,117,188>>, <<82,181,174>>, <<168,32,164>>, <<14,68,159>>, <<212,19,160>>, <<49,16,55>>,
                  <<108,88,203>>, <<182,117,62>>, <<255,255,226>> >>
  IN  [i \in 1 .. Len(cases) |->
         reedSolomonMultiply(BitsOf(cases[i][1]), BitsOf(cases[i][2])) = BitsOf(cases[i][3])]

testInitializeFunctionModulesEtc ==
  [i \in 1 .. Len(Versions) |->
     LET ver == Versions[i]
     IN  \E code \in {initializeFunctionModules(ver, Uninitialized(BUFFER_LEN_FOR_VERSION(ver)))} :
           /\ qrcodegen_getSize(code) = CASE ver = 1 -> 21 [] ver = 40 -> 177 [] ver \notin {1, 40} -> ver * 4 + 17
           /\ DarkCells(code) \notin {{}, Cells(ver * 4 + 17)}]

testGetAlignmentPatternPositions ==
  LET cases == << <<1, <<>> >>, <<2, <<6, 18>> >>, <<3, <<6, 22>> >>, <<6, <<6, 34>> >>, <<7, <<6, 22, 38>> >>,
                  <<8, <<6, 24, 42>> >>, <<16, <<6, 26, 50, 74>> >>, <<25, <<6, 32, 58, 84, 110>> >>,
                  <<32, <<6, 34, 60, 86, 112, 138>> >>, <<33, <<6, 30, 58, 86, 114, 142>> >>,
                  <<39, <<6, 26, 54, 82, 110, 138, 166>> >>, <<40, <<6, 30, 58, 86, 114, 142, 170>> >> >>
  IN  [i \in 1 .. Len(cases) |-> getAlignmentPatternPositions(cases[i][1]) = cases[i][2]]

testGetSetModule ==
  LET size == SizeOf(23)
      Clear(code) == setModules(code, Cells(size), {})
      Dark(code) == setModules(code, Cells(size), Cells(size))
      outside == {<<-1, -1>>, <<-1, 0>>, <<0, -1>>, <<size, 5>>, <<72, size>>, <<size, size>>}
      some == {<<3, 8>>, <<61, 49>>}
  IN  <<\E start \in {initializeFunctionModules(23, Uninitialized(BUFFER_LEN_FOR_VERSION(23)))} :
        \E light \in {Clear(start)} : \E dark \in {Dark(light)} : \E kept \in {setModulesUnbounded(dark, outside, {})} :
          /\ qrcodegen_getSize(start) = size
          /\ DarkCells(light) = {}
          /\ DarkCells(dark) = Cells(size)
          /\ DarkCells(kept) = Cells(size)
          /\ DarkCells(setModules(kept, some, {})) = Cells(size) \ some>>

\* "", "0", "A", "a", " ", ".", "*", ",", "|", "@", "XYZ", "XYZ!", "79068", "+123 ABC$", 01, 7F, 80, C0, FF
TextCases == << <<>>, <<48>>, <<65>>, <<97>>, <<32>>, <<46>>, <<42>>, <<44>>, <<124>>, <<64>>, <<88, 89, 90>>,
                <<88, 89, 90, 33>>, <<55, 57, 48, 54, 56>>, <<43, 49, 50, 51, 32, 65, 66, 67, 36>>,
                <<1>>, <<127>>, <<128>>, <<192>>, <<255>> >>

testIsAlphanumeric ==
  [i \in 1 .. 19 |-> qrcodegen_isAlphanumeric(TextCases[i]) = (i \in {1, 2, 3, 5, 6, 7, 11, 13, 14})]

testIsNumeric == [i \in 1 .. 19 |-> qrcodegen_isNumeric(TextCases[i]) = (i \in {1, 2, 13})]

\* SIZE_MAX divided by a few small numbers, in place of the many of the test.
Huge == <<SIZE_MAX \div 16, SIZE_MAX \div 6, SIZE_MAX \div 2, SIZE_MAX>>

\* Lengths at which the size of the buffer is finite, the sizes, and lengths at which it
\* is SIZE_MAX.
BufferSizeCases ==
  << <<Mode_NUMERIC, <<0, 1, 2, 3, 4, 5, 6, 1472, 2097, 5326, 9828, 9829, 9830>>,
       <<0, 1, 1, 2, 2, 3, 3, 614, 874, 2220, 4095, 4096, 4096>>, <<9831, 9832, 12000, 28453, 55555>> \o Huge>>,
     <<Mode_ALPHANUMERIC, <<0, 1, 2, 3, 4, 5, 6, 1472, 2097, 5326, 5955, 5956, 5957>>,
       <<0, 1, 2, 3, 3, 4, 5, 1012, 1442, 3662, 4095, 4095, 4096>>, <<5958, 5959, 12000, 28453, 55555>> \o Huge>>,
     <<Mode_BYTE, <<0, 1, 2, 3, 1472, 2097, 4094, 4095>>,
       <<0, 1, 2, 3, 1472, 2097, 4094, 4095>>, <<4096, 4097, 5957, 12000, 28453, 55555>> \o Huge>>,
     <<Mode_KANJI, <<0, 1, 2, 3, 1472, 2097, 2519, 2520>>,
       <<0, 2, 4, 5, 2392, 3408, 4094, 4095>>, <<2521, 5957, 2522, 12000, 28453, 55555>> \o Huge>>,
     <<Mode_ECI, <<0>>, <<3>>, <<>> >> >>

\* The cases of a table, of which Of(mode, length) gives the value, in one sequence.
testCalcSegmentBufferSize ==
  LET Cases(c) == [i \in 1 .. Len(c[2]) |-> qrcodegen_calcSegmentBufferSize(c[1], c[2][i]) = c[3][i]]
                    \o [i \in 1 .. Len(c[4]) |-> qrcodegen_calcSegmentBufferSize(c[1], c[4][i]) = SIZE_MAX]
      b == BufferSizeCases
  IN  Cases(b[1]) \o Cases(b[2]) \o Cases(b[3]) \o Cases(b[4]) \o Cases(b[5])

\* The same lengths and their bits.
testCalcSegmentBitLength ==
  LET bits == << <<0, 4, 7, 10, 14, 17, 20, 4907, 6990, 17754, 32760, 32764, 32767>>,
                 <<0, 6, 11, 17, 22, 28, 33, 8096, 11534, 29293, 32753, 32758, 32764>>,
                 <<0, 8, 16, 24, 11776, 16776, 32752, 32760>>,
                 <<0, 13, 26, 39, 19136, 27261, 32747, 32760>>, <<24>> >>
      Cases(c, n) == [i \in 1 .. Len(c[2]) |-> calcSegmentBitLength(c[1], c[2][i]) = bits[n][i]]
                       \o [i \in 1 .. Len(c[4]) |-> calcSegmentBitLength(c[1], c[4][i]) = LENGTH_OVERFLOW]
      b == BufferSizeCases
  IN  Cases(b[1], 1) \o Cases(b[2], 2) \o Cases(b[3], 3) \o Cases(b[4], 4) \o Cases(b[5], 5)

\* A made segment has this mode, length and number of bits, and these bytes.
Makes(made, mode, numChars, bitLength, bytes) ==
  made.seg = Segment(mode, numChars, bitLength) /\ Holds(made.buf, bytes)

testMakeBytes ==
  <<Makes(qrcodegen_makeBytes(<<>>, Uninitialized(0)), Mode_BYTE, 0, 0, <<>>),
    Makes(qrcodegen_makeBytes(<<0>>, Uninitialized(1)), Mode_BYTE, 1, 8, <<0>>),
    Makes(qrcodegen_makeBytes(<<239, 187, 191>>, Uninitialized(3)), Mode_BYTE, 3, 24, <<239, 187, 191>>)>>

\* "", "9", "81", "673", "3141592653"
testMakeNumeric ==
  <<Makes(qrcodegen_makeNumeric(<<>>, Uninitialized(0)), Mode_NUMERIC, 0, 0, <<>>),
    Makes(qrcodegen_makeNumeric(<<57>>, Uninitialized(1)), Mode_NUMERIC, 1, 4, <<144>>),
    Makes(qrcodegen_makeNumeric(<<56, 49>>, Uninitialized(1)), Mode_NUMERIC, 2, 7, <<162>>),
    Makes(qrcodegen_makeNumeric(<<54, 55, 51>>, Uninitialized(2)), Mode_NUMERIC, 3, 10, <<168, 64>>),
    Makes(qrcodegen_makeNumeric(<<51, 49, 52, 49, 53, 57, 50, 54, 53, 51>>, Uninitialized(5)),
          Mode_NUMERIC, 10, 34, <<78, 137, 244, 36, 192>>)>>

\* "", "A", "%:", "Q R"
testMakeAlphanumeric ==
  <<Makes(qrcodegen_makeAlphanumeric(<<>>, Uninitialized(0)), Mode_ALPHANUMERIC, 0, 0, <<>>),
    Makes(qrcodegen_makeAlphanumeric(<<65>>, Uninitialized(1)), Mode_ALPHANUMERIC, 1, 6, <<40>>),
    Makes(qrcodegen_makeAlphanumeric(<<37, 58>>, Uninitialized(2)), Mode_ALPHANUMERIC, 2, 11, <<219, 64>>),
    Makes(qrcodegen_makeAlphanumeric(<<81, 32, 82>>, Uninitialized(3)), Mode_ALPHANUMERIC, 3, 17, <<150, 205, 128>>)>>

testMakeEci ==
  <<Makes(qrcodegen_makeEci(127, Uninitialized(1)), Mode_ECI, 0, 8, <<127>>),
    Makes(qrcodegen_makeEci(10345, Uninitialized(2)), Mode_ECI, 0, 16, <<168, 105>>),
    Makes(qrcodegen_makeEci(999999, Uninitialized(3)), Mode_ECI, 0, 24, <<207, 66, 63>>)>>

\* Segments, versions, results.
testGetTotalBits ==
  LET Times(n, seg) == [i \in 1 .. n |-> seg]
      cases == << <<<<>>, <<1, 40>>, <<0, 0>>>>,
        <<<<Segment(Mode_BYTE, 3, 24)>>, <<2, 10, 39>>, <<36, 44, 44>>>>,
        <<<<Segment(Mode_ECI, 0, 8), Segment(Mode_NUMERIC, 7, 24), Segment(Mode_ALPHANUMERIC, 1, 6),
            Segment(Mode_KANJI, 4, 52)>>, <<9, 21, 27>>, <<133, 139, 145>>>>,
        <<<<Segment(Mode_BYTE, 4093, 32744)>>, <<1, 10, 27>>, <<-1, 32764, 32764>>>>,
        <<Times(4, Segment(Mode_NUMERIC, 2047, 6824)) \o <<Segment(Mode_NUMERIC, 1617, 5390)>>,
          <<1, 10, 27>>, <<-1, 32766, -1>>>>,
        <<Times(9, Segment(Mode_KANJI, 255, 3315)) \o <<Segment(Mode_ALPHANUMERIC, 511, 2811)>>,
          <<9, 26, 40>>, <<32767, -1, -1>>>> >>
      Cases(c) == [i \in 1 .. Len(c[2]) |-> getTotalBits(c[1], c[2][i]) = c[3][i]]
  IN  Cases(cases[1]) \o Cases(cases[2]) \o Cases(cases[3]) \o Cases(cases[4]) \o Cases(cases[5]) \o Cases(cases[6])

----------------------------------------------------------------------------

\* The order of main; the test of random modules is number 11.
Cases(n, seed) ==
  CASE n = 1 -> testAppendBitsToBuffer
    [] n = 2 -> testAddEccAndInterleave(seed)
    [] n = 3 -> testGetNumDataCodewords
    [] n = 4 -> testGetNumRawDataModules
    [] n = 5 -> testReedSolomonComputeDivisor
    [] n = 6 -> testReedSolomonComputeRemainder
    [] n = 7 -> testReedSolomonMultiply
    [] n = 8 -> testInitializeFunctionModulesEtc
    [] n = 9 -> testGetAlignmentPatternPositions
    [] n = 10 -> testGetSetModule
    [] n = 12 -> testIsAlphanumeric
    [] n = 13 -> testIsNumeric
    [] n = 14 -> testCalcSegmentBufferSize
    [] n = 15 -> testCalcSegmentBitLength
    [] n = 16 -> testMakeBytes
    [] n = 17 -> testMakeNumeric
    [] n = 18 -> testMakeAlphanumeric
    [] n = 19 -> testMakeEci
    [] n = 20 -> testGetTotalBits

Random == 11
Last == 20

Init ==
  /\ test = 1
  /\ numTestCases = 0
  /\ aborted = FALSE
  /\ qrcode = <<>>
  /\ modules = {}

RunTest ==
  /\ ~aborted
  /\ test \in 1 .. Last
  /\ test # Random
  /\ \E seed \in Seeds : \E cases \in {Cases(test, seed)} :
       /\ aborted' = (\E i \in 1 .. Len(cases) : ~cases[i])
       /\ numTestCases' = numTestCases + Len(cases)
  /\ test' = test + 1
  /\ UNCHANGED <<qrcode, modules>>

\* testGetSetModuleRandomly: the copy of the function modules.
BeginTrials ==
  /\ ~aborted
  /\ test = Random
  /\ qrcode = <<>>
  /\ qrcode' = initializeFunctionModules(1, Uninitialized(BUFFER_LEN_FOR_VERSION(1)))
  /\ modules' = {p \in Cells(21) : qrcodegen_getModule(qrcode', p[1], p[2])}
  /\ UNCHANGED <<test, numTestCases, aborted>>

\* One trial: the old colour is asserted, then a new one is set, through either function
\* if the place is inside.
Trial(p, newColor, bounded) ==
  LET size == qrcodegen_getSize(qrcode)
      isInBounds == 0 <= p[1] /\ p[1] < size /\ 0 <= p[2] /\ p[2] < size
      oldColor == isInBounds /\ p \in modules
      dark == IF newColor THEN {p} ELSE {}
  IN  /\ ~aborted
      /\ test = Random
      /\ qrcode # <<>>
      /\ bounded => isInBounds
      /\ aborted' = ~(/\ isInBounds => getModuleBounded(qrcode, size, p[1], p[2]) = oldColor
                      /\ qrcodegen_getModule(qrcode, p[1], p[2]) = oldColor)
      /\ modules' = IF isInBounds THEN Listed((modules \ {p}) \cup dark) ELSE modules
      /\ qrcode' = IF bounded THEN setModules(qrcode, {p}, dark) ELSE setModulesUnbounded(qrcode, {p}, dark)
      /\ UNCHANGED <<test, numTestCases>>

EndTrials ==
  /\ ~aborted
  /\ test = Random
  /\ qrcode # <<>>
  /\ qrcode' = <<>>
  /\ modules' = {}
  /\ numTestCases' = numTestCases + 1
  /\ test' = test + 1
  /\ UNCHANGED aborted

Next ==
  \/ RunTest
  \/ BeginTrials
  \/ \E p \in Places, newColor \in BOOLEAN, bounded \in BOOLEAN : Trial(p, newColor, bounded)
  \/ EndTrials

Spec == Init /\ [][Next]_vars
=============================================================================
