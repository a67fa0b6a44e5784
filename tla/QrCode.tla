------------------------------- MODULE QrCode -------------------------------
(***************************************************************************)
(* The class QrCode of qrcodegen.cpp, from the text that MakeQRCode passes *)
(* to encodeText to the finished symbol.  The modules are the set of dark  *)
(* cells <<x, y>>, isFunction the set of the cells of function patterns.   *)
(***************************************************************************)
EXTENDS QrSegment, QrLayout

CONSTANT Requests  \* the calls: a text, or bytes to be taken as binary, and the
                   \* arguments of encodeSegments

LOW == 0
HIGH == 3

VARIABLES
  request,               \* what is being encoded, or NoCall
  version,
  errorCorrectionLevel,
  codewords,             \* dataCodewords
  modules,
  isFunction,
  mask,
  minPenalty,            \* the least penalty so far, or Nothing
  trial,                 \* i of the loop over the masks
  pc                     \* "idle", "encode", "construct", "try", "undo", "final", "done" or "too long"

symbol == <<version, errorCorrectionLevel, codewords, modules, isFunction, mask>>
vars == <<request, symbol, minPenalty, trial, pc>>

Nothing == -1

----------------------------------------------------------------------------
Suits(segs, ver, ecl) ==
  LET used == getTotalBits(segs, ver)
  IN  used # -1 /\ used <= getNumDataCodewords(ver, ecl) * 8

\* The last level of the loop whose capacity is enough.
Boosted(segs, ver, ecl, boostEcl) ==
  LET better == {e \in LOW + 1 .. HIGH : Suits(segs, ver, e)}
  IN  IF boostEcl /\ better # {} THEN CHOOSE e \in better : \A f \in better : f <= e ELSE ecl

----------------------------------------------------------------------------
\* Mutant: the padding of the short blocks is not skipped but the last codewords are.
IsPaddingNot(i, j, dataLen, numShortBlocks) == FALSE

\* Place i of short block j, which has no data there.
IsPadding(i, j, dataLen, numShortBlocks) == i = dataLen /\ j < numShortBlocks

addEccAndInterleave(data, ver, ecl) ==
  LET numBlocks == NUM_ERROR_CORRECTION_BLOCKS[ecl + 1][ver]
      blockEccLen == ECC_CODEWORDS_PER_BLOCK[ecl + 1][ver]
      rawCodewords == getNumRawDataModules(ver) \div 8
      numShortBlocks == numBlocks - (rawCodewords % numBlocks)
      dataLen == (rawCodewords \div numBlocks) - blockEccLen
      Longer(i) == IF i < numShortBlocks THEN 0 ELSE i - numShortBlocks
      Blocks(rsDiv) == Computed([i \in 0 .. numBlocks - 1 |->
         LET dat == SubSeq(data, i * dataLen + Longer(i) + 1, (i + 1) * dataLen + Longer(i + 1))
         IN  dat \o (IF i < numShortBlocks THEN <<{}>> ELSE <<>>)
                 \o reedSolomonComputeRemainder(dat, rsDiv)])
      places == SelectSeq([n \in 1 .. numBlocks * (dataLen + 1 + blockEccLen) |->
                             <<(n - 1) \div numBlocks, (n - 1) % numBlocks>>],
                          LAMBDA p : ~IsPadding(p[1], p[2], dataLen, numShortBlocks))
  IN  Value({Computed([n \in 1 .. Len(at) |-> blocks[at[n][2]][at[n][1] + 1]]) :
               blocks \in {Blocks(d) : d \in {reedSolomonComputeDivisor(blockEccLen)}},
               at \in {places}})

----------------------------------------------------------------------------
(* Drawing.  q is a record of modules and isFunction.                       *)

\* setFunctionModule for the cells at, of which dark are dark.
setFunctionModules(q, at, dark) ==
  [modules |-> Listed((q.modules \ at) \cup dark), isFunction |-> Listed(q.isFunction \cup at)]

drawFinderPattern(q, size, x, y) ==
  LET at == Around(x, y, 4) \cap Cells(size)
  IN  setFunctionModules(q, at, {p \in at : Distance(p, x, y) \notin {2, 4}})

drawAlignmentPatterns(q, ver) ==
  setFunctionModules(q, UNION {Around(c[1], c[2], 2) : c \in AlignmentCentres(ver)},
    UNION {{p \in Around(c[1], c[2], 2) : Distance(p, c[1], c[2]) # 1} : c \in AlignmentCentres(ver)})

drawFormatBits(q, size, ecl, msk) ==
  setFunctionModules(q, UNION {FormatPlaces(size, i) : i \in 0 .. 14} \cup {<<8, size - 8>>},
    UNION {FormatPlaces(size, i) : i \in FormatBits(ecl, msk)} \cup {<<8, size - 8>>})

drawVersion(q, ver) ==
  IF ver < 7 THEN q
  ELSE setFunctionModules(q, UNION {VersionPlaces(ver, i) : i \in 0 .. 17},
                          UNION {VersionPlaces(ver, i) : i \in VersionBits(ver)})

drawFunctionPatterns(ver, ecl) ==
  LET size == SizeOf(ver)
      timing == {p \in Cells(size) : 6 \in {p[1], p[2]}}
      timed == setFunctionModules([modules |-> {}, isFunction |-> {}], timing,
                 {p \in timing : (p[1] = 6 /\ p[2] % 2 = 0) \/ (p[2] = 6 /\ p[1] % 2 = 0)})
      found == drawFinderPattern(drawFinderPattern(drawFinderPattern(timed, size, 3, 3),
                                                   size, size - 4, 3), size, 3, size - 4)
  IN  drawVersion(drawFormatBits(drawAlignmentPatterns(found, ver), size, ecl, 0), ver)

drawCodewords(q, size, data) ==
  LET bits == {i \in 1 .. Len(data) * 8 : 7 - ((i - 1) % 8) \in data[((i - 1) \div 8) + 1]}
  IN  q.modules \cup
        UNION {{free[i] : i \in bits \cap 1 .. Len(free)} :
                 free \in {SelectSeq(Zigzag(size), LAMBDA p : p \notin q.isFunction)}}

applyMask(q, size, msk) ==
  [q EXCEPT !.modules =
     Listed(XorSet(@, {p \in Cells(size) \ q.isFunction : Inverts(msk, p[1], p[2])}))]

----------------------------------------------------------------------------

Init ==
  /\ request = NoCall
  /\ version = 0
  /\ errorCorrectionLevel = LOW
  /\ codewords = <<>>
  /\ modules = {}
  /\ isFunction = {}
  /\ mask = -1
  /\ minPenalty = Nothing
  /\ trial = 0
  /\ pc = "idle"

\* A call of encodeText or encodeBinary, which makes a new object.
Call(r) ==
  /\ pc = "idle"
  /\ request' = r
  /\ errorCorrectionLevel' = r.ecl
  /\ mask' = r.mask
  /\ pc' = "encode"
  /\ UNCHANGED <<version, codewords, modules, isFunction, minPenalty, trial>>

\* encodeText or encodeBinary
RequestSegments ==
  IF request.binary THEN <<makeBytes(request.text)>> ELSE makeSegments(request.text)

\* No version of the range is large enough.
dataTooLong ==
  LET segs == RequestSegments
  IN  /\ pc = "encode"
      /\ \A v \in request.minVersion .. request.maxVersion : ~Suits(segs, v, request.ecl)
      /\ pc' = "too long"
      /\ UNCHANGED <<request, symbol, minPenalty, trial>>

\* encodeText and encodeSegments: the least version, the best level, the bytes.
\* (\E x \in {e} names the value of e.)
encodeSegments ==
  /\ pc = "encode"
  /\ \E segs \in {RequestSegments} :
     \E v \in request.minVersion .. request.maxVersion :
       /\ Suits(segs, v, request.ecl)
       /\ \A w \in request.minVersion .. v - 1 : ~Suits(segs, w, request.ecl)
       /\ version' = v
       /\ errorCorrectionLevel' = Boosted(segs, v, request.ecl, request.boostEcl)
       /\ codewords' = Codewords(Computed(Padded(Computed(Concatenated(segs, v)),
                         getNumDataCodewords(v, errorCorrectionLevel') * 8)))
  /\ pc' = "construct"
  /\ UNCHANGED <<request, modules, isFunction, mask, minPenalty, trial>>

\* The constructor up to the masks.
Construct ==
  /\ pc = "construct"
  /\ \E q \in {drawFunctionPatterns(version, errorCorrectionLevel)} :
       /\ modules' = drawCodewords(q, SizeOf(version),
                       Computed(addEccAndInterleave(codewords, version, errorCorrectionLevel)))
       /\ isFunction' = q.isFunction
  /\ pc' = IF mask = -1 THEN "try" ELSE "final"
  /\ UNCHANGED <<request, version, errorCorrectionLevel, codewords, mask, minPenalty, trial>>

Masked(msk) ==
  drawFormatBits(applyMask([modules |-> modules, isFunction |-> isFunction], SizeOf(version), msk),
                 SizeOf(version), errorCorrectionLevel, msk)

Better(penalty, least) == least = Nothing \/ penalty < least

\* A mask is applied and its penalty compared.
TryMask ==
  /\ pc = "try"
  /\ modules' = Masked(trial).modules
  /\ \E penalty \in {getPenaltyScore(modules', SizeOf(version))} :
       /\ mask' = IF Better(penalty, minPenalty) THEN trial ELSE mask
       /\ minPenalty' = IF Better(penalty, minPenalty) THEN penalty ELSE minPenalty
  /\ pc' = "undo"
  /\ UNCHANGED <<request, version, errorCorrectionLevel, codewords, isFunction, trial>>

\* The second applyMask takes the mask away; the format bits stay.
UndoMask ==
  /\ pc = "undo"
  /\ modules' = applyMask([modules |-> modules, isFunction |-> isFunction],
                          SizeOf(version), trial).modules
  /\ trial' = trial + 1
  /\ pc' = IF trial = 7 THEN "final" ELSE "try"
  /\ UNCHANGED <<request, version, errorCorrectionLevel, codewords, isFunction, mask, minPenalty>>

\* The final choice; isFunction is cleared.
Finish ==
  /\ pc = "final"
  /\ modules' = Masked(mask).modules
  /\ isFunction' = {}
  /\ pc' = "done"
  /\ UNCHANGED <<request, version, errorCorrectionLevel, codewords, mask, minPenalty, trial>>

Encode == dataTooLong \/ encodeSegments \/ Construct \/ TryMask \/ UndoMask \/ Finish

Next == Encode \/ \E r \in Requests : Call(r)

Spec == Init /\ [][Next]_vars
=============================================================================
