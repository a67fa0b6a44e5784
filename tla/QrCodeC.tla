------------------------------ MODULE QrCodeC ------------------------------
(***************************************************************************)
(* The library in C (lib/qrcodegen.c), which works in the two buffers of   *)
(* its caller: the data of the segment in tempBuffer, then the codewords   *)
(* in qrcode, then the interleaved codewords in tempBuffer, then the       *)
(* modules in qrcode and the map of function modules in tempBuffer.        *)
(***************************************************************************)
EXTENDS QrBuffers

CONSTANTS
  Requests,  \* calls of encodeText or encodeBinary
  Fresh      \* what the bytes of a buffer may hold before the call

VARIABLES
  request,
  tempBuffer,
  qrcode,
  segs,        \* segments: mode, numChars and bitLength; the data is in tempBuffer
  version,
  ecl,
  mask,
  minPenalty,  \* or Nothing
  trial,       \* i of the loop over the masks
  pc

vars == <<request, tempBuffer, qrcode, segs, version, ecl, mask, minPenalty, trial, pc>>

Nothing == -1

----------------------------------------------------------------------------

Init ==
  /\ request = NoCall
  /\ tempBuffer = <<>>
  /\ qrcode = <<>>
  /\ segs = <<>>
  /\ version = 0
  /\ ecl = 0
  /\ mask = -1
  /\ minPenalty = Nothing
  /\ trial = 0
  /\ pc = "idle"

\* A call with the buffers of the caller, whose bytes are f except for binary data.
Call(r, f) ==
  /\ pc = "idle"
  /\ request' = r
  /\ tempBuffer' = [k \in 0 .. BUFFER_LEN_FOR_VERSION(r.maxVersion) - 1 |->
                      IF r.binary /\ k < Len(r.text) THEN BitsOf(r.text[k + 1]) ELSE f]
  /\ qrcode' = [k \in 0 .. BUFFER_LEN_FOR_VERSION(r.maxVersion) - 1 |-> f]
  /\ ecl' = r.ecl
  /\ mask' = r.mask
  /\ pc' = "text"
  /\ UNCHANGED <<segs, version, minPenalty, trial>>

\* The invalid size, for safety.
Fail ==
  /\ qrcode' = [qrcode EXCEPT ![0] = {}]
  /\ pc' = "failed"
  /\ UNCHANGED <<request, tempBuffer, segs, version, ecl, mask, minPenalty, trial>>

\* The mode of a text, and the bytes its segment needs.
TextMode ==
  IF request.binary THEN Mode_BYTE
  ELSE IF qrcodegen_isNumeric(request.text) THEN Mode_NUMERIC
  ELSE IF qrcodegen_isAlphanumeric(request.text) THEN Mode_ALPHANUMERIC
  ELSE Mode_BYTE

\* encodeBinary only looks at the length in bits: the bytes are in the buffer already.
TextFits ==
  /\ TextMode = Mode_BYTE => calcSegmentBitLength(Mode_BYTE, Len(request.text)) # LENGTH_OVERFLOW
  /\ ~request.binary => qrcodegen_calcSegmentBufferSize(TextMode, Len(request.text))
                          <= BUFFER_LEN_FOR_VERSION(request.maxVersion)

\* An empty text has no segment.
qrcodegen_encodeText ==
  /\ pc = "text"
  /\ ~request.binary
  /\ Len(request.text) > 0 => TextFits
  /\ \E made \in {CASE TextMode = Mode_NUMERIC -> qrcodegen_makeNumeric(request.text, tempBuffer)
                    [] TextMode = Mode_ALPHANUMERIC -> qrcodegen_makeAlphanumeric(request.text, tempBuffer)
                    [] TextMode = Mode_BYTE -> qrcodegen_makeBytes(request.text, tempBuffer)} :
       /\ segs' = IF Len(request.text) = 0 THEN <<>> ELSE <<made.seg>>
       /\ tempBuffer' = IF Len(request.text) = 0 THEN tempBuffer ELSE made.buf
  /\ pc' = "segments"
  /\ UNCHANGED <<request, qrcode, version, ecl, mask, minPenalty, trial>>

\* The data is in dataAndTemp.
qrcodegen_encodeBinary ==
  /\ pc = "text"
  /\ request.binary
  /\ TextFits
  /\ segs' = <<Segment(Mode_BYTE, Len(request.text), calcSegmentBitLength(Mode_BYTE, Len(request.text)))>>
  /\ pc' = "segments"
  /\ UNCHANGED <<request, tempBuffer, qrcode, version, ecl, mask, minPenalty, trial>>

TextTooLong ==
  /\ pc = "text"
  /\ request.binary \/ Len(request.text) > 0
  /\ ~TextFits
  /\ Fail

Suits(ver, level) ==
  LET used == getTotalBits(segs, ver)
  IN  used # LENGTH_OVERFLOW /\ used <= getNumDataCodewords(ver, level) * 8

SegmentsTooLong ==
  /\ pc = "segments"
  /\ \A v \in request.minVersion .. request.maxVersion : ~Suits(v, request.ecl)
  /\ Fail

DataBits(ver, level) ==
  LET head == IF segs = <<>> THEN <<>>
              ELSE Bits(segs[1].mode, 4) \o Bits(segs[1].numChars, numCharCountBits(segs[1].mode, ver))
                     \o SegmentBits(segs[1], tempBuffer)
      capacity == getNumDataCodewords(ver, level) * 8
      terminated == Len(head) + Least(4, capacity - Len(head))
      whole == terminated + ((8 - (terminated % 8)) % 8)
      Zeros(n) == [i \in 1 .. n |-> FALSE]
  IN  head \o Zeros(whole - Len(head))
        \o [i \in 1 .. capacity - whole |->
              getBit(IF ((i - 1) \div 8) % 2 = 0 THEN 236 ELSE 17, 7 - ((i - 1) % 8))]

\* The least version and the best level; the codewords go to qrcode.
EncodeData ==
  /\ pc = "segments"
  /\ \E v \in request.minVersion .. request.maxVersion :
       /\ Suits(v, request.ecl)
       /\ \A w \in request.minVersion .. v - 1 : ~Suits(w, request.ecl)
       /\ version' = v
       /\ ecl' = LET better == {e \in 1 .. 3 : request.boostEcl /\ Suits(v, e)}
                 IN  IF better = {} THEN ecl ELSE CHOOSE e \in better : \A f \in better : f <= e
       /\ \E bits \in {Computed(DataBits(v, ecl'))} :
            qrcode' = appendBitsToBuffer(bits, memset(qrcode, BUFFER_LEN_FOR_VERSION(v)), 0)
  /\ pc' = "data"
  /\ UNCHANGED <<request, tempBuffer, segs, mask, minPenalty, trial>>

\* Error correction into tempBuffer, then both buffers are drawn over.
Draw ==
  /\ pc = "data"
  /\ \E coded \in {addEccAndInterleave(qrcode, version, ecl, tempBuffer)} :
       /\ qrcode' = drawLightFunctionModules(
                      drawCodewords(coded.result, getNumRawDataModules(version) \div 8,
                                    initializeFunctionModules(version, coded.data)), version)
       /\ tempBuffer' = initializeFunctionModules(version, coded.result)
  /\ pc' = IF mask = -1 THEN "try" ELSE "final"
  /\ UNCHANGED <<request, segs, version, ecl, mask, minPenalty, trial>>

TryMask ==
  /\ pc = "try"
  /\ qrcode' = drawFormatBits(ecl, trial, applyMask(tempBuffer, qrcode, trial))
  /\ \E penalty \in {getPenaltyScore(DarkCells(qrcode'), SizeOf(version))} :
       IF minPenalty = Nothing \/ penalty < minPenalty
       THEN mask' = trial /\ minPenalty' = penalty
       ELSE UNCHANGED <<mask, minPenalty>>
  /\ pc' = "undo"
  /\ UNCHANGED <<request, tempBuffer, segs, version, ecl, trial>>

UndoMask ==
  /\ pc = "undo"
  /\ qrcode' = applyMask(tempBuffer, qrcode, trial)
  /\ trial' = trial + 1
  /\ pc' = IF trial = 7 THEN "final" ELSE "try"
  /\ UNCHANGED <<request, tempBuffer, segs, version, ecl, mask, minPenalty>>

Finish ==
  /\ pc = "final"
  /\ qrcode' = drawFormatBits(ecl, mask, applyMask(tempBuffer, qrcode, mask))
  /\ pc' = "done"
  /\ UNCHANGED <<request, tempBuffer, segs, version, ecl, mask, minPenalty, trial>>

Encode ==
  \/ qrcodegen_encodeText \/ qrcodegen_encodeBinary \/ TextTooLong
  \/ SegmentsTooLong \/ EncodeData \/ Draw \/ TryMask \/ UndoMask \/ Finish

Next == Encode \/ \E r \in Requests, f \in Fresh : Call(r, f)

Spec == Init /\ [][Next]_vars
=============================================================================
