----------------------------- MODULE QRGenerator -----------------------------
(***************************************************************************)
(* The way of a ciphertext from the server to the client on paper:         *)
(* MakeQRCode writes its hexadecimal text (QRText), the library in C++     *)
(* makes the symbol (QrCode), printQr prints it, someone scans it, and     *)
(* CharToHex reads the text.  In other behaviours both libraries are       *)
(* called directly with the same arguments, the one in C (QrCodeC) after   *)
(* the one in C++, or the test program of the one in C runs (QrTests).     *)
(***************************************************************************)
EXTENDS QRText

CONSTANTS
  Requests,  \* direct calls of the libraries
  Filled,    \* what the bytes of the buffers of the C library may hold before a call
  Borders,   \* arguments of toSvgString
  Versions, Places, Seeds, Junk   \* of the test program

\* The arguments that encodeSegments accepts.
ASSUME RequestAssumption ==
  \A r \in Requests :
    /\ r.text \in Seq(Byte) /\ r.binary \in BOOLEAN /\ r.ecl \in 0 .. 3
    /\ r.minVersion \in 1 .. r.maxVersion /\ r.maxVersion <= 40
    /\ r.mask \in -1 .. 7 /\ r.boostEcl \in BOOLEAN

VARIABLES
  request, version, errorCorrectionLevel, codewords, modules, isFunction,
  mask, minPenalty, trial, qrPc,                        \* the library in C++
  cRequest, tempBuffer, qrcode, segs, cVersion, cEcl,
  cMask, cMinPenalty, cTrial, cPc,                      \* the library in C
  test, numTestCases, aborted, testCode, testModules,   \* the test program
  printed,                                              \* the console: places with "##"
  svg                                                   \* the picture of toSvgString

cppVars == <<request, version, errorCorrectionLevel, codewords, modules, isFunction,
             mask, minPenalty, trial, qrPc>>
cVars == <<cRequest, tempBuffer, qrcode, segs, cVersion, cEcl, cMask, cMinPenalty, cTrial, cPc>>
testVars == <<test, numTestCases, aborted, testCode, testModules>>
pictures == <<printed, svg>>
allVars == <<vars, cppVars, cVars, testVars, pictures>>

\* QrCode::encodeText(Text, QrCode::Ecc::LOW): the text ends at the first NUL.
EncodeText(text) ==
  LET end == CHOOSE n \in DOMAIN text : text[n] = 0 /\ \A j \in 0 .. n - 1 : text[j] # 0
  IN  [text |-> [i \in 1 .. end |-> text[i - 1]], binary |-> FALSE, ecl |-> 0, minVersion |-> 1,
       maxVersion |-> 40, mask |-> -1, boostEcl |-> TRUE]

Texts == {EncodeText(HexToChar(s, junk)) : s \in Sources, junk \in Fresh}

Cpp == INSTANCE QrCode WITH Requests <- Requests \cup Texts, pc <- qrPc

C == INSTANCE QrCodeC WITH
       Fresh <- Filled, request <- cRequest, version <- cVersion, ecl <- cEcl, mask <- cMask,
       minPenalty <- cMinPenalty, trial <- cTrial, pc <- cPc

Tests == INSTANCE QrTests WITH qrcode <- testCode, modules <- testModules

border == 4

\* printQr: lines and columns count from the upper left end of the border.
PrintedModules(dark, size) ==
  LET shown == -border .. size + border - 1
  IN  {<<p[1] + border, p[2] + border>> : p \in {p \in shown \X shown : p \in dark}}

\* Mutant: rows and columns exchanged.
toSvgStringTurned(dark, size, margin) ==
  [side |-> size + margin * 2,
   path |-> SelectSeq([n \in 1 .. size * size |-> <<((n - 1) \div size) + margin, ((n - 1) % size) + margin>>],
                      LAMBDA p : <<p[2] - margin, p[1] - margin>> \in dark)]

\* toSvgString: the side of the view box and the marks in the order of the path.
toSvgString(dark, size, margin) ==
  [side |-> size + margin * 2,
   path |-> SelectSeq([n \in 1 .. size * size |-> <<((n - 1) % size) + margin, ((n - 1) \div size) + margin>>],
                      LAMBDA p : <<p[1] - margin, p[2] - margin>> \in dark)]

NoPicture == [side |-> 0, path |-> <<>>]

\* domain_error or overflow_error
Thrown == [side |-> -1, path |-> <<>>]

INT_MAX == 2147483647

\* The borders toSvgString takes: twice the border and the size are within an int.
BorderFits(margin, size) ==
  0 <= margin /\ margin <= INT_MAX \div 2 /\ margin * 2 <= INT_MAX - size

----------------------------------------------------------------------------
(* A scanner, which is not part of the program: it finds the symbol in the  *)
(* light of the paper and reads it.                                         *)

R == INSTANCE QrReader

Scanned(dark) ==
  LET left == CHOOSE x \in {p[1] : p \in dark} : \A p \in dark : x <= p[1]
      top == CHOOSE y \in {p[2] : p \in dark} : \A p \in dark : y <= p[2]
      bottom == CHOOSE y \in {p[2] : p \in dark} : \A p \in dark : p[2] <= y
      size == bottom - top + 1
  IN  R!Value({R!TextRead(R!DataRead(R!BlocksRead(
                 R!CodewordsRead(d, R!VersionOf(size), R!MaskOf(word)), R!VersionOf(size), R!LevelOf(word)),
                 R!ECC_CODEWORDS_PER_BLOCK[R!LevelOf(word) + 1][R!VersionOf(size)]), R!VersionOf(size)).text :
               d \in {{<<p[1] - left, p[2] - top>> : p \in dark}},
               word \in {R!FormatRead({<<p[1] - left, p[2] - top>> : p \in dark}, R!FormatCells(size)[1])}})

----------------------------------------------------------------------------

QRInit ==
  /\ Init
  /\ Cpp!Init
  /\ C!Init
  /\ Tests!Init
  /\ printed = {}
  /\ svg = NoPicture

\* MakeQRCode up to the call of encodeText.
MakeQRCode ==
  /\ test = 1
  /\ Encode
  /\ Cpp!Call(EncodeText(destination'))
  /\ UNCHANGED <<cVars, testVars, pictures>>

\* A direct call, in behaviours without a ciphertext.
DirectCall ==
  /\ pc = "encode"
  /\ source = <<>>
  /\ test = 1
  /\ \E r \in Requests : Cpp!Call(r)
  /\ UNCHANGED <<vars, cVars, testVars, pictures>>

CppStep ==
  /\ Cpp!Encode
  /\ UNCHANGED <<vars, cVars, testVars, pictures>>

printQr ==
  /\ pc = "decode"
  /\ qrPc = "done"
  /\ printed = {}
  /\ printed' = PrintedModules(modules, Cpp!SizeOf(version))
  /\ UNCHANGED <<vars, cppVars, cVars, testVars, svg>>

ToSvg ==
  /\ pc = "encode"
  /\ qrPc = "done"
  /\ svg = NoPicture
  /\ cPc = "idle"
  /\ \E margin \in Borders :
       svg' = IF BorderFits(margin, Cpp!SizeOf(version))
              THEN toSvgString(modules, Cpp!SizeOf(version), margin) ELSE Thrown
  /\ UNCHANGED <<vars, cppVars, cVars, testVars, printed>>

\* The scanned text is what the client's CharToHex gets.
Type ==
  /\ pc = "decode"
  /\ printed # {}
  /\ \E text \in {Scanned(printed)} :
       decoded' = CharToHex([j \in 0 .. Len(text) - 1 |-> text[j + 1]], Len(source))
  /\ pc' = "done"
  /\ UNCHANGED <<source, destination, cppVars, cVars, testVars, pictures>>

\* The same call of the other library, in behaviours without a picture.
CCall ==
  /\ qrPc \in {"done", "too long"}
  /\ svg = NoPicture
  /\ request \in Requests
  /\ \E f \in Filled : C!Call(request, f)
  /\ UNCHANGED <<vars, cppVars, testVars, pictures>>

CStep ==
  /\ C!Encode
  /\ UNCHANGED <<vars, cppVars, testVars, pictures>>

\* The test program, in behaviours with no other use of the library.
TestStep ==
  /\ pc = "encode"
  /\ source = <<>>
  /\ qrPc = "idle"
  /\ Tests!Next
  /\ UNCHANGED <<vars, cppVars, cVars, pictures>>

QRNext == MakeQRCode \/ DirectCall \/ CppStep \/ printQr \/ ToSvg \/ Type \/ CCall \/ CStep \/ TestStep

QRSpec == QRInit /\ [][QRNext]_allVars

----------------------------------------------------------------------------
(* What the libraries promise.                                              *)

StatusOf(p) ==
  CASE p = "done" -> "done" [] p \in {"too long", "failed"} -> "refused"
    [] p \notin {"done", "too long", "failed"} -> "working"

CppSymbol == INSTANCE QrSymbol WITH
  size <- IF qrPc = "done" THEN Cpp!SizeOf(version) ELSE 0,
  dark <- IF qrPc = "done" THEN modules ELSE {},
  status <- StatusOf(qrPc)

CSymbol == INSTANCE QrSymbol WITH
  request <- cRequest,
  size <- IF cPc = "done" THEN C!qrcodegen_getSize(qrcode) ELSE 0,
  dark <- IF cPc = "done" THEN C!DarkCells(qrcode) ELSE {},
  status <- StatusOf(cPc)

\* Both libraries keep the promise of an encoder: the finished symbol reads back as the
\* text, with every block of codewords free of errors, in the least version and the best
\* level that take the text and under a mask with the fewest points, and a text is refused
\* only if it fits nowhere (qrcodegen.cpp:259-359) - in C too, although every stage
\* overwrites a buffer that the next one still reads and the caller's bytes are never
\* cleared as a whole (lib/qrcodegen.c:207-287).
LibrariesKeepPromise == CppSymbol!Spec /\ CSymbol!Spec

\* Both libraries give the same symbol for the same call, whatever the buffers held,
\* or both refuse; a refusal leaves the size at zero (lib/qrcodegen.c:160-165).
SameSymbol ==
  /\ cPc = "done" => /\ qrPc = "done"
                     /\ C!qrcodegen_getSize(qrcode) = Cpp!SizeOf(version)
                     /\ \E d \in {C!DarkCells(qrcode)} : d = modules
  /\ cPc = "failed" => qrPc = "too long" /\ C!qrcodegen_getSize(qrcode) = 0

\* No assert of the library's own tests fails, for the versions chosen and whatever the
\* buffers that the tests leave uninitialized hold (c/qrcodegen-test.c:1078-1102).
TestsPass == ~aborted

\* No stage writes behind the end of a buffer, which has the length for the largest version
\* of the call and no byte more: the bits of the segment, the codewords with the remainder
\* stored behind the data, the interleaved ones and every module drawn, also when the
\* symbol takes that version and when the text is far too long for it
\* (lib/qrcodegen.c:141-287).
WritesInBuffer ==
  cPc # "idle" =>
    /\ DOMAIN tempBuffer = 0 .. C!BUFFER_LEN_FOR_VERSION(cRequest.maxVersion) - 1
    /\ DOMAIN qrcode = DOMAIN tempBuffer

\* The picture of toSvgString reads as the text too, without a border and with the widest
\* one whose places are within an int (QRGenerator.cpp:27-54).
PictureReads ==
  svg \notin {NoPicture, Thrown} => Scanned({svg.path[i] : i \in 1 .. Len(svg.path)}) = request.text
=============================================================================
