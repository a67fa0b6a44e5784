--------------------------- MODULE MCQRGenerator ---------------------------
(* QRGenerator for TLC.                                                     *)
EXTENDS QRGenerator

\* As long as a ciphertext of the server.
FullLength == [i \in 1 .. 768 |-> (i * i + 7 * i + (i \div 5)) % 256]

MCSources == {<<>>, <<0>>, <<9, 10>>, <<127, 128, 255>>, <<160, 15, 16, 240, 171>>, FullLength}

MCFresh == {0, 65, 204}   \* a NUL, a letter, 0xCC: the fill of the debug build

Direct == [text |-> <<>>, binary |-> FALSE, ecl |-> 0, minVersion |-> 1, maxVersion |-> 4, mask |-> -1,
           boostEcl |-> TRUE]

Repeated(text, n) == [i \in 1 .. n |-> text[((i - 1) % Len(text)) + 1]]

HELLO == <<72, 69, 76, 76, 79, 32, 87, 79, 82, 76, 68>>
Digits == <<51, 49, 52, 49, 53, 57, 50, 54, 53, 53, 56>>
Name == <<97, 108, 105, 99, 101, 46>>
Lower == <<97, 98, 195, 169, 0, 255>>

\* Every mode, empty texts, a text that fills its version to the last bit, the version
\* drawn in the symbol, texts that are too long.  Blocks of two lengths: 2 of 15 and 2 of 16
\* codewords of data for the 140 digits (5-Q), 2 of 68 and 2 of 69 for the 270 bytes (10-L).
MCRequests == {
  Direct,
  [Direct EXCEPT !.text = HELLO],
  [Direct EXCEPT !.text = HELLO, !.minVersion = 7, !.maxVersion = 7, !.mask = 3, !.boostEcl = FALSE],
  [Direct EXCEPT !.text = Repeated(Digits, 41), !.ecl = 0],
  [Direct EXCEPT !.text = Repeated(Digits, 140), !.maxVersion = 5, !.ecl = 2, !.mask = 6, !.boostEcl = FALSE],
  [Direct EXCEPT !.text = Repeated(HELLO, 34), !.maxVersion = 2, !.ecl = 1],
  [Direct EXCEPT !.text = Lower, !.binary = TRUE, !.ecl = 3],
  [Direct EXCEPT !.binary = TRUE],
  [Direct EXCEPT !.text = Repeated(HELLO, 115), !.ecl = 0],
  [Direct EXCEPT !.text = Repeated(Name, 140), !.ecl = 0],
  [Direct EXCEPT !.text = Repeated(Lower, 270), !.binary = TRUE, !.maxVersion = 10, !.mask = 2]}

\* None allowed, none at all, one as in printQr, and the widest for version 1.
MCBorders == {-1, 0, 4, 1073741813}

MCFilled == {{}, 0 .. 7}

\* One block and several, short and long ones, with and without the version bits.
MCVersions == <<1, 2, 5, 7, 10, 14>>

\* Neighbours in a row, across the end of a row, and places outside.
MCPlaces == ({-1, 0, 7, 20} \X {5, 6}) \cup {<<21, 5>>, <<3, 21>>, <<8, 20>>, <<20, -1>>}

MCJunk == {0, 2, 3, 6}
=============================================================================
