------------------------------ MODULE QrSymbol ------------------------------
(***************************************************************************)
(* What an encoder of QR codes promises to its caller: at the end of a     *)
(* call there is a symbol from which a reader gets the text back, of the   *)
(* least version and the best level and mask, or no symbol if the text     *)
(* does not fit.  Nothing is said of the steps in between.                 *)
(***************************************************************************)
EXTENDS QrReader

VARIABLES
  request,  \* the call, or NoCall
  size,     \* the symbol, once status is "done"
  dark,
  status    \* "working", "done" or "refused"

vars == <<request, size, dark, status>>

\* The mode of the only segment.
ModeOf(r) ==
  LET used == {r.text[i] : i \in 1 .. Len(r.text)}
  IN  CASE r.binary \/ ~used \subseteq {CharOf(2, n) : n \in 0 .. 44} -> 4
        [] ~r.binary /\ used \subseteq 48 .. 57 -> 1
        [] OTHER -> 2

\* Codewords for data and error correction.
Room(v) == Cardinality(((0 .. 4 * v + 16) \X (0 .. 4 * v + 16)) \ FunctionCells(v)) \div 8

DataRoom(v, level) ==
  Room(v) - ECC_CODEWORDS_PER_BLOCK[level + 1][v] * NUM_ERROR_CORRECTION_BLOCKS[level + 1][v]

FitsIn(r, mode, v, level) ==
  \/ ~r.binary /\ r.text = <<>>
  \/ /\ Len(r.text) < 2^CountWidth(mode, v)
     /\ 4 + CountWidth(mode, v) + BitsOfChars(mode, Len(r.text)) <= 8 * DataRoom(v, level)

\* The least version of the range that takes the text, and its level.
VersionChosen(r, v, level) ==
  \E mode \in {ModeOf(r)} :
    /\ v \in r.minVersion .. r.maxVersion
    /\ FitsIn(r, mode, v, level)
    /\ \A w \in r.minVersion .. v - 1 : ~FitsIn(r, mode, w, r.ecl)
    /\ r.boostEcl => \A e \in level + 1 .. 3 : ~FitsIn(r, mode, v, e)
    /\ IF r.boostEcl THEN level >= r.ecl ELSE level = r.ecl

\* The mask that was asked for, or one with the fewest points.
MaskChosen(r, v, d, m) ==
  IF r.mask # -1 THEN m = r.mask
  ELSE \E points \in {Points(d, 4 * v + 17)} :
         \A n \in (0 .. 7) \ {m} : points <= Points(Remasked(d, v, m, n), 4 * v + 17)

\* The codewords are a word of the error correction code and say the text.
DataSays(r, v, level, words) ==
  LET ecc == ECC_CODEWORDS_PER_BLOCK[level + 1][v]
  IN  \E blocks \in {BlocksRead(words, v, level)} :
        /\ BlocksSound(blocks, ecc)
        /\ \E data \in {DataRead(blocks, ecc)} : \E read \in {TextRead(data, v)} :
             read.text = r.text /\ PaddingSound(data, read.end)

SymbolOf(r, s, d) ==
  \E word \in {FormatRead(d, FormatCells(s)[1])} :
  \E v \in {VersionOf(s)}, level \in {LevelOf(word)}, m \in {MaskOf(word)} :
    /\ PatternsDrawn(d, v)
    /\ FormatReadable(d, s)
    /\ VersionReadable(d, v)
    /\ VersionChosen(r, v, level)
    /\ DataSays(r, v, level, CodewordsRead(d, v, m))
    /\ MaskChosen(r, v, d, m)

----------------------------------------------------------------------------

Init ==
  /\ request = NoCall
  /\ size = 0
  /\ dark = {}
  /\ status = "working"

Call ==
  /\ request = NoCall
  /\ request' # NoCall
  /\ UNCHANGED <<size, dark, status>>

Produce ==
  /\ request # NoCall
  /\ status = "working"
  /\ status' = "done"
  /\ \E s \in {size'}, d \in {dark'} : SymbolOf(request, s, d)
  /\ UNCHANGED request

Refuse ==
  /\ request # NoCall
  /\ status = "working"
  /\ status' = "refused"
  /\ \A v \in request.minVersion .. request.maxVersion : ~FitsIn(request, ModeOf(request), v, request.ecl)
  /\ UNCHANGED <<request, size, dark>>

Spec == Init /\ [][Call \/ Produce \/ Refuse]_vars
=============================================================================
