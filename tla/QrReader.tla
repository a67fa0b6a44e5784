------------------------------ MODULE QrReader ------------------------------
(***************************************************************************)
(* A reader of QR codes as ISO/IEC 18004 describes them, and the standard's *)
(* rules for masks, written without the encoders' definitions: only the    *)
(* table of error correction blocks is shared.  A symbol is its size and   *)
(* the set of its dark cells <<x, y>>.                                     *)
(***************************************************************************)
EXTENDS QrBits

VersionOf(size) == (size - 17) \div 4

\* The rows and columns of the alignment patterns: 6, then even steps, equal but for
\* the first, up to the seventh place from the edge.
AlignmentLines(v) ==
  LET last == 4 * v + 10
      gaps == (v \div 7) + 1
      step == IF v = 32 THEN 26
              ELSE 2 * CHOOSE k \in 1 .. last : k * gaps * 2 >= last - 6 /\ (k - 1) * gaps * 2 < last - 6
  IN  IF v = 1 THEN {} ELSE {6} \cup {last - i * step : i \in 0 .. gaps - 1}

Block(x, y, width, height) == (x .. x + width - 1) \X (y .. y + height - 1)

AlignmentPlaces(v) ==
  LET last == 4 * v + 10
  IN  (AlignmentLines(v) \X AlignmentLines(v)) \ {<<6, 6>>, <<6, last>>, <<last, 6>>}

\* Cells that carry no data.
FunctionCells(v) ==
  LET size == 4 * v + 17
  IN  UNION {Block(0, 0, 9, 9), Block(size - 8, 0, 8, 9), Block(0, size - 8, 9, 8),
             Block(6, 0, 1, size), Block(0, 6, size, 1)}
        \cup UNION {Block(c[1] - 2, c[2] - 2, 5, 5) : c \in AlignmentPlaces(v)}
        \cup (IF v < 7 THEN {} ELSE Block(size - 11, 0, 3, 6) \cup Block(0, size - 11, 6, 3))

\* The bullseyes and the dotted lines are where a scanner looks for them.
PatternsDrawn(dark, v) ==
  LET size == 4 * v + 17
      Ring(x, y, r) == Block(x - r, y - r, 2 * r + 1, 2 * r + 1) \ Block(x - r + 1, y - r + 1, 2 * r - 1, 2 * r - 1)
      Finder(x, y) == /\ Ring(x, y, 3) \cup Block(x - 1, y - 1, 3, 3) \subseteq dark
                      /\ (Ring(x, y, 2) \cup Ring(x, y, 4)) \cap dark = {}
  IN  /\ \A c \in {<<3, 3>>, <<size - 4, 3>>, <<3, size - 4>>} : Finder(c[1], c[2])
      /\ \A i \in 8 .. size - 9 : \A p \in {<<i, 6>>, <<6, i>>} : p \in dark <=> i % 2 = 0
      /\ \A c \in AlignmentPlaces(v) :
           /\ Ring(c[1], c[2], 2) \cup {c} \subseteq dark
           /\ Ring(c[1], c[2], 1) \cap dark = {}

----------------------------------------------------------------------------
(* Words of a code over two elements.                                       *)

Highest(bits) == CHOOSE b \in bits : \A c \in bits : c <= b

RECURSIVE Divides(_, _)
Divides(poly, word) ==
  \/ word = {}
  \/ /\ Highest(word) >= Highest(poly)
     /\ Divides(poly, XorSet(word, {b + Highest(word) - Highest(poly) : b \in poly}))

\* The 15 bits around the upper left finder, and the copy at the other two.
FormatCells(size) ==
  <<[i \in 0 .. 14 |-> CASE i < 6 -> <<8, i>> [] i \in 6 .. 7 -> <<8, i + 1>>
                         [] i = 8 -> <<7, 8>> [] i > 8 -> <<14 - i, 8>>],
    [i \in 0 .. 14 |-> IF i < 8 THEN <<size - 1 - i, 8>> ELSE <<8, size - 15 + i>>]>>

FormatRead(dark, cells) == XorSet({i \in 0 .. 14 : cells[i] \in dark}, {1, 4, 10, 12, 14})

FormatPolynomial == {0, 1, 2, 4, 5, 8, 10}
VersionPolynomial == {0, 2, 5, 8, 9, 10, 11, 12}

NumberOf(bits) ==
  LET sum[n \in 0 .. 16] == IF n = 0 THEN 0 ELSE sum[n - 1] + (IF n - 1 \in bits THEN 2^(n - 1) ELSE 0)
  IN  sum[16]

\* The level, from 0 for the lowest, and the mask of a format word.
LevelOf(word) == <<1, 0, 3, 2>>[NumberOf({b - 13 : b \in {b \in word : b >= 13}}) + 1]
MaskOf(word) == NumberOf({b - 10 : b \in {b \in word : b \in 10 .. 12}})

\* Both copies agree, are a word of the code, and the cell beside them is dark.
FormatReadable(dark, size) ==
  LET word == FormatRead(dark, FormatCells(size)[1])
  IN  /\ FormatRead(dark, FormatCells(size)[2]) = word
      /\ Divides(FormatPolynomial, word)
      /\ <<8, size - 8>> \in dark

VersionReadable(dark, v) ==
  LET a == 4 * v + 6
      word == {i \in 0 .. 17 : <<a + (i % 3), i \div 3>> \in dark}
  IN  v >= 7 => /\ word = {i \in 0 .. 17 : <<i \div 3, a + (i % 3)>> \in dark}
                /\ Divides(VersionPolynomial, word)
                /\ NumberOf({b - 12 : b \in {b \in word : b >= 12}}) = v

----------------------------------------------------------------------------
(* Data.  The columns without column 6, from the right, in pairs that are   *)
(* read upwards and downwards in turn.                                      *)

MaskRule(m, i, j) ==   \* row i, column j
  CASE m = 0 -> (i + j) % 2 = 0
    [] m = 1 -> i % 2 = 0
    [] m = 2 -> j % 3 = 0
    [] m = 3 -> (i + j) % 3 = 0
    [] m = 4 -> ((i \div 2) + (j \div 3)) % 2 = 0
    [] m = 5 -> (i * j) % 6 = 0
    [] m = 6 -> (i * j) % 6 \in 0 .. 2
    [] m = 7 -> (((i + j) % 2) + ((i * j) % 3)) % 2 = 0

MaskedCells(v, m) ==
  {p \in ((0 .. 4 * v + 16) \X (0 .. 4 * v + 16)) \ FunctionCells(v) : MaskRule(m, p[2], p[1])}

DataPath(v) ==
  LET size == 4 * v + 17
      column == [n \in 0 .. size - 2 |-> IF size - 1 - n > 6 THEN size - 1 - n ELSE size - 2 - n]
      Cell(n) == LET pair == n \div (2 * size)
                     row == (n % (2 * size)) \div 2
                 IN  <<column[2 * pair + (n % 2)], IF pair % 2 = 0 THEN size - 1 - row ELSE row>>
  IN  UNION {{SelectSeq([n \in 1 .. size * (size - 1) |-> Cell(n - 1)], LAMBDA p : p \notin function)} :
               function \in {FunctionCells(v)}}

CodewordsRead(dark, v, m) ==
  Value({Computed([k \in 0 .. (Len(path) \div 8) - 1 |->
                     {b \in 0 .. 7 : path[8 * k + 8 - b] \in plain}]) :
           path \in DataPath(v), plain \in {XorSet(dark, MaskedCells(v, m))}})

\* Codeword k belongs to this block at this place, data before error correction.
BlocksRead(words, v, level) ==
  LET blocks == NUM_ERROR_CORRECTION_BLOCKS[level + 1][v]
      ecc == ECC_CODEWORDS_PER_BLOCK[level + 1][v]
      total == Cardinality(DOMAIN words)
      Data(b) == (total \div blocks) - ecc + (IF b >= blocks - (total % blocks) THEN 1 ELSE 0)
      least == (total \div blocks) - ecc
      From(b, i) == CASE i < least -> i * blocks + b
                      [] i >= least /\ i < Data(b) -> least * blocks + b - (blocks - (total % blocks))
                      [] i >= Data(b) -> total - ecc * blocks + (i - Data(b)) * blocks + b
  IN  Computed([b \in 0 .. blocks - 1 |-> [i \in 0 .. Data(b) + ecc - 1 |-> words[From(b, i)]]])

\* The powers of two in the field of 256 elements, and the logarithms.
Twice(p) == XorSet({b + 1 : b \in p}, IF 7 \in p THEN {0, 2, 3, 4, 8} ELSE {})

RECURSIVE Powers(_, _)
Powers(p, n) ==   \* p times the first n powers
  IF n = 1 THEN <<p>>
  ELSE Value({half \o Powers(Twice(half[n \div 2]), n - (n \div 2)) : half \in {Powers(p, n \div 2)}})

Power == Value({Computed([n \in 0 .. 254 |-> list[n + 1]]) : list \in {Powers({0}, 255)}})

Logarithm(power) == Computed([x \in {power[n] : n \in 0 .. 254} |-> CHOOSE n \in 0 .. 254 : power[n] = x])

\* As a polynomial the block vanishes at the powers of two: in every bit an even
\* number of its terms is one.
BlockSound(block, ecc, power, log) ==
  LET last == Cardinality(DOMAIN block) - 1
  IN  \A k \in 0 .. ecc - 1 :
        \E term \in {Computed([i \in 0 .. last |->
             IF block[i] = {} THEN {} ELSE power[(log[block[i]] + k * (last - i)) % 255]])} :
          \A b \in 0 .. 7 : Cardinality({i \in 0 .. last : b \in term[i]}) % 2 = 0

BlocksSound(blocks, ecc) ==
  \E power \in {Power} : \E log \in {Logarithm(power)} :
    \A b \in DOMAIN blocks : BlockSound(blocks[b], ecc, power, log)

\* The data codewords of all blocks, in order.
DataRead(blocks, ecc) ==
  LET all[b \in -1 .. Cardinality(DOMAIN blocks) - 1] ==
        IF b = -1 THEN <<>>
        ELSE all[b - 1] \o [i \in 1 .. Cardinality(DOMAIN blocks[b]) - ecc |-> blocks[b][i - 1]]
  IN  Computed(all[Cardinality(DOMAIN blocks) - 1])

----------------------------------------------------------------------------
(* Segments.  bit(i) is the i-th bit of the data codewords, from 0.         *)

Field(data, from, len) ==
  LET value[n \in 0 .. len] ==
        IF n = 0 THEN 0
        ELSE 2 * value[n - 1]
               + (IF 7 - ((from + n - 1) % 8) \in data[((from + n - 1) \div 8) + 1] THEN 1 ELSE 0)
  IN  value[len]

\* The width of the count for versions to 9, to 26 and above, and the characters and
\* bits of a full group and of the rests.
ModeTable ==
  [m \in {1, 2, 4} |->
     CASE m = 1 -> [count |-> <<10, 12, 14>>, group |-> 3, base |-> 10, bits |-> <<4, 7, 10>>]
       [] m = 2 -> [count |-> <<9, 11, 13>>, group |-> 2, base |-> 45, bits |-> <<6, 11>>]
       [] m = 4 -> [count |-> <<8, 16, 16>>, group |-> 1, base |-> 256, bits |-> <<8>>]]

CountWidth(mode, v) ==
  ModeTable[mode].count[CASE v <= 9 -> 1 [] v \in 10 .. 26 -> 2 [] v > 26 -> 3]

CharOf(mode, value) ==
  CASE mode = 4 -> value
    [] mode # 4 /\ value < 10 -> 48 + value
    [] mode = 2 /\ value \in 10 .. 35 -> 55 + value
    [] mode = 2 /\ value > 35 -> <<32, 36, 37, 42, 43, 45, 46, 47, 58>>[value - 35]

\* The characters of a segment of n whose data begins at bit from.
CharsRead(data, mode, from, n) ==
  LET t == ModeTable[mode]
      full == t.bits[t.group]
      Size(g) == IF (g + 1) * t.group <= n THEN t.group ELSE n % t.group
      value == Computed([g \in 0 .. (n - 1) \div t.group |-> Field(data, from + g * full, t.bits[Size(g)])])
  IN  Computed([i \in 1 .. n |->
         LET g == (i - 1) \div t.group
             place == Size(g) - 1 - ((i - 1) % t.group)
         IN  CharOf(mode, (value[g] \div t.base^place) % t.base)])

BitsOfChars(mode, n) ==
  LET t == ModeTable[mode]
  IN  (n \div t.group) * t.bits[t.group] + (IF n % t.group = 0 THEN 0 ELSE t.bits[n % t.group])

\* At most one segment, as the libraries write for a text; then the terminator, cut
\* only by the end of the symbol, and pad bytes in turn.
TextRead(data, v) ==
  LET mode == Field(data, 0, 4)
      n == Field(data, 4, CountWidth(mode, v))
      start == 4 + CountWidth(mode, v)
  IN  IF mode = 0 THEN [text |-> <<>>, end |-> 0]
      ELSE [text |-> CharsRead(data, mode, start, n), end |-> start + BitsOfChars(mode, n)]

PaddingSound(data, end) ==
  LET room == Least(4, 8 * Len(data) - end)
      first == (end + room + 7) \div 8
  IN  /\ \A i \in end .. 8 * first - 1 : Field(data, i, 1) = 0
      /\ \A k \in first + 1 .. Len(data) : data[k] = IF (k - first) % 2 = 1 THEN BitsOf(236) ELSE BitsOf(17)

----------------------------------------------------------------------------
(* The choice of the mask.                                                  *)

\* Maximal runs of at least five modules: three points and one for each further.
RunPoints(line, size) ==
  LET starts == {i \in 0 .. size - 5 :
                   /\ i = 0 \/ line[i - 1] # line[i]
                   /\ \A j \in i + 1 .. i + 4 : line[j] = line[i]}
      End(i) == CHOOSE e \in i + 5 .. size :
                  (e = size \/ line[e] # line[i]) /\ \A j \in i .. e - 1 : line[j] = line[i]
      sum[i \in -1 .. size] == IF i = -1 THEN 0 ELSE sum[i - 1] + (IF i \in starts THEN End(i) - i - 2 ELSE 0)
  IN  sum[size]

\* 1:1:3:1:1 in modules of n, with four light modules of n on one side and one on the
\* other; beyond the edge everything is light.
FinderLike(line, size) ==
  LET Dark(a, b) == \A j \in a .. b - 1 : line[j]
      Light(a, b) == \A j \in a .. b - 1 : j < 0 \/ j >= size \/ ~line[j]
      Core(i, n) == /\ Light(i - n, i) /\ Dark(i, i + n) /\ Light(i + n, i + 2 * n) /\ Dark(i + 2 * n, i + 5 * n)
                    /\ Light(i + 5 * n, i + 6 * n) /\ Dark(i + 6 * n, i + 7 * n) /\ Light(i + 7 * n, i + 8 * n)
      cores == {c \in (0 .. size - 7) \X (1 .. size \div 7) :
                  line[c[1]] /\ c[1] + 7 * c[2] <= size /\ Core(c[1], c[2])}
  IN  Cardinality({c \in cores : Light(c[1] - 4 * c[2], c[1])})
        + Cardinality({c \in cores : Light(c[1] + 7 * c[2], c[1] + 11 * c[2])})

\* Steps of five percent away from the band around a half.
Imbalance(dark, size) ==
  LET off == Cardinality(dark) * 20 - size * size * 10
  IN  CHOOSE k \in 0 .. 9 : /\ off <= (k + 1) * size * size /\ -off <= (k + 1) * size * size
                            /\ k = 0 \/ off > k * size * size \/ -off > k * size * size

Points(dark, size) ==
  LET rows == Computed([y \in 0 .. size - 1 |-> Computed([x \in 0 .. size - 1 |-> <<x, y>> \in dark])])
      columns == Computed([x \in 0 .. size - 1 |-> Computed([y \in 0 .. size - 1 |-> <<x, y>> \in dark])])
      Line(line) == RunPoints(line, size) + 40 * FinderLike(line, size)
      sum[n \in 0 .. size] == IF n = 0 THEN 0 ELSE sum[n - 1] + Line(rows[n - 1]) + Line(columns[n - 1])
      even == {p \in (0 .. size - 2) \X (0 .. size - 2) :
                 Cardinality({<<p[1] + a, p[2] + b>> : a \in 0 .. 1, b \in 0 .. 1} \cap dark) \in {0, 4}}
  IN  sum[size] + 3 * Cardinality(even) + 10 * Imbalance(dark, size)

\* The symbol under another mask, with the format word for it.
Remasked(dark, v, from, to) ==
  LET size == 4 * v + 17
      fixed == {b \in FormatRead(dark, FormatCells(size)[1]) : b >= 13} \cup {b + 10 : b \in BitsOf(to)}
      word == CHOOSE w \in {fixed \cup e : e \in SUBSET (0 .. 9)} : Divides(FormatPolynomial, w)
      drawn == XorSet(word, {1, 4, 10, 12, 14})
      cells == FormatCells(size)
  IN  (XorSet(XorSet(dark, MaskedCells(v, from)), MaskedCells(v, to))
         \ {cells[c][i] : c \in 1 .. 2, i \in 0 .. 14})
        \cup {cells[c][i] : c \in 1 .. 2, i \in drawn}
=============================================================================
