------------------------------ MODULE QrLayout ------------------------------
(***************************************************************************)
(* The geometry and the capacity of a symbol, the same in qrcodegen.cpp    *)
(* and qrcodegen.c: what is drawn where, and the penalty points of a       *)
(* finished symbol.  A cell is <<x, y>>.                                   *)
(***************************************************************************)
EXTENDS QrBits

SizeOf(ver) == ver * 4 + 17
Cells(size) == (0 .. size - 1) \X (0 .. size - 1)

getNumRawDataModules(ver) ==
  LET numAlign == (ver \div 7) + 2
  IN  ((16 * ver + 128) * ver + 64)
        - (IF ver >= 2 THEN (25 * numAlign - 10) * numAlign - 55 ELSE 0)
        - (IF ver >= 7 THEN 36 ELSE 0)

getNumDataCodewords(ver, ecl) ==
  (getNumRawDataModules(ver) \div 8)
    - ECC_CODEWORDS_PER_BLOCK[ecl + 1][ver] * NUM_ERROR_CORRECTION_BLOCKS[ecl + 1][ver]

getAlignmentPatternPositions(ver) ==
  LET numAlign == (ver \div 7) + 2
      step == ((ver * 8 + numAlign * 3 + 5) \div (numAlign * 4 - 4)) * 2
  IN  IF ver = 1 THEN <<>>
      ELSE [i \in 1 .. numAlign |-> IF i = 1 THEN 6 ELSE SizeOf(ver) - 7 - (numAlign - i) * step]

Abs(a) == IF a < 0 THEN -a ELSE a
Distance(p, x, y) ==
  LET dx == Abs(p[1] - x) dy == Abs(p[2] - y) IN IF dx < dy THEN dy ELSE dx

Around(x, y, d) == (x - d .. x + d) \X (y - d .. y + d)

\* The centres of the alignment patterns; none on the three finder corners.
AlignmentCentres(ver) ==
  LET pos == getAlignmentPatternPositions(ver)
      n == Len(pos)
  IN  {<<pos[i[1]], pos[i[2]]>> :
         i \in ((1 .. n) \X (1 .. n)) \ {<<1, 1>>, <<1, n>>, <<n, 1>>}}

getFormatBits(ecl) == CASE ecl = 0 -> {0} [] ecl = 1 -> {} [] ecl = 2 -> {0, 1} [] ecl = 3 -> {1}

\* The 15 bits, with 0x537 and 0x5412
FormatBits(ecl, msk) ==
  XorSet(WithRemainder({b + 3 : b \in getFormatBits(ecl)} \cup BitsOf(msk), 10, {0, 1, 2, 4, 5, 8, 10}),
         {1, 4, 10, 12, 14})

\* Where bit i of the format is drawn, in both copies.
FormatPlaces(size, i) ==
  {IF i <= 5 THEN <<8, i>> ELSE IF i <= 7 THEN <<8, i + 1>> ELSE IF i = 8 THEN <<7, 8>> ELSE <<14 - i, 8>>,
   IF i < 8 THEN <<size - 1 - i, 8>> ELSE <<8, size - 15 + i>>}

\* The 18 bits of the version, with 0x1F25, and where they are drawn.
VersionBits(ver) == WithRemainder(BitsOf(ver), 12, {0, 2, 5, 8, 9, 10, 11, 12})
VersionPlaces(ver, i) ==
  LET a == SizeOf(ver) - 11 + (i % 3) b == i \div 3 IN {<<a, b>>, <<b, a>>}

\* right of the pair-th pair of columns
RightColumn(size, pair) ==
  LET right == size - 1 - 2 * pair IN IF right <= 6 THEN right - 1 ELSE right

\* The cells in the order of the zigzag scan.
Zigzag(size) ==
  [n \in 1 .. size * (size - 1) |->
     LET right == RightColumn(size, (n - 1) \div (2 * size))
         vert == ((n - 1) % (2 * size)) \div 2
     IN  <<right - ((n - 1) % 2),
           IF ((right + 1) \div 2) % 2 = 0 THEN size - 1 - vert ELSE vert>>]

Inverts(msk, x, y) ==
  CASE msk = 0 -> (x + y) % 2 = 0
    [] msk = 1 -> y % 2 = 0
    [] msk = 2 -> x % 3 = 0
    [] msk = 3 -> (x + y) % 3 = 0
    [] msk = 4 -> ((x \div 3) + (y \div 2)) % 2 = 0
    [] msk = 5 -> ((x * y) % 2) + ((x * y) % 3) = 0
    [] msk = 6 -> (((x * y) % 2) + ((x * y) % 3)) % 2 = 0
    [] msk = 7 -> (((x + y) % 2) + ((x * y) % 3)) % 2 = 0

----------------------------------------------------------------------------
(* The penalty by which both libraries choose the mask of a symbol.  The    *)
(* symbol is the set of its dark cells; runHistory has the latest run first.*)

PENALTY_N1 == 3
PENALTY_N2 == 3
PENALTY_N3 == 40
PENALTY_N4 == 10

finderPenaltyAddHistory(run, runHistory, size) ==
  <<IF runHistory[1] = 0 THEN run + size ELSE run>> \o SubSeq(runHistory, 1, 6)

finderPenaltyCountPatterns(runHistory) ==
  LET n == runHistory[2]
      core == /\ n > 0 /\ runHistory[3] = n /\ runHistory[4] = n * 3
              /\ runHistory[5] = n /\ runHistory[6] = n
  IN  (IF core /\ runHistory[1] >= n * 4 /\ runHistory[7] >= n THEN 1 ELSE 0)
        + (IF core /\ runHistory[7] >= n * 4 /\ runHistory[1] >= n THEN 1 ELSE 0)

finderPenaltyTerminateAndCount(runColor, run, runHistory, size) ==
  LET dark == IF runColor THEN finderPenaltyAddHistory(run, runHistory, size) ELSE runHistory
  IN  finderPenaltyCountPatterns(
        finderPenaltyAddHistory((IF runColor THEN 0 ELSE run) + size, dark, size))

RunPenalty(run) == IF run = 5 THEN PENALTY_N1 ELSE IF run > 5 THEN 1 ELSE 0

\* The next module of a line: its penalty, and the run and the history after it.
NextModule(r, dark, size) ==
  IF dark = r.runColor
  THEN [r EXCEPT !.sum = @ + RunPenalty(r.run + 1), !.run = @ + 1]
  ELSE LET history == finderPenaltyAddHistory(r.run, r.history, size)
       IN  [sum |-> r.sum + IF r.runColor THEN 0
                            ELSE finderPenaltyCountPatterns(history) * PENALTY_N3,
            runColor |-> dark, run |-> 1, history |-> history]

\* The modules from .. to of a line.
RECURSIVE NextModules(_, _, _, _, _)
NextModules(r, line, size, from, to) ==
  IF to = from THEN NextModule(r, line[from], size)
  ELSE Value({NextModules(half, line, size, ((from + to) \div 2) + 1, to) :
                half \in {NextModules(r, line, size, from, (from + to) \div 2)}})

\* A row or a column.
LinePenalty(line, size) ==
  Value({r.sum + finderPenaltyTerminateAndCount(r.runColor, r.run, r.history, size) * PENALTY_N3 :
           r \in {NextModules([sum |-> 0, runColor |-> FALSE, run |-> 0,
                              history |-> <<0, 0, 0, 0, 0, 0, 0>>], line, size, 0, size - 1)}})

LinesPenalty(lines, size) ==
  LET penalty == Computed([n \in 1 .. size |-> LinePenalty(lines[n - 1], size)])
      sum[n \in 0 .. size] == IF n = 0 THEN 0 ELSE sum[n - 1] + penalty[n]
  IN  sum[size]

\* Squares of four modules of one colour.
Squares(row, size) ==
  {p \in Cells(size - 1) :
     /\ row[p[2]][p[1]] = row[p[2]][p[1] + 1]
     /\ row[p[2]][p[1]] = row[p[2] + 1][p[1]]
     /\ row[p[2]][p[1]] = row[p[2] + 1][p[1] + 1]}

\* In steps of 5% from a half.
BalancePenalty(dark, size) ==
  LET total == size * size
  IN  (((Abs(Cardinality(dark) * 20 - total * 10) + total - 1) \div total) - 1) * PENALTY_N4

getPenaltyScore(dark, size) ==
  LET Row == [y \in 0 .. size - 1 |-> [x \in 0 .. size - 1 |-> <<x, y>> \in dark]]
      Column(row) == [x \in 0 .. size - 1 |-> [y \in 0 .. size - 1 |-> row[y][x]]]
  IN  Value({LinesPenalty(row, size) + LinesPenalty(Computed(Column(row)), size)
               + Cardinality(Squares(row, size)) * PENALTY_N2
               + BalancePenalty(dark, size) : row \in {Computed(Row)}})
=============================================================================
