---------------------------- MODULE QRTextProofs ----------------------------
(* The text of a QR code is read back as it was written, for every length.  *)
EXTENDS QRText, TLAPS

\* A byte is made of its two nibbles.
LEMMA ByteNibbles ==
  ASSUME NEW b \in Byte
  PROVE  /\ b \div 16 \in 0 .. 15 /\ b % 16 \in 0 .. 15
         /\ (16 * (b \div 16) + (b % 16)) % 256 = b
  <1>1. b \in Int /\ 0 <= b /\ b <= 255
    BY DEF Byte
  <1>2. b \div 16 \in 0 .. 15 /\ b % 16 \in 0 .. 15
    BY <1>1
  <1>3. 16 * (b \div 16) + (b % 16) = b
    BY <1>1
  <1> QED
    BY <1>1, <1>2, <1>3

\* A nibble is recovered from its digit, and the digit is no NUL.
LEMMA DigitFacts ==
  ASSUME NEW n \in 0 .. 15
  PROVE  Nibble(Digit(n)) = n /\ Digit(n) \in 48 .. 57 \cup 65 .. 70
  BY DEF Nibble, Digit

\* The two digits of byte i stand at the places that CharToHex reads.
LEMMA DigitPlaces ==
  ASSUME NEW s \in Seq(Byte), NEW junk, NEW i \in 1 .. Len(s)
  PROVE  /\ s[i] \in Byte
         /\ HexToChar(s, junk)[2 * (i - 1)] = Digit(s[i] \div 16)
         /\ HexToChar(s, junk)[2 * (i - 1) + 1] = Digit(s[i] % 16)
  <1>1. s[i] \in Byte
    OBVIOUS
  <1>2. /\ Len(s) \in Nat /\ i \in Int
        /\ 2 * (i - 1) \in 0 .. 2 * Len(s) + 1 /\ 2 * (i - 1) < 2 * Len(s)
        /\ 2 * (i - 1) + 1 \in 0 .. 2 * Len(s) + 1 /\ 2 * (i - 1) + 1 < 2 * Len(s)
    OBVIOUS
  <1>3. /\ (2 * (i - 1)) \div 2 + 1 = i /\ (2 * (i - 1)) % 2 = 0
        /\ (2 * (i - 1) + 1) \div 2 + 1 = i /\ (2 * (i - 1) + 1) % 2 = 1
    BY <1>2
  <1>4. HexToChar(s, junk)[2 * (i - 1)] = HexDigit(s, 2 * (i - 1))
    BY <1>2 DEF HexToChar
  <1>5. HexToChar(s, junk)[2 * (i - 1) + 1] = HexDigit(s, 2 * (i - 1) + 1)
    BY <1>2 DEF HexToChar
  <1> QED
    BY <1>1, <1>3, <1>4, <1>5 DEF HexDigit

\* CharToHex undoes HexToChar, whatever the skipped place holds.
LEMMA CharToHexInverse ==
  ASSUME NEW s \in Seq(Byte), NEW junk
  PROVE  CharToHex(HexToChar(s, junk), Len(s)) = s
  <1>1. ASSUME NEW i \in 1 .. Len(s)
        PROVE  CharToHex(HexToChar(s, junk), Len(s))[i] = s[i]
    <2>1. /\ s[i] \div 16 \in 0 .. 15 /\ s[i] % 16 \in 0 .. 15
          /\ (16 * (s[i] \div 16) + (s[i] % 16)) % 256 = s[i]
      BY DigitPlaces, ByteNibbles
    <2>2. CharToHex(HexToChar(s, junk), Len(s))[i]
            = (16 * Nibble(Digit(s[i] \div 16)) + Nibble(Digit(s[i] % 16))) % 256
      BY DigitPlaces DEF CharToHex
    <2>3. /\ Nibble(Digit(s[i] \div 16)) = s[i] \div 16
          /\ Nibble(Digit(s[i] % 16)) = s[i] % 16
      BY <2>1, DigitFacts
    <2> QED
      BY <2>1, <2>2, <2>3
  <1>2. CharToHex(HexToChar(s, junk), Len(s)) \in Seq(Byte)
    <2>1. \A i \in 1 .. Len(s) : s[i] \in Byte
      OBVIOUS
    <2>2. /\ DOMAIN CharToHex(HexToChar(s, junk), Len(s)) = 1 .. Len(s)
          /\ CharToHex(HexToChar(s, junk), Len(s))
               = [i \in 1 .. Len(s) |-> CharToHex(HexToChar(s, junk), Len(s))[i]]
      BY DEF CharToHex
    <2> QED
      BY <1>1, <2>1, <2>2
  <1>3. Len(CharToHex(HexToChar(s, junk), Len(s))) = Len(s)
    BY <1>2 DEF CharToHex
  <1> QED
    BY <1>1, <1>2, <1>3

\* The inductive invariant: the buffer holds HexToChar of the source, and what
\* was decoded is the source.
QRInv ==
  /\ source \in Sources
  /\ pc \in {"encode", "decode", "done"}
  /\ pc # "encode" => \E junk \in Fresh : destination = HexToChar(source, junk)
  /\ RoundTrip

\* Every step of writing and reading a code keeps the invariant.
LEMMA QRStep == QRInv /\ [Next]_vars => QRInv'
  <1> SUFFICES ASSUME QRInv, [Next]_vars PROVE QRInv'
    OBVIOUS
  <1>1. CASE Encode
    BY <1>1 DEF Encode, QRInv, RoundTrip
  <1>2. CASE Decode
    <2>1. PICK junk \in Fresh : destination = HexToChar(source, junk)
      BY <1>2 DEF Decode, QRInv
    <2>2. decoded' = source
      BY <1>2, <2>1, CharToHexInverse, SourceAssumption DEF Decode, QRInv
    <2> QED
      BY <1>2, <2>2 DEF Decode, QRInv, RoundTrip
  <1>3. CASE UNCHANGED vars
    BY <1>3 DEF vars, QRInv, RoundTrip
  <1> QED
    BY <1>1, <1>2, <1>3 DEF Next

\* The invariant holds in every behaviour.
LEMMA QRAlways == Spec => []QRInv
  <1>1. Init => QRInv
    BY DEF Init, QRInv, RoundTrip
  <1> QED
    BY <1>1, QRStep, PTL DEF Spec

\* What CharToHex of the client reads from the text of HexToChar is the
\* ciphertext, for ciphertexts of every length.
THEOREM QRRoundTrip == Spec => []RoundTrip
  <1>1. QRInv => RoundTrip
    BY DEF QRInv
  <1> QED
    BY <1>1, QRAlways, PTL

\* HexToChar stays in the buffer of MakeQRCode and writes digits only.
THEOREM QRComplete == Spec => []TextComplete
  <1>1. QRInv => TextComplete
    <2> SUFFICES ASSUME QRInv, pc # "encode"
                 PROVE  /\ DOMAIN destination \subseteq 0 .. 2 * MaxLen + 1
                        /\ \A j \in 0 .. 2 * Len(source) - 1 :
                             destination[j] \in 48 .. 57 \cup 65 .. 70
      BY DEF TextComplete
    <2>1. PICK junk \in Fresh : destination = HexToChar(source, junk)
      BY DEF QRInv
    <2>2. source \in Seq(Byte) /\ Len(source) \in Nat /\ Len(source) <= MaxLen
      BY SourceAssumption DEF QRInv
    <2>3. DOMAIN destination \subseteq 0 .. 2 * MaxLen + 1
      BY <2>1, <2>2, LenAssumption DEF HexToChar
    <2>4. ASSUME NEW j \in 0 .. 2 * Len(source) - 1
          PROVE  destination[j] \in 48 .. 57 \cup 65 .. 70
      <3>1. /\ j \in Int /\ 0 <= j /\ j < 2 * Len(source)
            /\ j \div 2 + 1 \in 1 .. Len(source)
        BY <2>2
      <3>2. destination[j] = HexDigit(source, j)
        BY <2>1, <2>2, <3>1 DEF HexToChar
      <3>3. source[j \div 2 + 1] \in Byte
        BY <2>2, <3>1
      <3>4. /\ source[j \div 2 + 1] \div 16 \in 0 .. 15
            /\ source[j \div 2 + 1] % 16 \in 0 .. 15
        BY <3>3, ByteNibbles
      <3> QED
        BY <3>2, <3>4, DigitFacts DEF HexDigit
    <2> QED
      BY <2>3, <2>4
  <1> QED
    BY <1>1, QRAlways, PTL
=============================================================================
