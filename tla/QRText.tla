------------------------------- MODULE QRText -------------------------------
(***************************************************************************)
(* The hexadecimal text of a QR code: HexToChar writes it on the server,   *)
(* a person types it, CharToHex of the client reads it back.  Characters   *)
(* are their codes; the text buffer is one longer than the text, and the   *)
(* place between the text and its NUL is never written.                    *)
(***************************************************************************)
EXTENDS Integers, Sequences

CONSTANTS
  MaxLen,   \* the ciphertext length for which MakeQRCode sizes its buffer
  Sources,  \* the ciphertexts considered
  Fresh     \* what an unwritten place of the stack may hold

Byte == 0 .. 255

ASSUME LenAssumption == MaxLen \in Nat
ASSUME SourceAssumption == \A s \in Sources : s \in Seq(Byte) /\ Len(s) <= MaxLen
ASSUME FreshAssumption == Fresh \subseteq Byte

VARIABLES pc, source, destination, decoded
vars == <<pc, source, destination, decoded>>

\* The digit of a nibble: '0'..'9', 'A'..'F'.
Digit(n) == n + IF n < 10 THEN 48 ELSE 55

\* The nibble of a digit.
Nibble(d) == d - IF d >= 65 THEN 55 ELSE 48

\* Mutant: the two digits of a byte exchanged.
HexDigitSwapped(s, j) == LET b == s[j \div 2 + 1]
                         IN  Digit(IF j % 2 = 0 THEN b % 16 ELSE b \div 16)

\* The digit at place j of the text of s (places count from 0, as in C).
HexDigit(s, j) == LET b == s[j \div 2 + 1]
                  IN  Digit(IF j % 2 = 0 THEN b \div 16 ELSE b % 16)

\* HexToChar: the buffer after the call, junk at the place it skips.
HexToChar(s, junk) ==
  [j \in 0 .. 2 * Len(s) + 1 |->
     CASE j < 2 * Len(s) -> HexDigit(s, j)
       [] j = 2 * Len(s) -> junk
       [] j = 2 * Len(s) + 1 -> 0]

\* CharToHex for a known length; the sum is stored in a char.
CharToHex(d, n) ==
  [i \in 1 .. n |-> (16 * Nibble(d[2 * (i - 1)]) + Nibble(d[2 * (i - 1) + 1])) % 256]

Init ==
  /\ pc = "encode"
  /\ source \in Sources
  /\ destination = [j \in {} |-> 0]
  /\ decoded = <<>>

Encode ==
  /\ pc = "encode"
  /\ \E junk \in Fresh : destination' = HexToChar(source, junk)
  /\ pc' = "decode"
  /\ UNCHANGED <<source, decoded>>

Decode ==
  /\ pc = "decode"
  /\ decoded' = CharToHex(destination, Len(source))
  /\ pc' = "done"
  /\ UNCHANGED <<source, destination>>

Next == Encode \/ Decode

Spec == Init /\ [][Next]_vars

\* What the client decodes from the typed text is the ciphertext the server
\* encoded, whatever the place before the NUL holds (QRGenerator.cpp:68-81,
\* Client/main.cpp:84-95).
RoundTrip == pc = "done" => decoded = source

\* HexToChar stays inside the buffer of MakeQRCode (QRGenerator.cpp:20), and no
\* NUL cuts the text short.
TextComplete ==
  pc # "encode" =>
    /\ DOMAIN destination \subseteq 0 .. 2 * MaxLen + 1
    /\ \A j \in 0 .. 2 * Len(source) - 1 : destination[j] \in 48 .. 57 \cup 65 .. 70
=============================================================================
