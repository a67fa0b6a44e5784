-------------------------------- MODULE Wire --------------------------------
(***************************************************************************)
(* What the bytes on the connection mean to the two programs: the 32-byte  *)
(* message of a challenge or a package, its comparison through signed      *)
(* chars, the text of a command, an index or a field.                      *)
(***************************************************************************)
EXTENDS Integers

SIGNAL_CHECK_DELIVERY == 17
SIGNAL_VERIFYED == 250
SIGNAL_UNVERIFYED == 251

Byte == 0 .. 255

\* (uint8_t) i
U8(i) == i % 256

\* A byte read through a plain char, which is signed in this build.
SChar(b) == IF b < 128 THEN b ELSE b - 256

\* The first byte, the bytes 1..30 (all equal) and the last byte of a message.
Message == [head : Byte, fill : Byte, last : Byte]

\* Mutant: the index is written to the wrong end of the message.
IdxToMessageSwapped(i) == [head |-> U8(i), fill |-> 255, last |-> SIGNAL_CHECK_DELIVERY]

IdxToMessage(i) == [head |-> SIGNAL_CHECK_DELIVERY, fill |-> 255, last |-> U8(i)]

\* What decryption gives for a ciphertext that is not under the key: noise,
\* taken not to begin with the byte 17.
Noise == [head |-> 0, fill |-> 0, last |-> 0]

\* A zeroed buffer, all that is left when recv fails or meets the end.
Zero == [head |-> 0, fill |-> 0, last |-> 0]

\* Mutant: only the number is compared.
AnswerAcceptedLast(m, rand) == rand = SChar(m.last)

\* The test of a challenge's answer: an int against a signed char.
AnswerAccepted(m, rand) ==
  SChar(m.head) = SIGNAL_CHECK_DELIVERY /\ rand = SChar(m.last)

\* The test of a package code, and the index read from it.
PackageAccepted(m) == SChar(m.head) = SIGNAL_CHECK_DELIVERY /\ m.fill = 255
PackageIdx(m) == SChar(m.last)

\* The client's test for a refusal: msg[0] == 251 on a signed char.
TellsRefusal(sig) == SChar(sig) = SIGNAL_UNVERIFYED

----------------------------------------------------------------------------
(* Texts, each a representative of its class: the commands, which are also  *)
(* indices; an index nobody has; one that overflows an int; a word; a word  *)
(* too long for a name; the bytes of a message; an empty buffer.            *)

Texts == {"0", "1", "2", "3", "4", "99999999999", "kim", "overlongname", "binary", ""}

\* GetIdxFromReceiveMessage: stoi, with -1 for no number and -2 for overflow.
GetIdxFromReceiveMessage ==
  [x \in Texts |-> CASE x = "0" -> 0
                     [] x = "1" -> 1
                     [] x = "2" -> 2
                     [] x = "3" -> 3
                     [] x = "4" -> 4
                     [] x = "99999999999" -> -2
                     [] OTHER -> -1]

TextLen ==
  [x \in Texts |-> CASE x \in {"0", "1", "2", "3", "4"} -> 1
                     [] x = "99999999999" -> 11
                     [] x = "kim" -> 3
                     [] x = "overlongname" -> 12
                     [] x = "binary" -> 32
                     [] x = "" -> 0]

Fields == {"name", "phone", "addr"}

FieldMax == [f \in Fields |-> CASE f = "name"  -> 10   \* MAX_NAME_LEN
                                [] f = "phone" -> 15   \* MAX_PHONE_LEN
                                [] f = "addr"  -> 255] \* MAX_ADDR_LEN

\* strcpy_s copies the text only if it fits with its terminating NUL.
Fits(f, x) == TextLen[x] < FieldMax[f]
=============================================================================
