----------------------------- MODULE PostgresKey -----------------------------
(***************************************************************************)
(* The advisory lock key of a name: a short ASCII name is packed into one  *)
(* integer, CharBits a character, behind the padding that tells lengths    *)
(* apart.  The integer has no bit to spare.                                *)
(***************************************************************************)
EXTENDS Integers, SequencesExt

CONSTANTS
    CharBits,   \* ASCII_CHAR_BITS
    MaxLength   \* MAX_ASCII_LENGTH

ASSUME KeyAssumption == CharBits \in Nat \ {0} /\ MaxLength \in Nat \ {0}

MaxValue == 2 ^ CharBits - 1

\* An i64 has as many bits as the longest name and the bit of the padding; what
\* is shifted out is lost.
Width == CharBits * MaxLength + 1
Wrap(i) == i % 2 ^ Width

\* Characters above MaxValue are not ASCII, and take two bytes or more.
IsAscii(name)  == \A i \in DOMAIN name : name[i] <= MaxValue
ByteLength(name) == Len(name) + Cardinality({i \in DOMAIN name : name[i] > MaxValue})

NoKey == -1

ShiftIn(result, ch) == Wrap(result * 2 ^ CharBits + ch)

\* The characters, a zero bit, and ones for the characters that are missing.
TryEncodeAscii(name) ==
    IF ByteLength(name) > MaxLength \/ ~IsAscii(name)
       THEN NoKey
       ELSE FoldLeft(ShiftIn,
                     Wrap(2 * FoldLeft(ShiftIn, 0, name)),
                     [i \in 1..(MaxLength - Len(name)) |-> MaxValue])

\* All names of up to one character more than fit, one kind of character of them
\* not ASCII.
Names == UNION {[1..n -> 0..(MaxValue + 1)] : n \in 1..(MaxLength + 1)}

\* "ASCII strings up to 9 chars are encoded directly (collision-free)" (key.rs):
\* every one of them has a key, and no two have the same, of whatever lengths.
\* It is about no state: a model with small constants asks TLC to evaluate it.
AsciiNamesApart ==
    LET short == {name \in Names : IsAscii(name) /\ Len(name) <= MaxLength}
        keys  == {TryEncodeAscii(name) : name \in short}
    IN  NoKey \notin keys /\ Cardinality(keys) = Cardinality(short)
=============================================================================
