-------------------------------- MODULE RowScan --------------------------------
(***************************************************************************)
(* How a number in a row gets into a field of the entity (entity/entity.go,*)
(* coerce.Scan).  The driver hands over an integer, or []byte: a text or   *)
(* the bits of a BIT column.  Fields are Boolean or integers of some width,*)
(* or pointers to them.  Floats and Booleans of the driver are integers    *)
(* here.  Strings are left out, texts that are an error in an integer field *)
(* if they are no number; the word false in a Boolean field; times,        *)
(* which are parsed by their layout; and other types, which database/sql   *)
(* scans.                                                                  *)
(***************************************************************************)
EXTENDS Integers, SequencesExt

CONSTANTS
    WordBytes,   \* bytes of the widest integer: 8 in the code
    NilPointer,  \* a pointer field without a value
    ScanError    \* the value cannot be scanned, the statement fails

ASSUME WordAssumption ==
    /\ WordBytes \in Nat /\ WordBytes >= 2
    /\ ScanError \notin Int

\* Different words of so many bytes.
Values[bytes \in 0 .. WordBytes] == IF bytes = 0 THEN 1 ELSE 256 * Values[bytes - 1]

\* The code of a byte that stands for a digit.
Digits == 48 .. 57

Field == [kind : {"bool", "int", "uint"}, bytes : 1 .. WordBytes, pointer : BOOLEAN]

\* Two's complement.
Signed(u, bytes) == IF u >= Values[bytes] \div 2 THEN u - Values[bytes] ELSE u

IsSigned(n, bytes) == -(Values[bytes] \div 2) <= n /\ n < Values[bytes] \div 2

-------------------------------------------------------------------------------
(* []byte. *)

\* The number that is written with these digits, the highest first.
Written(digits, base) ==
    LET upto[i \in 0 .. Len(digits)] ==
            IF i = 0 THEN 0 ELSE base * upto[i - 1] + digits[i]
    IN upto[Len(digits)]

Sign(text) == IF text # << >> /\ Head(text) = 45 THEN -1 ELSE 1

Unsigned(text) == IF text # << >> /\ Head(text) \in {43, 45} THEN Tail(text) ELSE text

ParseInt(text) ==
    Sign(text) * Written([i \in DOMAIN Unsigned(text) |-> Unsigned(text)[i] - 48], 10)

\* strconv.ParseInt takes the text.
IsNumber(text) ==
    /\ Unsigned(text) # << >>
    /\ Range(Unsigned(text)) \subseteq Digits
    /\ IsSigned(ParseInt(text), WordBytes)

\* Mutant of BigEndian: the first byte is the lowest.
LittleEndian(bytes) == Written(Reverse(bytes), 256)

\* The bytes of BIT(n).
BigEndian(bytes) == Written(bytes, 256)

\* Bytes that read as a number are one; others are the bits themselves.
OfBytes(bytes) ==
    IF IsNumber(bytes) THEN ParseInt(bytes)
    ELSE IF Len(bytes) <= WordBytes THEN BigEndian(bytes) ELSE ScanError

-------------------------------------------------------------------------------
(* The field. *)

\* SetInt and SetUint cut the number to the field's width, whatever its size.
CutTo(field, n) ==
    LET u == n % Values[field.bytes]
    IN IF field.kind = "int" THEN Signed(u, field.bytes) ELSE u

ScanInt(field, src) ==
    LET n == IF src.type = "bytes" THEN OfBytes(src.value) ELSE src.value
    IN IF n = ScanError THEN ScanError ELSE CutTo(field, n)

\* Bytes are false if the first is zero or they are the text "0".
ScanBool(src) ==
    IF src.type = "bytes" THEN src.value # << >> /\ src.value[1] # 0 /\ src.value # <<48>>
    ELSE src.value # 0

\* coerce.Scan: NULL makes a pointer nil and leaves any other field zero.
Scan(field, src) ==
    IF src.type = "nil"
    THEN IF field.pointer THEN NilPointer ELSE IF field.kind = "bool" THEN FALSE ELSE 0
    ELSE IF field.kind = "bool" THEN ScanBool(src) ELSE ScanInt(field, src)

-------------------------------------------------------------------------------
(* The driver: what it hands over for number n of a column of integers, in *)
(* binary or as a text, or of a column of bits.                            *)

Numeral(n) ==
    LET text[k \in 0 .. n] ==
            IF k < 10 THEN <<48 + k>> ELSE Append(text[k \div 10], 48 + (k % 10))
    IN text[n]

Decimal(n) == IF n < 0 THEN <<45>> \o Numeral(-n) ELSE Numeral(n)

Bits(n, bytes) == [i \in 1 .. bytes |-> (n \div Values[bytes - i]) % 256]

Source(via, n) ==
    CASE via = "binary" -> [type |-> "int", value |-> n]
      [] via = "text"   -> [type |-> "bytes", value |-> Decimal(n)]
      [] via = "bit8"   -> [type |-> "bytes", value |-> Bits(n, 1)]
      [] via = "bit16"  -> [type |-> "bytes", value |-> Bits(n, 2)]

\* The numbers that such a column can hold.
Holds(via, n) ==
    \/ via \in {"binary", "text"}
    \/ via = "bit8" /\ n \in 0 .. 255
    \/ via = "bit16" /\ n \in 0 .. 65535

-------------------------------------------------------------------------------
(* What a program expects of a field. *)

\* The field can hold the number.
Fits(field, n) ==
    CASE field.kind = "bool" -> n \in {0, 1}
      [] field.kind = "int"  -> IsSigned(n, field.bytes)
      [] field.kind = "uint" -> 0 <= n /\ n < Values[field.bytes]

InField(field, n) == IF field.kind = "bool" THEN n = 1 ELSE n
===============================================================================
