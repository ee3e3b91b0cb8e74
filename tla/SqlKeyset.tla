------------------------------ MODULE SqlKeyset ------------------------------
(***************************************************************************)
(* The boundary of a keyset scroll: the condition sqlgen adds to take the  *)
(* rows after the last one of a window, in the order of the sort keys.     *)
(* A row is a record of columns; a value is a number or Null.              *)
(***************************************************************************)
EXTENDS SqlText, Integers

CONSTANT Null  \* SQL's NULL

ASSUME NullAssumption == Null \notin Int

Compare(x, op, y) ==
    IF Null \in {x, y} THEN "U"
    ELSE Truly(\/ op \in {"=", "<=", ">="} /\ x = y
               \/ op = "<>" /\ x # y
               \/ op \in {"<", "<="} /\ x < y
               \/ op \in {">", ">="} /\ x > y)

\* Mutant of KeysetOf: the directions of the sort keys are swapped.
KeysetBackward(row, keyset) ==
    IF keyset = << >> THEN Empty
    ELSE << Disj({Conj(
              {Compare(row[keyset[j].prop], "=", keyset[j].val) : j \in 1 .. i - 1}
              \cup {Compare(row[keyset[i].prop], IF keyset[i].desc THEN ">" ELSE "<",
                            keyset[i].val)})
            : i \in DOMAIN keyset}) >>

\* Mutant of KeysetOf: the boundary itself is not left out.
KeysetInclusive(row, keyset) ==
    IF keyset = << >> THEN Empty
    ELSE << Disj({Conj(
              {Compare(row[keyset[j].prop], "=", keyset[j].val) : j \in 1 .. i - 1}
              \cup {Compare(row[keyset[i].prop], IF keyset[i].desc THEN "<=" ELSE ">=",
                            keyset[i].val)})
            : i \in DOMAIN keyset}) >>

\* The rows after the values of a keyset, in the order of its sort keys.
KeysetOf(row, keyset) ==
    IF keyset = << >> THEN Empty
    ELSE << Disj({Conj(
              {Compare(row[keyset[j].prop], "=", keyset[j].val) : j \in 1 .. i - 1}
              \cup {Compare(row[keyset[i].prop], IF keyset[i].desc THEN "<" ELSE ">",
                            keyset[i].val)})
            : i \in DOMAIN keyset}) >>
===============================================================================
