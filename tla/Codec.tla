------------------------------- MODULE Codec -------------------------------
(***************************************************************************)
(* The keys of write records (src/txn/codec.cc): a user key, escaped and   *)
(* terminated, and the inverted timestamp, in an engine that orders keys   *)
(* byte by byte.                                                           *)
(*                                                                         *)
(* A key is a sequence of bytes.  Where a number is written byte by byte,  *)
(* it has Width bytes that are one bit wide.                               *)
(***************************************************************************)
EXTENDS Naturals, Sequences

CONSTANTS
    Width,         \* the width of a number
    UserKey        \* the user keys to be encoded

Timestamp == 0..(2^Width - 1)

\* Byte by byte, and a prefix first.
Below(a, b) ==
    \/ \E i \in DOMAIN a \cap DOMAIN b :
          a[i] < b[i] /\ \A j \in 1..(i - 1) : a[j] = b[j]
    \/ Len(a) < Len(b) /\ \A i \in DOMAIN a : a[i] = b[i]

BigEndian(n) == [i \in 1..Width |-> (n \div 2^(Width - i)) % 2]
FromBigEndian(bytes) ==
    LET upTo[i \in 0..Width] == IF i = 0 THEN 0 ELSE 2 * upTo[i - 1] + bytes[i]
    IN  upTo[Width]

Terminator == <<0, 1>>

\* Mutant: a zero byte is left as it is.
EscapeKeyPlain(key) == key \o Terminator

\* A zero byte becomes two bytes above the terminator.
EscapeKey(key) ==
    LET from[i \in 1..(Len(key) + 1)] ==
            IF i > Len(key) THEN Terminator
            ELSE (IF key[i] = 0 THEN <<0, 255>> ELSE <<key[i]>>) \o from[i + 1]
    IN  from[1]

\* The user key in front of some data, and how many bytes it takes; consumed is 0
\* for data that EscapeKey does not write.
UnescapeKey(data) ==
    LET Bad == [key |-> <<>>, consumed |-> 0]
        Then(byte, rest) == IF rest = Bad THEN Bad ELSE [rest EXCEPT !.key = <<byte>> \o @]
        from[i \in 1..(Len(data) + 2)] ==
            IF i >= Len(data) THEN Bad
            ELSE IF data[i] # 0 THEN Then(data[i], from[i + 1])
            ELSE IF data[i + 1] = 1 THEN [key |-> <<>>, consumed |-> i + 1]
            ELSE IF data[i + 1] = 255 THEN Then(0, from[i + 2])
            ELSE Bad
    IN  from[1]

Inverted(ts) == 2^Width - 1 - ts

\* "!w", the user key, the timestamp.
kWritePrefix == <<33, 119>>
WriteKey(key, ts) == kWritePrefix \o EscapeKey(key) \o BigEndian(Inverted(ts))

NoWriteKey == [ok |-> FALSE, key |-> <<>>, ts |-> 0]
ParseWriteKey(data) ==
    LET user == UnescapeKey(SubSeq(data, 3, Len(data)))
        rest == SubSeq(data, 3 + user.consumed, Len(data))
    IN  IF Len(data) < 2 \/ SubSeq(data, 1, 2) # kWritePrefix \/ user.consumed = 0 \/ Len(rest) # Width
        THEN NoWriteKey
        ELSE [ok |-> TRUE, key |-> user.key, ts |-> Inverted(FromBigEndian(rest))]

\* Where TxnScan begins its walk: without the terminator.
SeekKey(start) ==
    LET seek == kWritePrefix \o EscapeKey(start) IN SubSeq(seek, 1, Len(seek) - 2)

\* Write records lie in the order of their user keys, those of one key side by side
\* and the newest first; a walk that begins at a key meets the records of this key
\* and of those above it, and reads from each the key and the timestamp it was
\* written for, whatever bytes a key has.
OrdersWriteKeys ==
    \A a, b \in UserKey : \A ts, us \in Timestamp :
        /\ Below(WriteKey(a, ts), WriteKey(b, us)) <=> Below(a, b) \/ (a = b /\ us < ts)
        /\ Below(WriteKey(a, ts), SeekKey(b)) <=> Below(a, b)
        /\ ParseWriteKey(WriteKey(a, ts)) = [ok |-> TRUE, key |-> a, ts |-> ts]

=============================================================================
