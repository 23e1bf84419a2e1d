------------------------------- MODULE MCSql -------------------------------
(* Small instances of Sql for TLC. *)
EXTENDS Sql, TLC

CONSTANTS s1, s2, s3

Sessions == {s1, s2, s3}
Symmetry == Permutations(Sessions)

\* Every key of up to three of the bytes that an escape could get wrong.
UserKeys == UNION {[1..n -> {0, 1, 255}] : n \in 0..3}

Num(n) == [type |-> "int", is |-> n]
Text(bytes) == [type |-> "text", is |-> bytes]
Column(name, type, pk) == [name |-> name, type |-> type, pk |-> pk]
Where(column, op, v) == [column |-> column, op |-> op, literal |-> v]
Set(column, v) == [column |-> column, value |-> v]

\* A table of two columns, one of the same name with a single column, and
\* another table; statements of every kind, with and without errors.
Statements == {
    [op |-> "create", table |-> 1,
     columns |-> <<Column("a", "int", TRUE), Column("b", "int", FALSE)>>],
    [op |-> "create", table |-> 1, columns |-> <<Column("a", "int", TRUE)>>],
    [op |-> "create", table |-> 2, columns |-> <<Column("a", "text", TRUE)>>],
    [op |-> "drop", table |-> 1],
    [op |-> "insert", table |-> 1, columns |-> <<>>, rows |-> <<<<Num(1), Num(0)>>, <<Num(-1), Num(0)>>>>],
    [op |-> "insert", table |-> 1, columns |-> <<"b", "a">>, rows |-> <<<<Num(1), Num(-1)>>>>],
    [op |-> "insert", table |-> 1, columns |-> <<"a", "a">>, rows |-> <<<<Num(1), Num(-1)>>>>],
    [op |-> "insert", table |-> 1, columns |-> <<"a">>, rows |-> <<<<Num(1)>>>>],
    [op |-> "insert", table |-> 2, columns |-> <<"a">>, rows |-> <<<<Text(<<1>>)>>, <<Text(<<0>>)>>>>],
    [op |-> "select", table |-> 1, columns |-> <<>>, where |-> {}],
    [op |-> "select", table |-> 2, columns |-> <<"a">>, where |-> {Where("a", "<=", Text(<<1>>))}],
    [op |-> "update", table |-> 1, sets |-> <<Set("b", Num(1))>>, where |-> {Where("b", "=", Num(0))}],
    [op |-> "update", table |-> 1, sets |-> <<Set("a", Num(0))>>, where |-> {Where("a", "=", Num(1))}],
    [op |-> "delete", table |-> 1, where |-> {Where("a", "=", Num(1))}],
    [op |-> "delete", table |-> 1, where |-> {Where("b", ">", Num(0))}]}
=============================================================================
