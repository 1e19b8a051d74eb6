--------------------------- MODULE FieldArithmetic ---------------------------
(***************************************************************************)
(* Tensor arithmetic over a field of P elements, with n |-> Root^n for exp.*)
(* SubSeq makes a sequence of a function, evaluated once.                  *)
(***************************************************************************)
EXTENDS Integers, Sequences

CONSTANTS P, Root
\* P is a prime and Root generates its multiplicative group.
FieldAssumption == /\ P \in Nat /\ P > 2 /\ Root \in 1..(P - 1)
                   /\ \A a \in 1..(P - 1) : \E b \in 1..(P - 1) : (a * b) % P = 1
ASSUME FieldAssumption

Power[n \in 0..(P - 2)] == IF n = 0 THEN 1 ELSE (Power[n - 1] * Root) % P
Exp(n) == Power[n % (P - 1)]

Vector(n, F(_)) == SubSeq([i \in 1..n |-> F(i) % P], 1, n)
Matrix(n, m, F(_, _)) == SubSeq([i \in 1..n |-> Vector(m, LAMBDA j : F(i, j))], 1, n)
Sum(n, F(_)) == LET upto[i \in 0..n] == IF i = 0 THEN 0 ELSE (upto[i - 1] + F(i)) % P IN upto[n]
Dot(x, y) == Sum(Len(x), LAMBDA i : x[i] * y[i])
Product(a, b) == Matrix(Len(a), Len(b[1]), LAMBDA i, j : Sum(Len(b), LAMBDA l : a[i][l] * b[l][j]))
Minus(a, b) == Matrix(Len(a), Len(a[1]), LAMBDA i, j : a[i][j] - b[i][j])
Eye(n) == Matrix(n, n, LAMBDA i, j : IF i = j THEN 1 ELSE 0)
\* torch.tril
Lower(a, diagonal) == Matrix(Len(a), Len(a[1]), LAMBDA i, j : IF j <= i + diagonal THEN a[i][j] ELSE 0)
=============================================================================
