---------------------------- MODULE MCTransform -----------------------------
EXTENDS Transform

\* Monomials, constants at the limit, and coefficients of every size.
Monomial(k, c) == [j \in Index |-> IF j = k THEN c ELSE 0]
Constant(c) == [j \in Index |-> c]
Mixed(m) == [j \in Index |-> ((m * j * j + 7 * j + m) % 6657) - 3328]

MCPolys == {Monomial(0, 1), Monomial(1, 1), Monomial(255, -1664), Constant(3328), Constant(-3328)}
           \cup {Mixed(m) : m \in {1, 29, 641}}
MCFactors == {<<Monomial(1, 1), Constant(0), Constant(3328)>>,
              <<Monomial(128, 3328), Monomial(3, 1), Monomial(254, -1)>>,
              <<Mixed(97), Mixed(5), Mixed(211)>>}
=============================================================================
