------------------------------ MODULE MCSearch ------------------------------
EXTENDS Search

CONSTANTS r1, r2, r3, o1, t1, t2, p1, p2, f1, f2, f3

\* r1 is the person who opts out with o1.
SelfieOf == [a \in {r1, r2, r3, o1} |-> IF a \in {r1, o1} THEN t1 ELSE t2]
InPhoto == [f \in {f1, f2, f3} |-> IF f = f3 THEN p2 ELSE p1]
TierOf == [f \in {f1, f2, f3} |-> IF f = f3 THEN 1 ELSE 2]

\* t1 is f1, a close one, and f3, a borderline one; t2 is f2.
Distances ==
    [t \in {t1, t2} |-> [f \in {f1, f2, f3} |->
        IF t = t1 THEN CASE f = f1 -> 20 [] f = f3 -> 40 [] OTHER -> 90
        ELSE IF f = f2 THEN 15 ELSE 95]]
=============================================================================
