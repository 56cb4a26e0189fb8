------------------------------- MODULE MCScreen -------------------------------
EXTENDS Screen

\* Two places in the first row, one of them under the OSD, and one in the second.
MCRowOf == [c \in 1 .. 3 |-> IF c = 3 THEN 2 ELSE 1]

Grid(a, b, d) == [c \in 1 .. 3 |-> IF c = 1 THEN a ELSE IF c = 2 THEN b ELSE d]
X == [cp |-> 88, attr |-> 7]
Solid == [cp |-> 32, attr |-> Invalid]

\* Screens that differ under the OSD, beside it and below it.
MCGrids == {Grid(X, X, Blank), Grid(Blank, X, Blank), Grid(X, Blank, X)}
MCCursors == [at : {1, 2}, lit : {1}] \union [at : {3}, lit : {0}]

\* A screen with a cell white on white.
MCWhiteGrids == {Grid(Solid, X, Blank)}
=============================================================================
