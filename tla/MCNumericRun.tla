---------------------------- MODULE MCNumericRun -----------------------------
\* A small instance of NumericRun: words of two, four and eight bits.
EXTENDS NumericRun

SomeLiterals == {-1, 0, 1, 3, 7}
SomeHalves == {-1, 0, 3}
SomeLaterNumbers == {-1, 3}
=============================================================================
