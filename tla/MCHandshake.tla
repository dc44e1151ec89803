----------------------------- MODULE MCHandshake -----------------------------
EXTENDS Handshake

\* The built-in list, one that prefers what is fast, and one with classical suites only.
Lists == {<< >>, <<Classical, Hybrid>>, <<ClassicalAes, Classical>>}

=============================================================================
