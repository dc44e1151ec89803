--------------------------- MODULE MCSsmSessions ---------------------------
(* Small instances of SsmSessions for TLC. *)
EXTENDS SsmSessions

CONSTANT k

OneName == {k}
NoFlags == {{}}
AllPermissions == {{"sign", "decapsulate"}}
AnyDomain == {{}}
SessionSymmetry == Permutations(Thread) \cup Permutations(Token)
=============================================================================
