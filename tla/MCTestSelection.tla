--------------------------- MODULE MCTestSelection ---------------------------
(* Patterns of one and two scopes over two names, and any name.            *)
EXTENDS TestSelection

CONSTANTS a, b

Regexes == {{a}, {b}, {a, b}}
ShortPatterns == {<<x>> : x \in Regexes} \cup {<<x, y>> : x, y \in Regexes}
=============================================================================
