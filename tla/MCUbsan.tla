--------------------------------- MODULE MCUbsan ---------------------------------
(* One thread runs into every handler and prints every kind of directive, the *)
(* other one into some, so that reports meet each other and loose text.       *)
EXTENDS Ubsan

CONSTANTS t1, t2

MCHandlers == (t1 :> HandlerNames) @@ (t2 :> {"invalid_builtin", "float_cast_overflow"})

\* The ends of each width, an unsigned value past the signed ones, fields as
\* wide as the number and wider, and the other conversions.
MCDirectives ==
  {Directive(c, n) : c \in {"d", "u", "x"}, n \in {0, 7, 8, -8, 15, 255}} \cup
  {[Directive(c, n) EXCEPT !.long = l] : c \in {"d", "u", "X"}, l \in {1, 2, 3}, n \in {127, -128, 170}} \cup
  {[Directive(c, n) EXCEPT !.width = w, !.pad = "0"] : c \in {"d", "X"}, w \in {1, 2, 3}, n \in {5, -5, 12}} \cup
  {Directive("p", 240), String("text"), String(Null), [String("c") EXCEPT !.conv = "c"], Directive("%", 0), Directive("q", 0)}

MCFewHandlers == (t1 :> {"builtin_unreachable"}) @@ (t2 :> {"type_mismatch"})
MCNothing == (t1 :> {}) @@ (t2 :> {})

MCPrinted == (t1 :> MCDirectives) @@ (t2 :> {})

Unknown == [filename |-> Null, line |-> 0, column |-> 0]
MCLocations == (t1 :> {[filename |-> "a.c", line |-> 3, column |-> 12], Unknown}) @@ (t2 :> {Unknown})
MCTypes == (t1 :> {"int", Null}) @@ (t2 :> {"int"})
MCStacks == {<<200, 16>>, <<5>>}
MCNumbers == {4}
MCPointers == {160, 10}
================================================================================
