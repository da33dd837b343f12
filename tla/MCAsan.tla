--------------------------------- MODULE MCAsan ---------------------------------
(* Three granules of four bytes. *)
EXTENDS Asan

R(b, n) == [beg |-> b, size |-> n]
G(b, n, p) == [beg |-> b, size |-> n, padded |-> p]

\* Whole granules, and ranges that begin and end inside one: their granules hold
\* bytes of other ranges before and after them.
SomeRegions == {R(0, 8), R(2, 4), R(5, 2), R(9, 3)}
SomeGlobals == {<<G(0, 5, 8)>>, <<G(4, 0, 4), G(8, 2, 4)>>}
SomeFrames == {R(4, 4)}

\* Accesses inside a granule, and one that spans two.
SomeAccesses == {R(0, 4), R(2, 2), R(5, 1), R(6, 4), R(9, 2)}

\* The first granule has short addresses.
LongAddresses == 4 .. 11
=============================================================================
