---------------------------- MODULE MCToolCalls ----------------------------
(* Instances of ToolCalls for TLC. *)
EXTENDS ToolCalls

CONSTANTS plain, other, c1, c2

C(id, n) == [id |-> id, name |-> n, wellFormed |-> TRUE]
Malformed(id, n) == [id |-> id, name |-> n, wellFormed |-> FALSE]

(* Three calls that may run in parallel, in turn or mixed, two of which    *)
(* share an id; a call without an id and a malformed one; a truncated      *)
(* message.  Each may come twice.                                          *)
SmallMessages == {
    [calls |-> <<C(c1, plain), C(c2, plain), C(c2, other)>>, truncated |-> FALSE],
    [calls |-> <<C(NoId, other), Malformed(c1, plain)>>, truncated |-> FALSE],
    [calls |-> <<C(c2, plain)>>, truncated |-> TRUE]}

(* No filter, and one that lets one of the tools through. *)
SmallFilters == {{}, {plain}}
=============================================================================
