---------------------------- MODULE CursorState ----------------------------
(***************************************************************************)
(* cursor/mod.rs: the state of an iterator, kept apart from what it walks  *)
(* so that the structure can change between two steps.  What it captures   *)
(* of the structure when it opens, and whether its end is fixed or read at *)
(* every step, is the structure's to say; the cursor counts ordinals.      *)
(*                                                                         *)
(* seen, fresh and ended are history: what the walk has reported, whether  *)
(* nothing was called since it opened, and whether it has answered Done    *)
(* (it has no such flag itself, and goes on when its end moves).           *)
(***************************************************************************)
EXTENDS Integers, Sequences

CONSTANT None

OpenCursor(frozen, len) ==
    [frozen |-> frozen, len |-> len, ordinal |-> 0,
     seen |-> <<>>, fresh |-> TRUE, ended |-> FALSE]

(* Mutant: the walk goes one past its end.                                 *)
StepCursorPastEnd(w, limit, item) ==
    IF w.ordinal > limit
    THEN [w EXCEPT !.ended = TRUE]
    ELSE [w EXCEPT !.ordinal = @ + 1,
                   !.seen = IF item = None THEN @ ELSE Append(@, item)]

(* item is what the structure has at the ordinal, None where it is a Gap.  *)
StepCursor(w, limit, item) ==
    IF w.ordinal >= limit
    THEN [w EXCEPT !.ended = TRUE]
    ELSE [w EXCEPT !.ordinal = @ + 1,
                   !.seen = IF item = None THEN @ ELSE Append(@, item)]

Disturbed(w) == [w EXCEPT !.fresh = FALSE]
=============================================================================
