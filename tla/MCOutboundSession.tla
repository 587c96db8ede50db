------------------------- MODULE MCOutboundSession -------------------------
(***************************************************************************)
(* Four courses of a session.  The dialling end says three bytes into a    *)
(* window of two, so that a range is taken in part; it says two over a     *)
(* network that has two segments under way to the listening end; the       *)
(* listening end says two over one that has two under way to the dialling  *)
(* end; and both say one.                                                  *)
(***************************************************************************)
EXTENDS OutboundSession

Course(a, b, toA, toB) ==
  [said |-> [A |-> a, B |-> b], net |-> [A |-> toA, B |-> toB]]

MCCourses == {Course(3, 0, 1, 1), Course(2, 0, 1, 2), Course(0, 2, 2, 1),
              Course(1, 1, 1, 1)}
=============================================================================
