--------------------------- MODULE MC_MapService ----------------------------
(***************************************************************************)
(* Two maps and two calls: one given up and one made after it, or one each *)
(* of two clients, in any mix of the three callers.                        *)
(***************************************************************************)
EXTENDS MapService

CONSTANTS m1, m2
MCMap == {m1, m2}
MCOneMap == {m1}
=============================================================================
