---------------------------- MODULE MCSeasonTotal ----------------------------
(* Three addresses who may invite each other, one of them a project's      *)
(* vault, one pool, and a block on each side of the end of the season.     *)
EXTENDS SeasonTotal

CONSTANTS a, b, c, p
==============================================================================
