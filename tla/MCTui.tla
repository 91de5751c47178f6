------------------------------- MODULE MCTui --------------------------------
(* Two hosts with two datasets each; every operation of one menu is like    *)
(* another's of the same kind, so that one of each is enough.               *)
EXTENDS Tui

MCFilters == {{2}}
=============================================================================
