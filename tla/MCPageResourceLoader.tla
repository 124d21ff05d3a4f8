------------------------ MODULE MCPageResourceLoader ------------------------
(* Loads 1 and 4 ask for the same resource.                                *)
EXTENDS PageResourceLoader
MCLoads == 1..4
MCKeyOf == [l \in MCLoads |-> l % 3]
MCKeys == 0..2
============================================================================
