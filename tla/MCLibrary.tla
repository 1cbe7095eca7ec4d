----------------------------- MODULE MCLibrary -----------------------------
(* A village of two locations in several files, most of them unusable. *)
EXTENDS Library, TLC

Village ==
  [locations |-> <<"shop", "lane">>, start |-> "lane", npcs |-> <<"shop">>,
   paths |-> <<[from |-> "lane", to |-> "shop", time |-> 0]>>,
   types |-> <<"food", "tool">>, spells |-> <<>>,
   items |-> <<[type |-> "food", at |-> "shop"], [type |-> "tool", at |-> "lane"]>>]

MCScenario ==
  {Village,
   [Village EXCEPT !.npcs = <<>>, !.items = <<>>],
   [Village EXCEPT !.locations = <<"shop", "lane", "shop">>],
   [Village EXCEPT !.start = "inn"],
   [Village EXCEPT !.npcs = <<"inn">>],
   [Village EXCEPT !.paths[1].to = "inn"],
   [Village EXCEPT !.paths[1].to = "lane"],
   [Village EXCEPT !.paths[1].time = -1],
   [Village EXCEPT !.types = <<"food", "tool", "food">>],
   [Village EXCEPT !.spells = <<"light", "light">>],
   [Village EXCEPT !.items[1].type = "arms"],
   [Village EXCEPT !.items[2].at = "inn"]}

Symmetric == Permutations(User) \cup Permutations(World)
=============================================================================
