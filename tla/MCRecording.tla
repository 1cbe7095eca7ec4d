---------------------------- MODULE MCRecording ----------------------------
(* Answers of the kinds models give, and two builds of the program. *)
EXTENDS Recording

MCAnswer ==
  {[text |-> <<"a">>, reasoning |-> <<>>, calls |-> <<>>],
   [text |-> <<"a">>, reasoning |-> <<"r">>,
    calls |-> <<[id |-> "1", name |-> "look", arguments |-> <<"x">>],
                [id |-> "2", name |-> "take", arguments |-> <<"z">>]>>]}

MCBuild == <<[system |-> "old", tools |-> "old tools"], [system |-> "new", tools |-> "new tools"]>>
=============================================================================
