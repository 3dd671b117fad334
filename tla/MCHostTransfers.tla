--------------------------- MODULE MCHostTransfers ---------------------------
(* Instances of HostTransfers for TLC: objects of three and four tokens that  *)
(* begin with the marker "m", and every prompt of up to five tokens.          *)
EXTENDS HostTransfers

Skill(seq, chunk, digests) ==
  [tokens |-> seq, marker |-> <<"m">>, chunk |-> chunk, digests |-> digests, position |-> 2]

MCObjects ==
  {Skill(<<"m", "a", "a">>, 2, TRUE), Skill(<<"m", "a", "m", "a">>, 1, TRUE),
   Skill(<<"m", "a">>, 1, FALSE)}
OneObject == {Skill(<<"m", "a", "a">>, 2, TRUE)}

MCPrompts == UNION {[1 .. n -> {"m", "a"}] : n \in {1, 2, 5}}
OnePrompt == {<<"m">>}
==============================================================================
