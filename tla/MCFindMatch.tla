----------------------------- MODULE MCFindMatch -----------------------------
(* Names and lists on which the lookup meets every special case: repeated, *)
(* leading and trailing slashes, "./", the root, a working directory "/",  *)
(* no working directory, a component too long for the buffer.              *)
EXTENDS FindMatch

Abs(c) == [root |-> TRUE, comps |-> c]
Rel(c) == [root |-> FALSE, comps |-> c]

MCComponent == {"", ".", "a", "b", "long"}
MCLong == {"long"}
MCNames ==
  {Abs(<<"">>), Abs(<<"a">>), Abs(<<"a", "b">>), Abs(<<"a", "b", "">>),
   Abs(<<"a", "", "b">>), Abs(<<"a", "long">>), Abs(<<"a", "b", "a">>),
   Rel(<<"">>), Rel(<<"b">>), Rel(<<".", "b">>), Rel(<<"b", "">>), Rel(<<".">>),
   Rel(<<"b", "a">>)}
MCEntries ==
  {Abs(<<"">>), Abs(<<"a">>), Abs(<<"a", "b">>), Abs(<<"a", "b", "">>), Abs(<<"a", "long">>)}
MCCwds == {Abs(<<"">>), Abs(<<"a">>), NULL}
=============================================================================
