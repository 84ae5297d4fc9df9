---------------------------- MODULE MCStringList ----------------------------
(* Every string of up to five bytes, and some with more tokens than the    *)
(* array has room for.                                                     *)
EXTENDS StringList

LibOnly == {<<"t1", "lib">>}
LibAndApp == {<<"t1", "lib">>, <<"t1", "app">>}

MCTexts ==
  UNION {[1..n -> {"x", ":"}] : n \in 0..5}
    \cup {<<"x", ":", "y", ":", "z">>, <<"x", ":", "y", ":", "z", ":", "w">>,
          <<":", ":", "x", ":", ":", "y", "z", ":", "w">>}

TwoTexts == {<<"x", ":", "y">>, <<"z">>}
=============================================================================
