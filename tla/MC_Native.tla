----------------------------- MODULE MC_Native -----------------------------
(***************************************************************************)
(* An instance of NativeWatcher: two directories in the root that may have *)
(* one directory each, and a place outside of the root.                    *)
(***************************************************************************)
EXTENDS NativeWatcher

Names == {"r", "a", "b", "c", ".git", "o"}
TheRoot == <<"r">>
Places == {<<"r">>, <<"r", "a">>, <<"r", "b">>, <<"r", "a", "c">>, <<"r", "b", "c">>,
           <<"r", ".git">>, <<"o">>, <<"o", "c">>}
Numbered == [p \in Places |->
  CASE p = <<"r">> -> 1 [] p = <<"r", "a">> -> 2 [] p = <<"r", "a", "c">> -> 3 [] OTHER -> 0]
=============================================================================
