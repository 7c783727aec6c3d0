--------------------------- MODULE MCDiscVolume ---------------------------
(***************************************************************************)
(* DiscVolume on discs with a root directory of one or two entries and a    *)
(* second one of one or two.  Sector 3 is a directory the image lacks, 8 a  *)
(* file in the image and 9 one past its end.                                *)
(***************************************************************************)
EXTENDS DiscVolume, TLC

Names == {<<"a", "lower">>, <<"a", "upper">>, <<"b", "lower">>, <<"..", "lower">>}
File(s) == [dir |-> FALSE, sector |-> s]
Dir(s)  == [dir |-> TRUE, sector |-> s]
Targets == {File(8), File(9), Dir(1), Dir(2), Dir(3)}
Node(left, right, name, target) ==
    [left |-> left, right |-> right, name |-> name, dir |-> target.dir,
     sector |-> target.sector]

\* Trees of two nodes: well formed, with a loop, or leading out of the table.
RootTables ==
    {<<Node(0, 0, <<"a", "lower">>, t)>> : t \in Targets}
    \cup {<<Node(l, r, <<"a", "lower">>, t), Node(0, s, n, u)>> :
            l \in {0, 1}, r \in {1, Nil, 2}, s \in {0, 1}, n \in Names,
            t \in Targets, u \in Targets}
SubTables ==
    {<<Node(0, 0, <<"b", "lower">>, t)>> : t \in Targets}
    \cup {<<Node(0, 1, <<"b", "lower">>, File(8)), Node(0, 0, n, u)>> :
            n \in Names, u \in {File(8), Dir(2)}}

MCDiscs == {(1 :> r @@ 2 :> s) : r \in RootTables, s \in SubTables}
MCForbidden == {<<"..", "lower">>}
=============================================================================
