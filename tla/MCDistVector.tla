---------------------------- MODULE MCDistVector ----------------------------
(* Three routers in a line, and in a triangle that lacks the link from 3 to 1 *)
(* until the event file adds it; then the way from 3 to 2 over 1 is shorter   *)
(* than the link.  When the link from 2 to 1 of the line gets longer, 2 is    *)
(* offered by 3 the way back through 2 itself, and distances count up.        *)
EXTENDS DistVector

Line == [l \in {<<1, 2>>, <<2, 1>>, <<2, 3>>, <<3, 2>>} |-> 1]

Triangle == [l \in DOMAIN Line \cup {<<1, 3>>} |-> IF l \in {<<1, 2>>, <<1, 3>>} THEN 1 ELSE 3]

Files == {Line, Triangle}

Events ==
    {<<"CHANGE_LINK", <<2, 1>>, 3>>, <<"ADD_LINK", <<3, 1>>, 1>>, <<"DELETE_LINK", <<3, 1>>, 1>>}
=============================================================================
