---------------------------- MODULE MCLinkState -----------------------------
(* Three routers on a one-way ring, and a shortcut that comes and goes. *)
EXTENDS Routes

Ring == {<<1, 2>>, <<2, 3>>, <<3, 1>>}

Shortcut == {<<1, 3>>}
=============================================================================
