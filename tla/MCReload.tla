------------------------------ MODULE MCReload ------------------------------
(* Small instances of Reload: three policies for two images.  From p1 to   *)
(* p2, image a keeps its spec and b changes; p3 has no pool for a.         *)
EXTENDS Reload, TLC

CONSTANTS a, b, p1, p2, p3, small, large

MCPoolSpecFor ==
    p1 :> (a :> small @@ b :> small) @@
    p2 :> (a :> small @@ b :> large) @@
    p3 :> (a :> NoPool @@ b :> large)
=============================================================================
