------------------------------ MODULE MCPlanning ------------------------------
(***************************************************************************)
(* Small instances of Planning for TLC.                                    *)
(***************************************************************************)
EXTENDS Planning

OnePost == {1}
TwoPosts == {1, 2}
OneChannel == {1}

Backoff == <<1, 2, 3>>
================================================================================
