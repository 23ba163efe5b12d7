-------------------------- MODULE MCBlueprintRunner --------------------------
(***************************************************************************)
(* Blueprints of four roles: a diamond, two waves of two, a wide wave with *)
(* a tail, a chain after a pair, one that skips a wave, and a circular one *)
(* that is rejected.                                                       *)
(***************************************************************************)
EXTENDS BlueprintRunner

MCRoles == 1 .. 4

MCBlueprints ==
  { <<{}, {1}, {1}, {2, 3}>>,
    <<{}, {}, {1}, {1, 2}>>,
    <<{}, {}, {}, {1, 3}>>,
    <<{}, {}, {2}, {3}>>,
    <<{}, {}, {2}, {2, 3}>>,
    <<{1}, {}, {}, {}>> }
=============================================================================
