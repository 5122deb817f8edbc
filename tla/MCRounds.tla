------------------------------- MODULE MCRounds ------------------------------
(* A round of two heats, two layouts, two consoles. *)
EXTENDS Rounds, TLC

CONSTANTS odd, even, first, second, desk, tent

Config(layouts, scoring, seeding) ==
    [layouts |-> layouts, scoring |-> scoring, seeding |-> seeding, defined |-> TRUE]

MCFirst == Config(<<odd, even>>, 1, "roster")
MCConfigs == {MCFirst, Config(<<odd>>, 2, "carry")}

Interchangeable == Permutations(Editors) \cup Permutations(Standings)
==============================================================================
