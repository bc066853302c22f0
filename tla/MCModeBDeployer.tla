--------------------------- MODULE MCModeBDeployer ---------------------------
(* Two candidate bundles over three version numbers and two deploys.        *)
EXTENDS ModeBDeployer, TLC

CONSTANTS b1, b2

MCBundle == {b1, b2}
MCOptionalSets == {{}, {"ppo_policy"}}
Symmetry == Permutations(MCBundle)
=============================================================================
