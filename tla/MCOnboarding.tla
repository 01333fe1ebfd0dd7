---------------------------- MODULE MCOnboarding ----------------------------
(* A small instance of Onboarding for TLC. *)
EXTENDS Onboarding

CONSTANTS puck, old_puck, discord, matrix

MCAgent == {puck, old_puck}
MCChannel == {telegram, discord, matrix}
MCEnds == {<<puck, old_puck>>}

\* env.example has placeholders for two tokens of puck.
MCTemplate == [agent : {puck}, kind : {telegram, discord}]
=============================================================================
