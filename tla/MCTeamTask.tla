------------------------------ MODULE MCTeamTask ------------------------------
(* Instances of TeamTask for TLC.                                            *)
EXTENDS TeamTask

CONSTANTS alice, bob, carol

OneAgent    == <<alice>>
TwoAgents   == <<alice, bob>>
ThreeAgents == <<alice, bob, carol>>
=============================================================================
