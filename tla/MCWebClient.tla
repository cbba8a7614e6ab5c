----------------------------- MODULE MCWebClient -----------------------------
(* Instances of WebClient for TLC.                                           *)
EXTENDS WebClient

CONSTANTS one, two
=============================================================================
