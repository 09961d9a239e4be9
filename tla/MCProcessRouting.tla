-------------------------- MODULE MCProcessRouting --------------------------
(* An instance of ProcessRouting for TLC.                                  *)
EXTENDS ProcessRouting, TLC

CONSTANTS vlc, wps

MCTargetOrder == <<vlc, wps>>

\* The fixture scope of vlc and the experiment scope of wps.
MCScopes == {[kind |-> "alias", app |-> vlc], [kind |-> "automation", app |-> wps]}
=============================================================================
