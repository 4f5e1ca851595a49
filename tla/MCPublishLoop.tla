---------------------------- MODULE MCPublishLoop ----------------------------
(* TLC instance of PublishLoop: two fast topics, three messages and two     *)
(* subscribers.  The topics are model values of the configuration.          *)
EXTENDS PublishLoop, TLC
=============================================================================
