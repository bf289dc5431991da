---------------------------- MODULE MCActivation ----------------------------
(***************************************************************************)
(* Two names stand for the seven files of an activation: a token, and the  *)
(* configuration that is replaced last.                                    *)
(***************************************************************************)
EXTENDS Activation

TwoNames == <<"profile.token", "config.json">>
=============================================================================
