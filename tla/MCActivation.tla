---------------------------- MODULE MCActivation ----------------------------
(* Small instances of Activation for TLC.                                  *)
EXTENDS Activation

CONSTANTS good, wrong, invalid, token, h1, h2

\* The validator address of wrong is not the pool wallet's, and its api_addr is empty.
MixedDrafts   == {good, wrong, invalid}
MixedSettings == {good, wrong}
=============================================================================
