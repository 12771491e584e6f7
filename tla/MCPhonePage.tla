---------------------------- MODULE MCPhonePage ----------------------------
(* A small instance of PhonePage: one POST and two polls at once.          *)
EXTENDS PhonePage
=============================================================================
