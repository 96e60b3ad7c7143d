----------------------------- MODULE MCScreens -----------------------------
(* A small text screen for TLC.                                            *)
EXTENDS TextScreen

MCBy == -1 .. 2
MCAt == -1 .. 3
=============================================================================
