---------------------------- MODULE MCAwgTraffic ----------------------------
(* A small instance of AwgTraffic for TLC. *)
EXTENDS AwgTraffic

\* The slot of one profile, with a row for either country.
MCRow == {<<1, "nl">>, <<1, "de">>}
=============================================================================
