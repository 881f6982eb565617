-------------------------------- MODULE MCFeeds --------------------------------
(***************************************************************************)
(* An instance of Feeds for TLC: one source, one symbol that is listed     *)
(* shortly before the start-up.                                            *)
(***************************************************************************)
EXTENDS Feeds

FirstCandle == 1
FinalCandle == 4
=============================================================================
