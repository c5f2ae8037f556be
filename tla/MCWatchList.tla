---------------------------- MODULE MCWatchList -----------------------------
(* Small instances of WatchList for TLC; the cfg file gives the values.    *)
EXTENDS WatchList
=============================================================================
