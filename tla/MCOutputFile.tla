---------------------------- MODULE MCOutputFile ----------------------------
(* A small torrent for TLC to check OutputFile on: see DownloadShortLast.cfg. *)
EXTENDS OutputFile
=============================================================================
