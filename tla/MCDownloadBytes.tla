-------------------------- MODULE MCDownloadBytes --------------------------
(* A small torrent for TLC to check DownloadBytes on: see DownloadTight.cfg. *)
EXTENDS DownloadBytes
=============================================================================
