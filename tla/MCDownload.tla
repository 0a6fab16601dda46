----------------------------- MODULE MCDownload -----------------------------
(* Small torrents for TLC to check Download on: see the .cfg files.        *)
EXTENDS Download
=============================================================================
