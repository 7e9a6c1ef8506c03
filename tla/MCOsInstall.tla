----------------------------- MODULE MCOsInstall -----------------------------
(***************************************************************************)
(* Instance for TLC: an image announced as 3 bytes and read in chunks of   *)
(* 2, so that the last chunk is short; the file may have been emptied, cut *)
(* or grown between getsize() and the reads.                               *)
(***************************************************************************)
EXTENDS OsInstallInv

MCFileLengths == {0, 2, 3, 5}
=============================================================================
