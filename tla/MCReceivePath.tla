--------------------------- MODULE MCReceivePath ----------------------------
(***************************************************************************)
(* Lengths from 0 to 4 and one kind of byte: messages the watcher drops,   *)
(* the shortest it keeps, and longer ones.  A message of three bytes has a *)
(* wrong checksum, one of four bytes a right one.                          *)
(***************************************************************************)
EXTENDS ReceivePath, TLC

MCOk(payload) == Len(payload) = 4
=============================================================================
