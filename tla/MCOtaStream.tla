---------------------------- MODULE MCOtaStream ----------------------------
(* Headers of two bytes, pieces of three, sectors of four and partitions of *)
(* two sectors keep the order of the code's 128, 2047 and 4096.  The image  *)
(* lengths put the ends of both images at every place relative to a piece   *)
(* and to a sector, and beyond the partition.                               *)
EXTENDS OtaStream

MCLens == 2..9
MCJunk == [addr : {0, 1, 2}, bin : {-1, 1, 4, 9}, ota : BOOLEAN]
=============================================================================
