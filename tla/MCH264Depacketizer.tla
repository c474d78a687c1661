------------------------ MODULE MCH264Depacketizer ------------------------
(* Single payloads, unsupported ones, and two to six fragments against a   *)
(* buffer of five bytes: six fragments do not fit.                         *)
EXTENDS H264Depacketizer

AllShapes == {0, 1, 2, 3, 4, 6}
=============================================================================
