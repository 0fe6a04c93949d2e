------------------------ MODULE MCCompressorControl ------------------------
(* CompressorControl for TLC.  One unit of time stands for 15 s, which     *)
(* keeps the configuration's proportions: V-4 30 s, re-assertion 60 s,     *)
(* dwell 180 s.                                                            *)
EXTENDS CompressorControl

MCAllModes == Mode
=============================================================================
