---------------------------- MODULE MCGpuRaster ----------------------------
(* GpuRaster for TLC: a scissor inside, beside and beyond the square.       *)
EXTENDS GpuRaster

MCScissors == {<<0, 0, 1, 1>>, <<1, 0, 1, 2>>, <<0, 1, 2, 0>>}
=============================================================================
