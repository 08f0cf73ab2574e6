----------------------------- MODULE MCPipeline ----------------------------
(* A line of sixteen pixels, two writes to its registers.                    *)
EXTENDS PixelPipeline

MCObjectLists == {<<>>, <<0, 8>>, <<5>>, <<13, 10>>, <<6, 3, 12>>, <<23>>}
=============================================================================
