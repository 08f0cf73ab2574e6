-------------------------------- MODULE MCPpu ------------------------------
(* A frame of four lines of six M-cycles.                                    *)
EXTENDS Ppu

MCSelections == {{}, {"lyc"}, {"oam"}, {"vblank"}, {"hblank"}, {"lyc", "hblank"}}
=============================================================================
