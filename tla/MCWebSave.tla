------------------------------ MODULE MCWebSave ----------------------------
(* One game and a hack of it that kept the header but has other RAM, an      *)
(* unrelated game with the same file name as the first, and a cartridge with *)
(* no battery.                                                               *)
EXTENDS WebSave

CONSTANTS game, hack, other, loose

MCCartId == [r \in Roms |-> IF r = hack THEN game ELSE r]
MCName == [r \in Roms |-> CASE r = other -> "game.gb" [] r = game -> "game.gb"
                            [] OTHER -> "else.gb"]
MCRamSize == [r \in Roms |-> CASE r = hack -> 2 [] r = loose -> 0 [] OTHER -> 1]
=============================================================================
