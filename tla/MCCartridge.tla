----------------------------- MODULE MCCartridge ---------------------------
(* One header of each kind the loader tells apart, and a clock whose seconds *)
(* run 0 and 1 in a register of four values, whose minutes and hours carry   *)
(* at once, and whose days end after four.                                   *)
EXTENDS Cartridge

Header(type, romCode, ramCode, logos) ==
  [type |-> type, romCode |-> romCode, ramCode |-> ramCode, logos |-> logos]

MCHeaders ==
  {Header(0, 0, 0, 1), Header(1, 8, 0, 1), Header(3, 5, 3, 4), Header(3, 5, 0, 2),
   Header(6, 3, 3, 1), Header(15, 1, 3, 1), Header(16, 6, 2, 1), Header(17, 2, 3, 1),
   Header(19, 6, 3, 1), Header(27, 8, 5, 1), Header(30, 1, 4, 1),
   Header(32, 0, 2, 1), Header(0, 9, 0, 1)}

Enabling == {<<\h0000, \h0A>>, <<\h1EFF, 0>>}
Latching == {<<\h6000, 0>>}
Banking == {<<\h2000, 0>>, <<\h2100, \h10>>, <<\h2FFF, \hFF>>, <<\h3000, 1>>,
            <<\h4000, 3>>, <<\h5FFF, \h0B>>, <<\h6000, 0>>, <<\h7FFF, 1>>}

MCControlWrites ==
  [h \in MCHeaders |->
    Enabling \cup
    CASE h.type = 15 -> Latching \cup {<<\h4000, byte>> : byte \in {8, 9, 11, 12}}
      [] h.type = 16 -> {<<\h4000, byte>> : byte \in {0, 8, 12}}
      [] OTHER -> Banking]

MCRomAddresses == {0, \h3FFF, \h4000, \h7FFF}
MCRamAddresses == {\hA000, \hBFFF}

MCLimit == [seconds |-> 1, minutes |-> 0, hours |-> 0]
MCSpan == [seconds |-> 4, minutes |-> 2, hours |-> 1]
MCClockWrites == [seconds |-> {0, 3, 6}, minutes |-> {0, 1}, hours |-> {0, 1}, dayLow |-> {0, 1}]
MCDayHighWrites == {{}, {"day8"}, {"halt", "unwired"}, {"day8", "carry"}}

FileRegs(seconds, minutes, hours, dayLow, dayHigh) ==
  [seconds |-> seconds, minutes |-> minutes, hours |-> hours, dayLow |-> dayLow, dayHigh |-> dayHigh]

MCFooters ==
  {[live |-> FileRegs(255, 7, 9, 1, {"day8", "carry", "unwired"}),
    latched |-> FileRegs(6, 255, 0, 0, {"halt", "unwired"})]}
=============================================================================
