------------------------------- MODULE Cartridge -----------------------------
(***************************************************************************)
(* A cartridge (core/Cartridge, core/mbc) as a front end handles it: the   *)
(* image made from a ROM's header, kept pristine beside the machine's own  *)
(* copy (app/AppController), the bank registers of its controller, the RAM *)
(* that controller reaches through a pointer, and its clock.               *)
(*                                                                         *)
(* A ROM is the header bytes that decide something and the number of logos *)
(* found in it.  RAM is the function of the cells that were written; all   *)
(* others hold 0.  What a ROM bank contains, headerChecksumOk_ and the     *)
(* texts of errors are left out.                                           *)
(***************************************************************************)
EXTENDS Rtc

CONSTANTS
  Headers,        \* ROMs to load: [type, romCode, ramCode, logos]
  ControlWrites,  \* ControlWrites[header]: what its program writes below 8000: <<address, byte>>
  RomAddresses,   \* addresses read below 8000
  RamAddresses,   \* addresses read and written in A000-BFFF
  RamBytes,       \* bytes written there
  ClockWrites,    \* ClockWrites[reg]: bytes written to a clock register
  DayHighWrites,  \* bytes written to dayHigh, as the sets of their bits
  Footers,        \* clocks in files from elsewhere: [live, latched], any width
  Elapsed,        \* seconds a machine was off
  MaxCatchUp      \* bound: catching up is compared with this many seconds

Bytes == 0..255
RomSpace == {a \in Nat : a < 32768}
RamSpace == {a \in Nat : 40960 <= a /\ a < 49152}

DayHighByte == DayHighBits \cup {"unwired"}

\* Registers as read from a file: bytes, whatever their width in the chip.
FileRegisters == [seconds : Bytes, minutes : Bytes, hours : Bytes,
                  dayLow : 0..(DayLowSize - 1), dayHigh : SUBSET DayHighByte]

ASSUME HeadersAssumption ==
  Headers \subseteq [type : Bytes, romCode : Bytes, ramCode : Bytes, logos : 0..4]

ASSUME ControlWritesAssumption ==
  \A h \in Headers : ControlWrites[h] \subseteq RomSpace \X Bytes

ASSUME AddressesAssumption ==
  /\ RomAddresses \subseteq RomSpace
  /\ RamAddresses \subseteq RamSpace
  /\ RamBytes \subseteq Bytes

ASSUME ClockWritesAssumption ==
  \A reg \in Counters \cup {"dayLow"} : ClockWrites[reg] \subseteq Bytes

ASSUME DayHighWritesAssumption == \A bits \in DayHighWrites : bits \subseteq DayHighByte

ASSUME FootersAssumption ==
  \A footer \in Footers : footer.live \in FileRegisters /\ footer.latched \in FileRegisters

ASSUME ElapsedAssumption == Elapsed \subseteq Nat /\ MaxCatchUp \in Nat

-----------------------------------------------------------------------------
(* What Cartridge::load makes of a header.                                 *)

RomBankSize == 16384
RamBankSize == 8192

Kind(type) ==
  CASE type = 0 -> "RomOnly"
    [] type \in 1..3 -> "Mbc1"
    [] type \in 5..6 -> "Mbc2"
    [] type \in 15..19 -> "Mbc3"
    [] type \in 25..30 -> "Mbc5"
    [] OTHER -> "unsupported"

Loads(h) == Kind(h.type) # "unsupported" /\ h.romCode <= 8

RamTypes == {2, 3, 16, 18, 19, 26, 27, 29, 30}
HasBattery(h) == h.type \in {3, 6, 15, 16, 19, 27, 30}
HasTimer(h) == h.type \in {15, 16}
Rumble(h) == h.type \in 28..30

RamBanksFor(code) == CASE code = 3 -> 4 [] code = 4 -> 16 [] code = 5 -> 8 [] OTHER -> 1

\* 0 where the controller masks no RAM bank: no RAM, or MBC2's own.
RamBanks(h) == IF h.type \in RamTypes THEN RamBanksFor(h.ramCode) ELSE 0
RamSize(h) == IF Kind(h.type) = "Mbc2" THEN 512 ELSE RamBanks(h) * RamBankSize
RomBanks(h) == <<2, 4, 8, 16, 32, 64, 128, 256, 512>>[h.romCode + 1]

\* A 1 MiB image with a logo at three or more of its 256 KiB boundaries.
Multicart(h) == h.romCode = 5 /\ h.logos >= 3

\* The registers of all controllers: romBank is bankLow_, romBank_ or
\* romBankLow_, high bankHigh_ or romBankHigh_, ramSelect ramSelect_ or ramBank_.
PowerOnRegisters(h) ==
  [ramEnabled |-> FALSE, romBank |-> IF Kind(h.type) = "Mbc1" THEN 0 ELSE 1,
   high |-> 0, mode1 |-> FALSE, ramSelect |-> 0]

NoRam == [cell \in {} |-> 0]

\* A new cartridge.  `bound' is whose RAM its controller points at: while it
\* is being loaded, that of a variable that will not outlive the call.
Loaded(h) ==
  [header |-> h, regs |-> PowerOnRegisters(h), ram |-> NoRam, bound |-> "local",
   clock |-> NewClock]

\* A cartridge copied or moved to `owner': bindMbc points it at its own RAM.
Owned(cart, owner) == [cart EXCEPT !.bound = owner]

-----------------------------------------------------------------------------
(* The controllers.                                                        *)

KindOf(cart) == Kind(cart.header.type)

\* A bank number and (count - 1), for the counts RomBanks and RamBanks have: a
\* power of two, or 0, whose mask lets every number through.
Masked(bank, count) == IF count = 0 THEN bank ELSE bank % count

Mbc1RomBank(cart, address) ==
  LET regs == cart.regs
      multicart == Multicart(cart.header)
      high == regs.high * (IF multicart THEN 16 ELSE 32)
      low == IF regs.romBank = 0 THEN 1 ELSE regs.romBank
  IN  IF address < \h4000 THEN IF regs.mode1 THEN high ELSE 0
      ELSE high + (IF multicart THEN low % 16 ELSE low)

RomBank(cart, address) ==
  CASE KindOf(cart) = "Mbc1" -> Mbc1RomBank(cart, address)
    [] KindOf(cart) # "Mbc1" /\ address < \h4000 -> 0
    [] OTHER -> IF KindOf(cart) = "Mbc5" THEN 256 * cart.regs.high + cart.regs.romBank
                ELSE cart.regs.romBank

RomOffset(cart, address) ==
  Masked(RomBank(cart, address), RomBanks(cart.header)) * RomBankSize + (address % RomBankSize)

ClockSelected(cart) == HasTimer(cart.header) /\ cart.regs.ramSelect \in 8..12

\* Mutant: RAM that is enabled is reachable, fitted or not.
RamReachableUnfitted(cart) ==
  /\ KindOf(cart) # "RomOnly"
  /\ cart.regs.ramEnabled
  /\ KindOf(cart) = "Mbc3" => cart.regs.ramSelect <= 3

\* The empty vector of a cartridge without RAM is never indexed.
RamReachable(cart) ==
  /\ KindOf(cart) # "RomOnly"
  /\ cart.regs.ramEnabled
  /\ KindOf(cart) = "Mbc3" => cart.regs.ramSelect <= 3
  /\ RamSize(cart.header) > 0

RamBank(cart) ==
  Masked(IF KindOf(cart) # "Mbc1" THEN cart.regs.ramSelect
         ELSE IF cart.regs.mode1 THEN cart.regs.high ELSE 0,
         RamBanks(cart.header))

RamOffset(cart, address) ==
  IF KindOf(cart) = "Mbc2" THEN (address - \hA000) % 512
  ELSE RamBank(cart) * RamBankSize + (address - \hA000)

Enables(byte) == byte % 16 = 10
ZeroIsOne(bank) == IF bank = 0 THEN 1 ELSE bank

Mbc1Control(regs, address, byte) ==
  CASE address < \h2000 -> [regs EXCEPT !.ramEnabled = Enables(byte)]
    [] address \in \h2000..\h3FFF -> [regs EXCEPT !.romBank = byte % 32]
    [] address \in \h4000..\h5FFF -> [regs EXCEPT !.high = byte % 4]
    [] OTHER -> [regs EXCEPT !.mode1 = (byte % 2 = 1)]

Mbc2Control(regs, address, byte) ==
  CASE address >= \h4000 -> regs
    [] address < \h4000 /\ (address \div 256) % 2 = 0 -> [regs EXCEPT !.ramEnabled = Enables(byte)]
    [] OTHER -> [regs EXCEPT !.romBank = ZeroIsOne(byte % 16)]

Mbc3Control(regs, address, byte) ==
  CASE address < \h2000 -> [regs EXCEPT !.ramEnabled = Enables(byte)]
    [] address \in \h2000..\h3FFF -> [regs EXCEPT !.romBank = ZeroIsOne(byte % 128)]
    [] address \in \h4000..\h5FFF -> [regs EXCEPT !.ramSelect = byte % 16]
    [] OTHER -> regs

Mbc5Control(regs, address, byte, rumble) ==
  CASE address < \h2000 -> [regs EXCEPT !.ramEnabled = Enables(byte)]
    [] address \in \h2000..\h2FFF -> [regs EXCEPT !.romBank = byte]
    [] address \in \h3000..\h3FFF -> [regs EXCEPT !.high = byte % 2]
    [] address \in \h4000..\h5FFF -> [regs EXCEPT !.ramSelect = byte % (IF rumble THEN 8 ELSE 16)]
    [] OTHER -> regs

\* The registers after a write below 8000.
Control(cart, address, byte) ==
  CASE KindOf(cart) = "Mbc1" -> Mbc1Control(cart.regs, address, byte)
    [] KindOf(cart) = "Mbc2" -> Mbc2Control(cart.regs, address, byte)
    [] KindOf(cart) = "Mbc3" -> Mbc3Control(cart.regs, address, byte)
    [] KindOf(cart) = "Mbc5" -> Mbc5Control(cart.regs, address, byte, Rumble(cart.header))
    [] OTHER -> cart.regs

-----------------------------------------------------------------------------
NoCart == [header |-> "none"]

VARIABLES
  pristine,  \* AppController::pristine_
  machine    \* the cartridge of the machine, GameBoy::cart_

vars == <<pristine, machine>>

Running == machine # NoCart

Init ==
  /\ pristine = NoCart
  /\ machine = NoCart

\* loadSave: the RAM and the clock of a file, and the time since it was written.
Restored(cart, ram, live, latched, elapsed) ==
  [cart EXCEPT
    !.ram = ram,
    !.clock = IF HasTimer(cart.header)
              THEN [SetState(live, latched) EXCEPT !.live = AdvanceSeconds(@, elapsed)]
              ELSE @]

\* A ROM is opened that has no save beside it.
OpenRom == \E h \in Headers :
  IF Loads(h)
  THEN /\ pristine' = Owned(Loaded(h), "pristine")
       /\ machine' = Owned(Loaded(h), "machine")
  ELSE /\ pristine' = NoCart
       /\ machine' = NoCart

\* A ROM with a clock is opened, and beside it a save from elsewhere.
OpenForeignSave == \E h \in Headers, footer \in Footers, elapsed \in Elapsed :
  /\ Loads(h)
  /\ HasTimer(h)
  /\ pristine' = Owned(Loaded(h), "pristine")
  /\ machine' = Restored(Owned(Loaded(h), "machine"), NoRam, footer.live, footer.latched, elapsed)

\* The machine is saved and switched off, and the same ROM opened later.
PowerCycle == \E elapsed \in Elapsed :
  /\ Running
  /\ HasBattery(machine.header)
  /\ pristine' = Owned(Loaded(machine.header), "pristine")
  /\ machine' = Restored(Owned(Loaded(machine.header), "machine"), machine.ram,
                         machine.clock.live, machine.clock.latched, elapsed)

\* The pristine image with what the battery kept.
Kept ==
  [pristine EXCEPT
    !.ram = IF HasBattery(machine.header) THEN machine.ram ELSE @,
    !.clock = IF HasTimer(machine.header)
              THEN SetState(machine.clock.live, machine.clock.latched) ELSE @]

\* Mutant: the pristine image itself is given what the battery kept.
ResetInPlace ==
  /\ Running
  /\ pristine' = Kept
  /\ machine' = Owned(Kept, "machine")

Reset ==
  /\ Running
  /\ machine' = Owned(Kept, "machine")
  /\ UNCHANGED pristine

Tick ==
  /\ Running
  /\ HasTimer(machine.header)
  /\ machine' = [machine EXCEPT !.clock = TickClock(@)]
  /\ UNCHANGED pristine

\* A write below 8000; to 6000-7FFF of a clock's controller, the latch.
Controlled(cart, address, byte) ==
  [cart EXCEPT !.regs = Control(cart, address, byte),
               !.clock = IF HasTimer(cart.header) /\ address >= \h6000 THEN Latch(@) ELSE @]

ControlWrite ==
  /\ Running
  /\ \E write \in ControlWrites[machine.header] :
       machine' = Controlled(machine, write[1], write[2])
  /\ UNCHANGED pristine

\* A write to A000-BFFF that reaches a register of the clock.
ClockWrite ==
  /\ Running
  /\ machine.regs.ramEnabled
  /\ ClockSelected(machine)
  /\ LET reg == <<"seconds", "minutes", "hours", "dayLow", "dayHigh">>[machine.regs.ramSelect - 7]
     IN  \E value \in (IF reg = "dayHigh" THEN DayHighWrites ELSE ClockWrites[reg]) :
           machine' = [machine EXCEPT !.clock = WriteRegister(@, reg, value)]
  /\ UNCHANGED pristine

Stored(ram, cell, byte) ==
  [c \in DOMAIN ram \cup {cell} |-> IF c = cell THEN byte ELSE ram[c]]

\* A write to A000-BFFF that reaches the RAM the controller points at.
RamWrite == \E address \in RamAddresses, byte \in RamBytes :
  /\ Running
  /\ RamReachable(machine)
  /\ LET cell == RamOffset(machine, address)
         value == IF KindOf(machine) = "Mbc2" THEN byte % 16 ELSE byte
     IN  /\ machine' = IF machine.bound = "machine"
                       THEN [machine EXCEPT !.ram = Stored(@, cell, value)] ELSE machine
         /\ pristine' = IF machine.bound = "pristine"
                        THEN [pristine EXCEPT !.ram = Stored(@, cell, value)] ELSE pristine

Next ==
  \/ OpenRom
  \/ OpenForeignSave
  \/ PowerCycle
  \/ Reset
  \/ Tick
  \/ ControlWrite
  \/ ClockWrite
  \/ RamWrite

Spec == Init /\ [][Next]_vars

-----------------------------------------------------------------------------
Registers == [ramEnabled : BOOLEAN, romBank : Bytes, high : 0..3, mode1 : BOOLEAN,
              ramSelect : 0..15]

IsCartridge(cart) ==
  /\ cart = [header |-> cart.header, regs |-> cart.regs, ram |-> cart.ram,
             bound |-> cart.bound, clock |-> cart.clock]
  /\ cart.header \in Headers
  /\ Loads(cart.header)
  /\ cart.regs \in Registers
  /\ cart.clock \in Clocks
  /\ DOMAIN cart.ram \subseteq 0..(RamSize(cart.header) - 1)

\* Both cartridges are there or neither is; registers, clock and RAM keep to
\* the widths of the chips and to the size the header gives.
TypeOK ==
  /\ (machine = NoCart) = (pristine = NoCart)
  /\ Running => /\ IsCartridge(machine)
                /\ IsCartridge(pristine)
                /\ pristine.header = machine.header

\* Whatever was written to the bank registers, the next access below 8000
\* falls inside the ROM, and one to A000-BFFF that reaches RAM falls inside the
\* vector the machine itself owns: no index is checked in the code, only masks
\* and the emptiness of the vector stand between a program and the end of it.
AccessesStayInside ==
  Running =>
    /\ \A a \in RomAddresses :
         RomOffset(machine, a) \in 0..(RomBanks(machine.header) * RomBankSize - 1)
    /\ RamReachable(machine) =>
         /\ machine.bound = "machine"
         /\ \A a \in RamAddresses : RamOffset(machine, a) \in 0..(RamSize(machine.header) - 1)

\* The image a reset starts from never changes, whatever the machine writes and
\* however often it is reset, saved and restored.
PristineIsAsLoaded == Running => pristine = Owned(Loaded(pristine.header), "pristine")

\* Catching up on n seconds at once leaves the clock where n single seconds
\* would have, from any registers a program or a save can bring about.
CatchUpIsSecondBySecond ==
  Running /\ HasTimer(machine.header) =>
    LET after == SecondBySecond(machine.clock.live, MaxCatchUp)
    IN  \A n \in 0..MaxCatchUp : AdvanceSeconds(machine.clock.live, n) = after[n]

\* The carry of the day counter goes only when the program writes dayHigh or
\* another game is opened: not with days that pass, a reset or a power cycle.
CarryIsKept ==
  [][Tick \/ Reset \/ PowerCycle \/ ControlWrite
       \/ (ClockWrite /\ machine.regs.ramSelect # 12) =>
     ("carry" \in machine.clock.live.dayHigh => "carry" \in machine'.clock.live.dayHigh)]_vars
=============================================================================
