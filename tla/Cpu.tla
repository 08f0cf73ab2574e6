-------------------------------- MODULE Cpu --------------------------------
(***************************************************************************)
(* Interrupt control of the SM83 (core/Cpu) on its bus (core/GameBoy): IE, *)
(* IF and IME, the delay of EI, HALT and its bug, STOP, and the dispatch.  *)
(*                                                                         *)
(* One step is one M-cycle: the hardware's tick raises some requests, then *)
(* the CPU does its access.  The buttons move between instructions, when   *)
(* the front end calls setButtons.  Instructions are what they do to this  *)
(* state; those that reach the bus beyond their opcode take one M-cycle    *)
(* more here (one to five in the code).  Memory may hold any program.      *)
(***************************************************************************)
EXTENDS Joypad, FiniteSets

CONSTANTS
  Sources,        \* bits of IE and IF, a lower one is served first: 0..4 in the code
  JoypadSource,   \* the joypad's bit, 4 in the code
  PpuSources,     \* the bits the PPU raises, which STOP freezes: 0 and 1
  LastAddress     \* of the program: 65535 in the code

ASSUME CpuAssumption ==
  /\ LastAddress \in Nat
  /\ Sources \subseteq 0 .. LastAddress - 1
  /\ JoypadSource \in Sources
  /\ PpuSources \subseteq Sources \ {JoypadSource}

VARIABLES
  state,       \* "Running", "Halted", "Stopped" or "Locked"
  phase,       \* the M-cycle that is next: "fetch", "access" of an instruction, or
               \* "wait", "pushHigh", "pushLow", "vector" of a dispatch
  op,          \* the instruction whose access is next
  pc, ime, imeDelay, haltBug,
  ie, if,      \* IE and IF as sets of bits
  stack,       \* what the low push of the dispatch reaches
  sampled,     \* the requests the dispatch chooses from
  resume,      \* history: the address of the first instruction not yet executed
  shadow,      \* history: EI has run with IME off and nothing has run since
  jumped       \* history: the bit whose vector the last dispatch took, or "none"

cpuVars == <<state, phase, op, pc, ime, imeDelay, haltBug>>
histories == <<resume, shadow, jumped>>
vars == <<joypadVars, cpuVars, ie, if, stack, sampled, histories>>

Addresses == 0..LastAddress

Dispatching == {"wait", "pushHigh", "pushLow", "vector"}
LongOps == {"jump", "reti", "writeIE", "writeIF", "writeP1"}

\* Where a dispatch's two pushes land when they do not just land in memory.  They
\* are adjacent addresses, so at most one of them reaches IE, IF or P1.
StackTargets == {"memory", "highToIE", "lowToIE", "highToIF", "lowToIF",
                 "highToP1", "lowToP1"}

TypeOK ==
  /\ JoypadTypeOK
  /\ state \in {"Running", "Halted", "Stopped", "Locked"}
  /\ phase \in {"fetch", "access"} \cup Dispatching
  /\ op \in LongOps \cup {"none"}
  /\ pc \in Addresses
  /\ ime \in BOOLEAN
  /\ imeDelay \in 0..2
  /\ haltBug \in BOOLEAN
  /\ ie \subseteq Sources
  /\ if \subseteq Sources
  /\ stack \in StackTargets
  /\ sampled \subseteq Sources
  /\ resume \in Addresses
  /\ shadow \in BOOLEAN
  /\ jumped \subseteq Sources

\* The machine the boot ROM leaves: the VBlank request is up, IE is clear.
Init ==
  /\ JoypadInit
  /\ state = "Running" /\ phase = "fetch" /\ op = "none"
  /\ pc = 0
  /\ ime = FALSE /\ imeDelay = 0 /\ haltBug = FALSE
  /\ ie = {} /\ if = {0} \cap Sources
  /\ stack = "memory" /\ sampled = {}
  /\ resume = 0 /\ shadow = FALSE /\ jumped = {}

-----------------------------------------------------------------------------

After(a) == IF a = LastAddress THEN 0 ELSE a + 1
Before(a) == IF a = 0 THEN LastAddress ELSE a - 1

\* The handler of bit b is at 0x40 + 8b; 0 is where a cancelled dispatch ends up.
Vector(b) == b + 1

Lowest(bits) == CHOOSE b \in bits : \A c \in bits : b <= c

\* What the tick of this M-cycle may raise in IF.  STOP freezes the PPU.
Raisable == (Sources \ {JoypadSource}) \ (IF state = "Stopped" THEN PpuSources ELSE {})

\* pendingInterrupts() in this M-cycle, after its tick has raised `raised'.
Pending(raised) == ie \cap (if \cup raised)

\* Every way of moving a joypad line requests the interrupt if one fell.
JoypadRequest == IF LineFell THEN {JoypadSource} ELSE {}

WriteToP1 == \E groups \in SUBSET Groups : SelectGroups(groups)

-----------------------------------------------------------------------------
(* Cycles that fetch nothing.                                              *)

Idle(raised) ==
  /\ phase = "fetch"
  /\ if' = if \cup raised
  /\ UNCHANGED <<joypadVars, phase, op, pc, ime, imeDelay, haltBug, ie, stack, sampled,
                 histories>>

\* STOP ends on a joypad line being low, whatever IME and IE say.
StoppedCycle(raised) ==
  /\ state = "Stopped"
  /\ Idle(raised)
  /\ state' = IF AnyLineLow THEN "Running" ELSE "Stopped"

LockedCycle(raised) ==
  /\ state = "Locked"
  /\ Idle(raised)
  /\ UNCHANGED state

HaltedCycle(raised) ==
  /\ state = "Halted"
  /\ Pending(raised) = {}
  /\ Idle(raised)
  /\ UNCHANGED state

-----------------------------------------------------------------------------
(* Cycles that fetch an opcode: of a running CPU, or of a halted one in the *)
(* very M-cycle in which a request becomes pending.                        *)

\* Mutant: a halted CPU wakes only with IME on.
FetchWakesWithIme(raised) ==
  /\ phase = "fetch"
  /\ \/ state = "Running"
     \/ state = "Halted" /\ ime /\ Pending(raised) # {}
  /\ if' = if \cup raised
  /\ UNCHANGED <<joypadVars, ie, stack, sampled>>

Fetch(raised) ==
  /\ phase = "fetch"
  /\ \/ state = "Running"
     \/ state = "Halted" /\ Pending(raised) # {}
  /\ if' = if \cup raised
  /\ UNCHANGED <<joypadVars, ie, stack, sampled>>

Taken(raised) == ime /\ Pending(raised) # {}

\* Mutant: a dispatch leaves the delay of an EI running.
BeginDispatchKeepsDelay(raised) ==
  /\ Fetch(raised)
  /\ Taken(raised)
  /\ state' = "Running"
  /\ phase' = "wait"
  /\ ime' = FALSE
  /\ haltBug' = FALSE
  /\ pc' = IF haltBug THEN Before(pc) ELSE pc
  /\ UNCHANGED <<imeDelay, op, histories>>

\* Mutant: EI and then a bugged HALT returns past the HALT.
BeginDispatchPastHalt(raised) ==
  /\ Fetch(raised)
  /\ Taken(raised)
  /\ state' = "Running"
  /\ phase' = "wait"
  /\ ime' = FALSE
  /\ imeDelay' = 0
  /\ haltBug' = FALSE
  /\ UNCHANGED <<pc, op, histories>>

\* The opcode is dropped and its fetch is the first wait of the dispatch.  EI and
\* then a bugged HALT: the handler returns to the HALT itself.
BeginDispatch(raised) ==
  /\ Fetch(raised)
  /\ Taken(raised)
  /\ state' = "Running"
  /\ phase' = "wait"
  /\ ime' = FALSE
  /\ imeDelay' = 0
  /\ haltBug' = FALSE
  /\ pc' = IF haltBug THEN Before(pc) ELSE pc
  /\ UNCHANGED <<op, histories>>

\* The opcode at pc is executed.  A fetch under the HALT bug leaves pc on it.
FetchedPc == IF haltBug THEN pc ELSE After(pc)

Execute(raised) ==
  /\ Fetch(raised)
  /\ ~Taken(raised)
  /\ UNCHANGED jumped

\* The end of step(): the delay left by the instruction counts down, and IME turns
\* on when it reaches 0.
Finish(enabled, delay, next) ==
  /\ imeDelay' = IF delay > 0 THEN delay - 1 ELSE 0
  /\ ime' = (enabled \/ delay = 1)
  /\ phase' = "fetch"
  /\ op' = "none"
  /\ resume' = next

Nop(raised) ==
  /\ Execute(raised)
  /\ Finish(ime, imeDelay, FetchedPc)
  /\ state' = "Running"
  /\ pc' = FetchedPc
  /\ haltBug' = FALSE
  /\ shadow' = FALSE

\* HALT with IME off and a request pending does not halt: the next fetch leaves pc
\* where it is instead.
Halt(raised) ==
  LET bug == ~ime /\ Pending(raised) # {}
  IN  /\ Execute(raised)
      /\ Finish(ime, imeDelay, IF bug THEN pc ELSE FetchedPc)
      /\ state' = IF bug THEN "Running" ELSE "Halted"
      /\ pc' = FetchedPc
      /\ haltBug' = bug
      /\ shadow' = FALSE

\* STOP takes the byte after it without reading it.
Stop(raised) ==
  /\ Execute(raised)
  /\ Finish(ime, imeDelay, After(FetchedPc))
  /\ state' = "Stopped"
  /\ pc' = After(FetchedPc)
  /\ haltBug' = FALSE
  /\ shadow' = FALSE

Di(raised) ==
  /\ Execute(raised)
  /\ Finish(FALSE, 0, FetchedPc)
  /\ state' = "Running"
  /\ pc' = FetchedPc
  /\ haltBug' = FALSE
  /\ shadow' = FALSE

\* A second EI does not restart the delay of the first.
Ei(raised) ==
  /\ Execute(raised)
  /\ Finish(ime, IF imeDelay = 0 THEN 2 ELSE imeDelay, FetchedPc)
  /\ state' = "Running"
  /\ pc' = FetchedPc
  /\ haltBug' = FALSE
  /\ shadow' = (~ime /\ imeDelay = 0)

Illegal(raised) ==
  /\ Execute(raised)
  /\ Finish(ime, imeDelay, FetchedPc)
  /\ state' = "Locked"
  /\ pc' = FetchedPc
  /\ haltBug' = FALSE
  /\ shadow' = FALSE

\* The opcode of an instruction that goes on to reach the bus.
BeginLong(raised, o) ==
  /\ Execute(raised)
  /\ state' = "Running"
  /\ phase' = "access"
  /\ op' = o
  /\ pc' = FetchedPc
  /\ haltBug' = FALSE
  /\ UNCHANGED <<ime, imeDelay, resume, shadow>>

-----------------------------------------------------------------------------
(* The access that ends a long instruction.                                *)

FinishLong(o, enabled, next) ==
  /\ phase = "access"
  /\ op = o
  /\ pc' = next
  /\ shadow' = FALSE
  /\ UNCHANGED <<state, haltBug, stack, sampled, jumped>>
  /\ Finish(enabled, imeDelay, next)

Jump(raised) ==
  /\ \E target \in Addresses : FinishLong("jump", ime, target)
  /\ if' = if \cup raised
  /\ UNCHANGED <<joypadVars, ie>>

Reti(raised) ==
  /\ \E target \in Addresses : FinishLong("reti", TRUE, target)
  /\ if' = if \cup raised
  /\ UNCHANGED <<joypadVars, ie>>

WriteIE(raised) ==
  /\ FinishLong("writeIE", ime, pc)
  /\ ie' \in SUBSET Sources
  /\ if' = if \cup raised
  /\ UNCHANGED joypadVars

\* The write replaces what the tick of its own M-cycle raised.
WriteIF(raised) ==
  /\ FinishLong("writeIF", ime, pc)
  /\ if' \in SUBSET Sources
  /\ UNCHANGED <<joypadVars, ie>>

WriteP1(raised) ==
  /\ FinishLong("writeP1", ime, pc)
  /\ WriteToP1
  /\ if' = if \cup raised \cup JoypadRequest
  /\ UNCHANGED ie

-----------------------------------------------------------------------------
(* The M-cycles of a dispatch after the dropped fetch.                     *)

DispatchWait(raised) ==
  /\ phase = "wait"
  /\ phase' = "pushHigh"
  /\ if' = if \cup raised
  /\ UNCHANGED <<joypadVars, state, op, pc, ime, imeDelay, haltBug, ie, stack, sampled,
                 histories>>

\* A push reaches P1, or it does not.
PushOnP1(reached) == IF reached THEN WriteToP1 ELSE UNCHANGED joypadVars

\* The high byte of pc may land on IE or IF; only then is the choice made of what
\* to serve.
PushHigh(raised) ==
  /\ phase = "pushHigh"
  /\ phase' = "pushLow"
  /\ stack' \in StackTargets
  /\ PushOnP1(stack' = "highToP1")
  /\ \E byte \in SUBSET Sources :
       /\ ie' = IF stack' = "highToIE" THEN byte ELSE ie
       /\ if' = IF stack' = "highToIF" THEN byte ELSE if \cup raised \cup JoypadRequest
  /\ sampled' = ie' \cap if'
  /\ UNCHANGED <<state, op, pc, ime, imeDelay, haltBug, histories>>

\* Mutant: every request the dispatch could choose is acknowledged.
PushLowAcknowledgesAll(raised) ==
  /\ phase = "pushLow"
  /\ phase' = "vector"
  /\ PushOnP1(stack = "lowToP1")
  /\ \E byte \in SUBSET Sources :
       LET requests == IF stack = "lowToIF" THEN byte ELSE if \cup raised \cup JoypadRequest
       IN  /\ ie' = IF stack = "lowToIE" THEN byte ELSE ie
           /\ if' = requests \ sampled
  /\ pc' = IF sampled = {} THEN 0 ELSE Vector(Lowest(sampled))
  /\ resume' = pc'
  /\ jumped' = IF sampled = {} THEN {} ELSE {Lowest(sampled)}
  /\ UNCHANGED <<state, op, ime, imeDelay, haltBug, stack, sampled, shadow>>

\* The low byte may land there too, too late to change the choice.
PushLow(raised) ==
  /\ phase = "pushLow"
  /\ phase' = "vector"
  /\ PushOnP1(stack = "lowToP1")
  /\ \E byte \in SUBSET Sources :
       LET requests == IF stack = "lowToIF" THEN byte ELSE if \cup raised \cup JoypadRequest
       IN  /\ ie' = IF stack = "lowToIE" THEN byte ELSE ie
           /\ if' = IF sampled = {} THEN requests ELSE requests \ {Lowest(sampled)}
  /\ pc' = IF sampled = {} THEN 0 ELSE Vector(Lowest(sampled))
  /\ resume' = pc'
  /\ jumped' = IF sampled = {} THEN {} ELSE {Lowest(sampled)}
  /\ UNCHANGED <<state, op, ime, imeDelay, haltBug, stack, sampled, shadow>>

DispatchEnd(raised) ==
  /\ phase = "vector"
  /\ phase' = "fetch"
  /\ sampled' = {}
  /\ stack' = "memory"
  /\ if' = if \cup raised
  /\ UNCHANGED <<joypadVars, state, op, pc, ime, imeDelay, haltBug, ie, histories>>

-----------------------------------------------------------------------------
\* Between two calls of step(): the front end reports the buttons held.
SetButtons ==
  /\ phase = "fetch"
  /\ \E held \in SUBSET Buttons : HoldButtons(held)
  /\ if' = if \cup JoypadRequest
  /\ UNCHANGED <<cpuVars, ie, stack, sampled, histories>>

Dispatch(raised) ==
  \/ BeginDispatch(raised)
  \/ DispatchWait(raised)
  \/ PushHigh(raised)
  \/ PushLow(raised)
  \/ DispatchEnd(raised)

Instruction(raised) ==
  \/ Nop(raised)
  \/ Halt(raised)
  \/ Stop(raised)
  \/ Di(raised)
  \/ Ei(raised)
  \/ Illegal(raised)
  \/ \E o \in LongOps : BeginLong(raised, o)
  \/ Jump(raised)
  \/ Reti(raised)
  \/ WriteIE(raised)
  \/ WriteIF(raised)
  \/ WriteP1(raised)

MCycle == \E raised \in SUBSET Raisable :
  \/ StoppedCycle(raised)
  \/ LockedCycle(raised)
  \/ HaltedCycle(raised)
  \/ Dispatch(raised)
  \/ Instruction(raised)

Next == MCycle \/ SetButtons

Spec == Init /\ [][Next]_vars

\* The front end keeps stepping the machine; nobody has to press a button.
FairSpec == Spec /\ WF_vars(MCycle)

-----------------------------------------------------------------------------
(* Safety.                                                                 *)

\* From the moment a dispatch is decided until its handler runs, nothing can
\* start another: IME is off, no EI is on its way, the HALT bug is spent
\* (Cpu.cpp:66-73).
DispatchIsClosed ==
  phase \in Dispatching => ~ime /\ imeDelay = 0 /\ ~haltBug /\ state = "Running"

\* A dispatch pushes the address of the first instruction that has not executed,
\* which after EI and a bugged HALT is the HALT (Cpu.cpp:26-56, 69-77).
ReturnsToUnexecuted == phase \in {"wait", "pushHigh", "pushLow"} => pc = resume

\* A halted CPU sleeps through no request: one that is pending when an M-cycle is
\* over came from a button moved since (Cpu.cpp:34-41, 227-233, GameBoy.cpp:261).
HaltedHasNothingPending == state = "Halted" => ie \cap if \subseteq {JoypadSource}

\* IME turning on by way of EI is never seen before the instruction after EI has
\* run (Cpu.cpp:57-61, 238-244).
EiShadowIsClosed == shadow => ~ime

-----------------------------------------------------------------------------
(* Action properties.                                                      *)

\* A request disappears only because the program wrote IF - a push onto it
\* included - or because its handler is entered: nothing is acknowledged and then
\* not served, a cancelled dispatch acknowledges nothing (Cpu.cpp:78-94).
NoRequestLost ==
  [][\A b \in if \ if' :
       \/ phase = "access" /\ op = "writeIF"
       \/ phase = "pushHigh" /\ stack' = "highToIF"
       \/ phase = "pushLow" /\ (stack = "lowToIF" \/ pc' = Vector(b))]_vars

\* The handler entered is that of a request that was up and enabled when the high
\* byte had been pushed, and of the first of those (Cpu.cpp:78-93).
ServesFirstEnabled ==
  [][phase = "pushLow" =>
       /\ jumped' \subseteq ie \cap if
       /\ \A b \in ie \cap if, j \in jumped' : j <= b
       /\ jumped' = {} => ie \cap if = {}]_vars

-----------------------------------------------------------------------------
(* Liveness.                                                               *)

\* HALT ends once an enabled request is up.
HaltWakes == (state = "Halted" /\ ie \cap if # {}) ~> state # "Halted"
=============================================================================
