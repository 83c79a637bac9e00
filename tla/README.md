# A verification development for the m6502 emulator

The repository is an emulator of the 6502 of the NES, to run under RIOT: a CPU
core that executes instructions against a bus, a bus decoder that maps CPU
addresses to one memory array and to a program ROM, and a shell with which a
user clocks, runs and resets the CPU.  This directory holds TLA+ models of
those parts, TLC configurations that check them on small instances, and proofs
that TLAPS checks for every value of the constants.

Paths are relative to the root of the repository, so the C code is in `src/`.

## 1. Inventory

| Part | State | Operations | Called by |
|---|---|---|---|
| Bus decoder, `src/ti74ls138.c` | `CE` (assigned and read within one call), a pointer to the memory | `decode_address`, `bus_read_byte`, `bus_read_word`, `bus_write_byte`, `bus_write_word` | CPU, shell, loader |
| Memory, `src/memory.c` | `data[]`: RAM 2 KB, PPU registers 8 B, expansion 0 or 8 KB, SRAM 8 KB | `memory_init`, `memory_get`, `memory_set` | decoder |
| Program ROM, `src/program.h` | `PROGMEM[]`, constant | none | decoder (reads only) |
| CPU core, `src/olc6502.c` | A, X, Y, SP, PS, PC, `I_nxt`; the locals of a call; the global `oops_cycle` | `olc6502_init`, `olc6502_reset`, `olc6502_clock` | shell |
| Shell, `src/main.c` | the locals of a running command | `clock`, `run`, `reset`, `inspect`, `wozmon`; `print` only prints | user |
| PRG loader, `src/prg_loader.c` | the line read and the position in it | `load_prg_file`, `write_prg_file` | nobody in the firmware (a test `main`) |
| Assembly programs, `*.s` | memory of the emulated machine | fibonacci, a wozmon monitor | CPU |

The program has one thread.  What runs interleaved is the user's sequence of
commands with the instructions a call executes: a call of `olc6502_clock` may
stop after any instruction, and the next command (another `clock`, a `run`, a
`reset`) starts from there, with the call's locals gone and the registers kept.
`wozmon` goes further: host and emulated program take turns, an instruction
each, and talk through two bytes of the bus without a handshake.
There are no interrupts from outside: `irq` and `nmi` are commented out in
`olc6502.h`.

What is hard:

* the bus: four devices, mirrors and an optional device in one array; words
  whose second byte is not decoded; stores to a ROM that has no storage;
* the CPU: 256 opcodes go through a switch and then through six `if`s on bit
  fields that are not exclusive by construction; the interrupt flag takes
  effect one instruction late; cycles are charged partly in helpers and partly
  in the cases; locals survive from one instruction to the next and
  undocumented opcodes use what is left in them; the loop ends only if every
  opcode is charged;
* the shell: `run` recognises the end of a program by the PC alone, whatever
  the user did before;
* `wozmon`: a character is recognised by its being different from the last one,
  the loop's test comes before the poll, the buffer's index is not checked;
* the loader: text is split in pieces of 63 characters and tokens that do not
  know of the newline; nothing the writer calls is checked for a full disk.

What makes each part correct:

* decoder and memory: they implement the map that `ti74ls138.h` draws, and no
  store leaves the array (`ImplementsMemoryMap`, `StaysInArray`,
  `OnlyRomStoresEscape`);
* CPU: the contract of `olc6502_clock` on cycles, its termination, one body per
  opcode, the delayed interrupt flag, a break flag that is on the stack only, a
  stack that is one, stores only where an instruction says, arithmetic
  (`ClockContract`, `ClockTerminates`, `OneBodyPerOpcode`,
  `DelayedInterruptFlag`, `BreakFlagOnlyPushed`, `StackIsStack`, `OnlyNamedCells`, `AddIsExact`,
  `SubtractIsExact`);
* shell: every command returns, `run` with the program's answer
  (`CommandsReturn`, `FibonacciAnswer`);
* wozmon: the host sees every change of the data register once, prints the line
  that was sent, loses a line and leaves its buffer only in the one case the
  code has for each, and comes back when the line has ended
  (`HostSeesEveryChange`, `LineIsPrinted`, `OnlyLastLineIsLost`, `LinesFit`,
  `LineEndsRead`);
* loader: what was written is there after loading, and nothing else has changed
  (`SegmentsLoaded`, `OnlySegmentsTouched`).

## 2. Modules

```
Bytes ── Bus ──┬── BusClient ── MCBus          DeviceSpace: abstract memory map
   │           │      └ Map == INSTANCE DeviceSpace    (both use MemoryMap)
   │           ├── PrgLoader ── MCLoader
   │           └── Cpu6502 ──┬── CpuProperties ── MCCpu
   └── Opcodes ──────┘       │      └ Stack == INSTANCE CallStack
                             └── Shell ──┬── MCShell ── Program
                                         └── Wozmon ── MCWozmon ── Program
Proofs: Bus_proofs ──┬── Cpu6502_proofs ──┬── CpuSteps_proofs ── Stack_proofs
                     │                    └── Shell_proofs ── Wozmon_proofs
                     ├── BusClient_proofs
                     └── PrgLoader_proofs
```

* **Bytes**: C's integer types.  A byte used as bits is the set of its bit
  numbers; a stored result is reduced with `%`.
* **Bus**: decoder, memory and ROM.  `mem` is `data[]`, as the function of the
  bytes stored since `memory_init` (any other byte is 0), which keeps states
  small; `PROGMEM` is the ROM, chosen in the initial state.  A read one past an
  array returns `past`, any byte of `Past`, which may change at each step (two
  such reads within one step return the same byte).  A store outside `data[]`
  overwrites some unknown object: `wild` becomes TRUE and the behaviour ends
  there, nothing being said of what follows.
* **BusClient**: any sequence of the four bus calls.
* **MemoryMap**, **DeviceSpace**: the register behind each address according to
  the comments of `ti74ls138.h`, and a store in which every register is storage
  of its own.
* **Opcodes**: the opcode constants and the guards of the six blocks.
* **Cpu6502**: the CPU over the bus.  `ClockCall` is the entry of
  `olc6502_clock`, `Instruction` one iteration of its loop (one disjunct of
  `Execute` per case of the switch or block behind it), `ClockReturn` its exit;
  `Reset` is `olc6502_reset`.  A helper's effect on PC and on the cycle count is
  the operators `After` and `HelperCost` of the addressing mode; each case's own
  charge is in `ReadCost`, `StoreCost`, `LDACost` or `BlockCost`.  `addr` and
  `fetched` are state because illegal shifts and INC/DEC forms use what an
  earlier iteration left in them.  `temp` and `oops_cycle` are not: each reader
  has assigned them in the same iteration.
* **CpuProperties**: what the CPU promises.  `CallStack` is the abstract
  specification of its stack page: a sequence of bytes that JSR, BRK and pushes
  make longer, that RTS, RTI and pulls make shorter, and that nothing else
  changes.  The mapping reads the page from SP upwards.
* **Shell**: `main`, `clock`, `run`, `inspect` and `reset` over `Cpu6502`.  A
  command is several steps (test, call, code behind the call), and the CPU's own
  steps interleave only in the sense that they happen between a call and its
  return.  `inspect_byte` is one iteration of `inspect`'s loop.
* **Wozmon**: the command `wozmon` over `Shell`, with any program as the guest.
  `read_poll` is an iteration of the loop of `wozmon read` up to its call of
  `olc6502_clock`: nothing new, a character, or the CR that ends the line
  (`no_char`, `next_char`, `line_end`); `write_char` and `write_clock` are the
  two parts of an iteration of `wozmon write`.  `buf` is the sequence of the
  characters below `input_index`; a store behind its 256 bytes sets `wild`.
  `changes` is a history variable, the values ACIA_DATA took since the command
  began: no action reads it.
* **PrgLoader**: `write_prg_file` and `load_prg_file`, one step for each call of
  `fopen`, line written, token stored and line read.  The file's text is not
  kept as characters but as its lines with the number of characters of each that
  reached the disk; that number alone decides how `fgets` cuts it and which
  tokens `strtok` finds (`Piece`, `Tokens`, `Token`).
* **Program**: the contents of `program.h`, `fibonacci.s` assembled, and the part
  of `custom_wozmon.s` that can run (it waits for a key for ever, see section 5).
* **MC...**: constants for TLC.

Definitions whose comment begins with "mutant" are plausible wrong versions of
the definition that follows them; no specification uses them.  They are there to
show that each property can fail.

## 3. Runs

| Run | Properties | What it shows |
|---|---|---|
| `bus_map` | `TypeOK` `StaysInArray` `ImplementsMemoryMap` | The build with the expansion ROM implements the map.  Addresses: RAM bytes 0 and 1 through the mirrors at $1801 and, as a word, $0800; a PPU register through two addresses; the word at $5FFF, which crosses from the expansion to the SRAM window; the last word and byte of SRAM. |
| `bus_bounds` | `OnlyRomStoresEscape` | The default build at both ends of every window. |
| `bus_alias` | `ImplementsMemoryMap` violated | Default build: $4100 and $6100 share storage. |
| `bus_rom_write` | `WrittenByteReadsBack` violated | A store at $8000 lands in RAM byte 0. |
| `cpu_opcodes` | `TypeOK` `ClockContract` `BreakFlagOnlyPushed` `OneBodyPerOpcode` `DelayedInterruptFlag` `ClockTerminates` `StackIsStack` `OnlyNamedCells` `AddIsExact` `SubtractIsExact` | All 256 opcodes, twice, with other registers, operands and carries, ADC and SBC of boundary bytes, and a stack that wraps around in its page; calls for 0 and for 20 cycles and resets in any order. |
| `cpu_clv` | `ClearOverflow` violated | CLV sets V. |
| `cpu_zero_page` | `ZeroPagePointers` violated | Zero page pointers leave the page. |
| `shell_run` | `CommandsReturn` `FibonacciAnswer` | The shipped program, any sequence of commands. |
| `shell_break` | `BreakFlagOfLastFrame` violated | `run` does not see the flag BRK pushed. |
| `wozmon_read` | `HostSeesEveryChange` `LineIsPrinted` `LinesFit` `OnlyLastLineIsLost` `LineEndsRead` | `wozmon read` and `write` with five guests: no change is missed, the line sent is the line printed, only the last line can be lost, and the 257th value is the first behind `buf`. |
| `wozmon_key` | `KeyReadyIsSeen` violated | The monitor tests another status bit than the host sets. |
| `prg_loader` | `SegmentsLoaded` `OnlySegmentsTouched` | Writing and loading six files, on a disk with room for all or for 45 characters. |

Bounds.  Two values suffice to tell registers apart on the bus; a third would
only rename them.  The addresses are chosen at the places where the decoder
changes its mind.  `Past` is {0, $A5} on the bus runs in the default build, whose
words read behind `data[]`, and {0} on the others, which read nothing there.  The probe programs of
`cpu_opcodes` fill registers and stack, leave an address in the local `addr`,
execute the opcode with an operand that crosses a page or reaches the ROM window
and go on at a jump to itself; BRK and the vectors lead there too.  `FullStack`
makes 126 calls and a push, so that SP is $00 and the two bytes of the next call,
and of its return, lie at both ends of the stack page.  Calls for 20
cycles end at different instructions of the probe, so that locals are lost at
different points.  Cycle counts need no bound: a call starts afresh.
`shell_run` has requests of 0, 1 and 9 cycles, so the user can stop the program
at any instruction, and the answer is checked for each; `Ranges` has the range
that ends at $FFFF, where a 16-bit counter would not end, and one that is
refused.  The guests of `wozmon_read` are the repository's monitor and four
short programs: a repeated character; a NUL in the line and a second line behind
the first; no CR; two characters in turns for ever, which overruns the buffer.
The second of these ends with a CR that is its last store before the address in
the IRQ vector, so that the host never sees it if `wozmon read` is entered behind
its first line; the first has a NOP there, which is enough.  The user types one character or five,
one more than `POINTER_SIZE`, 4 on the boards RIOT runs on.  The files of
`prg_loader` are those of the loader's own test program and segments chosen
where something happens: neighbours in both orders (the 0 behind the first lands
on the second), 18 and 19 bytes (the line fits in 63 characters, or does not), a
segment that runs into the ROM window, a RAM mirror, nine bytes in the eight PPU
registers, no bytes, and one that ends the behaviour.  45 characters cut a line
behind the first digit of a byte.  These runs are finite because the programs
and files are; the proofs do not depend on the choice.

`cpu_opcodes`, `bus_bounds`, `wozmon_read` and `prg_loader` are checked without
deadlock: a store outside `data[]`, or outside `buf`, ends the behaviour.

## 4. Fairness

`Cpu6502!Spec` has weak fairness of `Step`, an iteration or the return of a
running `olc6502_clock`: C code with nothing to wait for.  It has none for
`Caller`: nobody has to call.  `Shell!ShellSpec` has weak fairness of the CPU's
steps and of the steps of a command that has been entered, none of `User`.
`Wozmon!WozSpec` has the same two, `HostStep` and `GuestStep`: they are the same
thread, which is either in the command or in the call it makes, so neither can
be disabled by the other for ever without a step of its own.  The bus and the
loader have no liveness.

`CommandsReturn` holds of `run` for programs that reach the IRQ
vector's target, and the run instantiates the one shipped: for another program
`run` may never return, and the exit for `cycles == 0` (`main.c:86`) cannot help,
because a call for one cycle consumes at least one (`ClockContract`).  In the
same way `LineEndsRead` promises that `wozmon read` ends only when the guest has
sent a CR: for the monitor, which waits for a key, it may poll for ever.

## 5. Where the code and its statements differ

Six runs refute something a comment or a test of the repository states; the
traces are the counterexamples.

* `bus_alias`: in the default build SRAM and expansion window share storage;
  `test-ti74ls138.c:45` and the header's map say otherwise.
* `bus_rom_write`: `test-ti74ls138.c:53-54` asserts that a byte stored at $8000
  reads back; the store goes to RAM and the read to the ROM.
* `cpu_clv`: CLV ($B8) has `aaa = 5`, and bit 0 of `aaa` is the flag's new
  value: it sets V.
* `cpu_zero_page`: the comments at `olc6502.c:836` and 843 reduce the pointer's
  addresses modulo 256, the code does not.
* `shell_break`: `main.c:91` reads at `SP + 1`, not at `STACK_BASE + SP + 1`.
* `wozmon_key`: `main.c:137` signals new data with bit 4 of the status and
  `custom_wozmon.s:81` tests bit 3, so the monitor never takes a key.

Smaller ones, visible in the model, have no run of their own:

* `wozmon read` loses a repeated character (`main.c:115`), loses a line whose CR
  is the guest's last store before it ends (111), and stores behind `buf` when a
  guest sends 257 changes without a CR (116);
* `sizeof(input)` (`main.c:135`) is the size of a pointer: at most 4 or 8
  characters are sent;
* `load_prg_file` stores a 0 behind every segment, loses what is beyond the 63rd
  character of a line (18 bytes), and stores segments at ROM addresses, as the
  ones of its test program, into `data[]`; `write_prg_file` returns 0 on a full
  disk;
* a word access at the end of a mirror continues in the next device of the
  array, not in the mirror: `MapIsImplemented` assumes there is none;
* CPX and CPY immediate ($E0, $C0) use the (zp,X) mode (`olc6502.c:712`);
* INC and DEC store A plus or minus 1, not the byte at the address (762);
* PLP and RTI or the pulled status in (543, 574), so they cannot clear a flag;
  they assign `temp & 0x04` to the one-bit `I_nxt` (572, 544), which is always
  0: the comments at 571 and 574 announce an update of I delayed by one
  instruction, and a 1 pulled over a 0 never arrives.
  `InterruptFlagIsDelayed` says that I follows `I_nxt`, which is true all the
  same, and not what `I_nxt` is given.  BIT cannot clear N and V (501);
* SBC adds the carry to the full difference (699) instead of borrowing.  It
  leaves carry set when it borrowed, and the monitor reads carry set after SBC
  as "not less" (`custom_wozmon.s:188-189`); its V is wrong for the operand $80.
  `SubtractIsExact` is about A, N and Z and leaves C and V open;
* TXS stores X in the stack page and TSX loads X from it (577-585), instead of
  copying X to SP and SP to X;
* `get_indexed_indirectX` consumes 1 cycle and `olc6502.h:96` says 3;
* `olc6502.h:14` says that U is always set to 1: reset clears PS and no code
  sets U, so it is always 0.  No property promises either;
* `tests-olc6502.c:53` expects PC = $FFFC after a reset; the code loads the
  vector.  That test does not compile against the headers any more.

## 6. Proofs

All theorems hold for every `Past`, `Images` or `Programs`, `Requests`,
`SegmentLists`, `Rooms`, `Inputs` and `Ranges`, and for both sizes of the
expansion ROM, from the assumptions the modules name (`BusAssumption`,
`ClientAssumption`, `CpuAssumption`, `ShellAssumption`, `WozmonAssumption`,
`LoaderAssumption`: constants are bytes, addresses and integers, as in C).
Every module with an assumption is also evaluated by TLC.

* **Bus_proofs** holds lemmas: bytes and words (`Truncation`, `WordType`,
  `SplitWord`), reads and stores keep `BusTypeOK`, what each window decodes to
  (`DecodeWindows`) and that it is inside the array (`DecodeInside`).
* **BusClient_proofs**: `BusTypeCorrect` and `StoresStayInside`; and
  `MapIsImplemented`, the refinement.  It is proved under `WithExpansion`: the
  build with the expansion ROM, addresses below the program ROM, no word at the
  end of a mirror.  Without any of these three the formula is false (see
  `bus_alias`, `bus_rom_write`, and section 5).  The argument: `Cell` and
  `Offset` are the map's and the array's names of a register; an address
  decodes to the offset of its cell (`DecodeIsOffset`), offsets of different
  cells differ (`OffsetInjective`), so a store changes one content
  (`StoreChangesOne`), and a word's two bytes are neighbours in the array exactly
  because of the assumption (`WordCells`).  `TameClientStaysInside`: a client
  that avoids the ROM window and the two words never leaves `data[]`.
* **Cpu6502_proofs**: the inductive invariant `IInv` is
  `BusTypeOK /\ RegsOK /\ LocalsOK /\ CountOK`.  `TypeOK` is not inductive:
  `RegsOK` must say that PS is a set of the six real flags, since nothing
  else keeps B and U out when BIT and PLP or bytes in; and the contract of
  `olc6502_clock` needs `CountOK`: inside a call for n > 0 the remaining count is
  between -6 and n, and in a call for n <= 0 it stays n.  There is one lemma
  for each group of actions.  From `IInv`: `TypeCorrect`, `ClockKeepsContract`,
  `BreakFlagStaysOut`; `Dispatch` follows from the type of the opcode, with
  a lemma per pair of guards.  `ClockRunsDown` is the safety half of
  `ClockTerminates`: an iteration takes one to seven cycles off the count
  (`ExecuteCharges` goes through every instruction), so a call for n cycles
  makes at most n iterations.
* **CpuSteps_proofs**: the action properties.  `InterruptFlagIsDelayed` goes
  through every disjunct of `Execute`; `AdditionIsExact` and
  `SubtractionIsExact` reduce the block to a fact about integers and bits.
  `StoresGoWhereTold`: the stores are those of STA, STX, STY and of the shift and
  INC/DEC blocks, at `EA` of a mode, and the pushes.  The blocks' modes are
  computed from bits of the opcode; `ShiftNames` and `IncDecNames` show that for
  the documented opcodes they are the modes of the opcode tables, and
  `DocumentedStores` that no other documented opcode gets into those blocks.
  `UndocumentedStores` does the same for the others: the blocks catch some of
  them, and these store at the `addr` an earlier instruction left.  So the
  theorem covers all 256 opcodes.
* **Stack_proofs**: `StackPageIsStack`, the refinement of `CallStack`.  It is
  proved under the hypothesis `[]LeavesStackAlone`, which is about the program
  and not about the CPU: it pulls no more than is on the stack, pushes no more
  than the page has room for, and its other stores miss the live bytes.  Without
  it the formula is false, for the stack is RAM like any other.  The programs of
  `cpu_opcodes` are such programs, as TLC finds with `LeavesStackAlone` as an
  invariant of that run; the stray stores of undocumented opcodes are among
  what it asks about.  The argument: the abstract stack is `OnStack(mem, d)`
  with d bytes, d a function of SP alone; two slots of the page are different
  places of `data[]` (`SlotsDiffer`); a push stores one slot behind the live
  ones and moves d by one (`PushOne`, `PushTwo`, `DepthMoves`), a pull shortens
  the sequence (`PullStep`), and every other instruction leaves SP alone
  (`SPStays`) and, by `ExecuteStores` and the hypothesis, the live slots too
  (`OtherStep`).  `InstructionIsStackStep` matches each instruction with a step
  of `CallStack` or a stutter.
* **Shell_proofs**: the CPU's invariant under the shell, `ShellInv`: `IInv`, and
  that `run` asks for one cycle at a time.  `RunEndsAtVector` follows from it and
  from the cycle contract, for every program: `run` ends at the address in the
  vector, and the exit for `cycles == 0` (`main.c:86`) is dead.
  `FibonacciIsComputed` executes the shipped program symbolically: `FibonacciInv`
  says what registers, carry and the two cells of page zero hold at each of the
  program's addresses (`Entry`, `Loop`, `Exit`; in the loop, as a function of
  the round), `WhichInstruction` decides which instruction an opcode is, one
  lemma for each kind of instruction says what it does, and `EntrySteps`,
  `LoopSteps` and `ExitSteps` follow the program.  A reset, a call in the middle
  and a return leave the invariant true, so that it holds for every sequence of
  commands and all arguments.
* **Wozmon_proofs**: `MachineInvariance` carries `IInv` over to the host:
  every host step leaves the CPU alone, calls it, resets it, or is one of
  wozmon's stores (`HostMachineSteps`); `ShellGetsContract` follows.
  `HostMissesNothing` rests on the invariant `HostInv`: when a call returns, what
  the host should have seen is what it has in `buf` and what it will find at the
  next poll; and while the call has cycles to spend, nothing new has come.  The
  second part is why no change is missed: the request is for one cycle, every
  instruction is charged at least one (`ExecuteCharges`), so a call executes a
  single instruction, which changes the register at most once.  `LinePrinted`
  follows at the step that sets `rx_done`.  `HostInv` also says that `buf` is
  what the guest has changed since the command began, but for the last change,
  and holds no CR.  So `ShortLinesFit`: the overflow at `main.c:116` takes a
  guest that has made more than 256 changes; and `LastLineIsLost`: when the
  command ends without a line, only the last change can have been a CR.
* **PrgLoader_proofs**: the types are a theorem (`LoaderTypes`) and no property
  of a run.  The invariant is `TypeOK`, `FileOK` (the file is the
  segments written so far, with at most the full text of each), `Placed` (a token
  stored, and not replaced by a later one, is where it belongs) and
  `OnlySegmentsTouched` itself.  `Placed` is about tokens and array places, which
  is what the stores are; `LoadRestores` then turns it into bytes of segments
  read over the bus, using that a legible byte is a whole token of its line.

Only model-checked: `ClockTerminates`, `CommandsReturn` and `LineEndsRead`,
which are liveness under fairness and out of the prover's reach, and the six
refuted statements of section 5.  Every safety property that a run finds true is
stated by a theorem.

## 7. What is left out

`DEBUG` output, the text that commands print and argument counts; the command
`print`, which is one `printf` of the registers; `m74ls138_init`'s NULL checks;
`total_cycles` of `run` (added up and printed); the RIOT shell itself (it calls
one command after the other); `memory_init`'s size check, which no build fails.
`PROGMEM` has exactly 32768 bytes in the model, as in `program.h`.

In the loader: characters of the text that the writer does not produce (a file
from elsewhere may have any; a line of only colons would make `strtok` return
NULL), and read errors of `fgets`, which end the loop like the end of the file.

Of `custom_wozmon.s`, what lies behind the test for a key: by `wozmon_key` it is
never reached.  `program.s` is in no build.  The tests are sources of statements
about the program, not parts of it.

Nothing is persisted besides the loader's file, nothing runs concurrently, and
there are no messages or timers: crashes, lost messages and timeouts have no
place in this code except where the hazards name them.

## 8. Plan

Done, in this order: bus and its memory map; CPU core; shell; proofs of types,
cycle contract, dispatch, arithmetic, delayed flag and refinement of the map;
PRG loader; wozmon with the monitor as its guest; the call stack; the places of
stores; proofs about loader and host; the proof that the stack page is a stack;
the proofs about the shell and its program.

Next:

1. **Batching**: `olc6502_clock(n)` against calls for single instructions:
   equal for the documented opcodes, not for those that use stale locals.
   `OnlyNamedCells` is half of it (where they store); the other half is that
   what they store and load does not depend on the locals either.  An abstract
   CPU without locals, which the CPU implements for ROMs that fetch only
   documented opcodes.
2. **Types of the host**: the invariants of `inspect` and of `wozmon` that bound
   their locals, for every guest and every range.
