---------------------------- MODULE Wozmon_proofs ----------------------------
(***************************************************************************)
(* Theorems about wozmon read, for every guest program, every text typed   *)
(* and any commands before it: the host sees every change of the register, *)
(* and prints the line.  They rest on the CPU's invariant, which is shown  *)
(* to hold under the shell as it does under the CPU's own specification.   *)
(***************************************************************************)
EXTENDS Wozmon, Shell_proofs, SequenceTheorems

-----------------------------------------------------------------------------
(* The CPU under the shell.                                                *)

(* The two registers of the ACIA are in data[], and what is read there     *)
(* depends on nothing else.                                                *)
LEMMA Acia ==
  /\ decode_address(ACIA_DATA) \in 0 .. TOTAL_MEMORY_SIZE - 1
  /\ decode_address(ACIA_STATUS) \in 0 .. TOTAL_MEMORY_SIZE - 1
  /\ new_mon_data = IF decode_address(ACIA_DATA) \in DOMAIN mem
                    THEN mem[decode_address(ACIA_DATA)] ELSE 0
<1>1. decode_address(ACIA_DATA) \in 0 .. TOTAL_MEMORY_SIZE - 1
  BY DecodeInside DEF ACIA_DATA
<1>2. decode_address(ACIA_STATUS) \in 0 .. TOTAL_MEMORY_SIZE - 1
  BY DecodeInside DEF ACIA_STATUS
<1>3. TOTAL_MEMORY_SIZE \in Int
  BY BusAssumption DEF TOTAL_MEMORY_SIZE, M6502_RAM_SIZE, PPU_REGISTERS_SIZE, SRAM_SIZE
<1>4. ~(decode_address(ACIA_DATA) >= TOTAL_MEMORY_SIZE)  BY <1>1, <1>3
<1>5. ~(ACIA_DATA >= PRG_ROM_START)  BY DEF ACIA_DATA, PRG_ROM_START
<1>6. new_mon_data = memory_get(decode_address(ACIA_DATA))
  BY <1>5 DEF new_mon_data, bus_read_byte
<1> QED  BY <1>1, <1>2, <1>4, <1>6 DEF memory_get

(* A step that leaves data[] alone leaves the register alone.              *)
LEMMA AciaQuiet == UNCHANGED mem => UNCHANGED new_mon_data
<1> DEFINE h == decode_address(ACIA_DATA)
           Read == new_mon_data = IF h \in DOMAIN mem THEN mem[h] ELSE 0
<1>1. Read  BY Acia
<1>2. Read'  BY <1>1, PTL
<1>3. h' = h
  BY DEF decode_address, CE, chip_select_cpu_ram, chip_select_ppu,
         chip_select_expansion_rom, chip_select_sram, chip_select_prg_rom, ACIA_DATA
<1> SUFFICES ASSUME mem' = mem PROVE new_mon_data' = new_mon_data  OBVIOUS
<1>4. new_mon_data' = IF h' \in DOMAIN mem' THEN mem'[h'] ELSE 0  BY <1>2
<1> HIDE DEF h
<1> QED  BY <1>1, <1>3, <1>4

(* wozmon write stores two bytes inside data[].                            *)
LEMMA WriteCharOK ==
  ASSUME IInv, past' \in Past, input \in Seq(Byte), write_char PROVE IInv'
<1>1. MemOK(mem)  BY DEF IInv, BusTypeOK, MemOK
<1>2. Head(input) \in Byte  BY DEF write_char
<1>3. READY \in Byte  BY DEF READY, Byte
<1>4. MemOK(mem')  BY <1>1, <1>2, <1>3, Acia, SetType DEF write_char
<1>5. BusTypeOK'  BY <1>4, MemType DEF write_char, IInv
<1>6. RegsOK' /\ LocalsOK' /\ CountOK'
  BY DEF write_char, registers, locals, IInv, RegsOK, LocalsOK, CountOK, Budget, ClockContract
<1> QED  BY <1>5, <1>6 DEF IInv

(* What a step of the shell or of wozmon does to the machine.              *)
HostMachine ==
  \/ ShellMachine
  \/ /\ past' \in Past
     /\ UNCHANGED <<mem, PROGMEM, registers, call, locals, consumed>>
     /\ wild' = TRUE
  \/ past' \in Past /\ write_char

(* Every step of theirs is of this kind.                                   *)
LEMMA HostMachineSteps == WozUser \/ HostStep => HostMachine
<1>1. ASSUME (past' \in Past /\ User) \/ ShellStep PROVE HostMachine
  BY <1>1, ShellMachineSteps DEF HostMachine
<1>2. 1 \in Int  OBVIOUS
<1>3. ASSUME past' \in Past,
             \/ wozmon_read \/ (\E s \in Inputs : wozmon_write(s))
             \/ read_return \/ read_end \/ write_return \/ write_end
      PROVE  HostMachine
  BY <1>3 DEF wozmon_read, wozmon_write, read_return, read_end, write_return,
              write_end, machine, HostMachine, ShellMachine
<1>4. ASSUME past' \in Past, read_poll \/ write_clock PROVE HostMachine
  BY <1>2, <1>4 DEF read_poll, poll_clock, write_clock, HostMachine, ShellMachine
<1>5. ASSUME past' \in Past, read_past_end \/ write_char PROVE HostMachine
  BY <1>5 DEF read_past_end, HostMachine
<1> QED  BY <1>1, <1>3, <1>4, <1>5 DEF WozUser, HostStep

(* What the user typed is made of bytes.                                   *)
LEMMA InputType ==
  ASSUME input \in Seq(Byte), [WozNext]_wvars PROVE input' \in Seq(Byte)
<1>1. CASE input' = input  BY <1>1
<1>2. ASSUME NEW s \in Inputs, wozmon_write(s) PROVE input' \in Seq(Byte)
  <2> DEFINE n == IF Len(s) < POINTER_SIZE THEN Len(s) ELSE POINTER_SIZE
  <2>1. s \in Seq(Byte)  BY WozmonAssumption
  <2>2. n \in 0 .. Len(s)  BY <2>1, WozmonAssumption, LenProperties
  <2>3. \A i \in 1 .. n : s[i] \in Byte  BY <2>1, <2>2
  <2>4. input' = SubSeq(s, 1, n)  BY <1>2 DEF wozmon_write
  <2> HIDE DEF n
  <2> QED  BY <2>1, <2>2, <2>4, SubSeqProperties
<1>3. CASE write_char  BY <1>3 DEF write_char
<1> QED
  BY <1>1, <1>2, <1>3
  DEF WozNext, WozUser, HostStep, GuestStep, wozmon_read, read_poll, no_char, next_char,
      line_end, read_past_end, read_return, read_end, write_clock, write_return,
      write_end, monitor, host, wvars

(* The CPU's invariant under the shell and wozmon.                         *)
MachineInv == IInv /\ input \in Seq(Byte)

(* It holds at the start and is kept by every step.                        *)
LEMMA MachineInvariance == WozSpec => []MachineInv
<1>1. WozInit => MachineInv  BY InitIInv DEF WozInit, ShellInit, MachineInv
<1>2. MachineInv /\ [WozNext]_wvars => MachineInv'
  <2> SUFFICES ASSUME MachineInv, [WozNext]_wvars PROVE IInv'
    BY InputType DEF MachineInv
  <2>1. CASE WozUser \/ HostStep
    <3>1. HostMachine  BY <2>1, HostMachineSteps
    <3>2. CASE ShellMachine  BY <3>2, ShellMachineOK DEF MachineInv
    <3>3. CASE /\ past' \in Past
               /\ UNCHANGED <<mem, PROGMEM, registers, call, locals, consumed>>
               /\ wild' = TRUE
      BY <3>3, IdleOK DEF MachineInv
    <3>4. CASE past' \in Past /\ write_char  BY <3>4, WriteCharOK DEF MachineInv
    <3> QED  BY <3>1, <3>2, <3>3, <3>4 DEF HostMachine
  <2>2. CASE GuestStep
    BY <2>2, ExecuteOK, ReturnOK DEF GuestStep, CpuStep, Step, MachineInv
  <2>3. CASE UNCHANGED wvars
    <3>1. past' \in Past  BY <2>3 DEF wvars, svars, vars, MachineInv, IInv, BusTypeOK
    <3> QED  BY <2>3, <3>1, IdleOK DEF wvars, svars, vars, MachineInv
  <2> QED  BY <2>1, <2>2, <2>3 DEF WozNext
<1> QED  BY <1>1, <1>2, PTL DEF WozSpec

(* The shell and wozmon, the real callers of the core, get what it         *)
(* promises: each call they make consumes what was asked for and at most   *)
(* six cycles more.                                                        *)
THEOREM ShellGetsContract == WozSpec => [](TypeOK /\ ClockContract)
  BY MachineInvariance, IInvImplies, PTL DEF MachineInv

-----------------------------------------------------------------------------
(* What the host has seen.                                                 *)

(* The inductive invariant.  Outside of wozmon read nothing is in the      *)
(* buffer, and never a CR, which empties it; a call is running only where a command has made one; and the    *)
(* host has seen every change up to the last, which only the one           *)
(* instruction it has let run can have made.                               *)
SeenAll == changes = IF new_mon_data = mon_data THEN buf ELSE Append(buf, new_mon_data)
Fresh   == changes = buf /\ new_mon_data = mon_data
NoCR(s) == \A i \in 1 .. Len(s) : s[i] # CR

Calling == {"clock", "run_call", "read_call", "write_call"}

HostInv ==
  /\ buf \in Seq(Byte) /\ NoCR(buf)
  /\ call = "clock" => cmd \in Calling
  /\ cmd = "read_call" /\ call = "clock" => cycles \in Int /\ cycles <= 1
  /\ InRead /\ ~rx_done => SeenAll
  /\ cmd = "read_call" /\ call = "clock" /\ cycles > 0 /\ ~rx_done => Fresh
  /\ ~InRead => buf = <<>> /\ changes = <<>> /\ ~rx_done

(* wozmon read begins with an empty buffer and the register as it is.      *)
LEMMA ReadBegins == ASSUME HostInv, wozmon_read PROVE HostInv'
<1>1. new_mon_data' = new_mon_data  BY AciaQuiet DEF wozmon_read, machine
<1>2. ~InRead  BY DEF wozmon_read, InRead
<1>3. call # "clock" /\ call' = call  BY DEF wozmon_read, HostInv, Calling, machine
<1>4. Fresh'  BY <1>1, <1>2 DEF wozmon_read, HostInv, Fresh
<1>5. SeenAll'  BY <1>4 DEF Fresh, SeenAll
<1> QED  BY <1>2, <1>3, <1>4, <1>5 DEF HostInv, wozmon_read, InRead

(* The host looks, and lets one instruction run: it has seen everything.   *)
LEMMA PollSees == ASSUME HostInv, new_mon_data \in Byte, read_poll PROVE HostInv'
<1>1. new_mon_data' = new_mon_data
  BY AciaQuiet DEF read_poll, poll_clock, ClockCall
<1>2. cmd = "read" /\ ~rx_done /\ SeenAll
  BY DEF read_poll, read_loop, HostInv, InRead
<1>3. buf' \in Seq(Byte)
  <2>1. Append(buf, new_mon_data) \in Seq(Byte)  BY DEF HostInv
  <2>2. << >> \in Seq(Byte)  OBVIOUS
  <2>3. buf' \in {buf, Append(buf, new_mon_data), << >>}
    BY DEF read_poll, no_char, next_char, line_end, monitor
  <2> QED  BY <2>1, <2>2, <2>3 DEF HostInv
<1>4. NoCR(buf')
  <2>1. CASE buf' = buf  BY <2>1 DEF HostInv
  <2>2. CASE buf' = Append(buf, new_mon_data) /\ new_mon_data # CR
    <3>1. buf \in Seq(Byte) /\ NoCR(buf)  BY DEF HostInv
    <3> HIDE DEF new_mon_data
    <3> QED  BY <2>2, <3>1, AppendProperties DEF NoCR
  <2>3. CASE buf' = << >>  BY <2>3 DEF NoCR
  <2> QED
    BY <2>1, <2>2, <2>3 DEF read_poll, no_char, next_char, line_end, monitor
<1>5. Fresh' \/ rx_done'
  BY <1>1, <1>2
  DEF read_poll, no_char, next_char, line_end, SeenAll, Fresh, monitor
<1>6. Fresh' => SeenAll'  BY DEF Fresh, SeenAll
<1>7. cycles' = 1 /\ call' = "clock" /\ cmd' = "read_call"
  BY DEF read_poll, poll_clock, ClockCall
<1> QED  BY <1>3, <1>4, <1>5, <1>6, <1>7 DEF HostInv, InRead, Calling, NoCR

(* The guest runs: what it changes is one change more.                     *)
LEMMA GuestSeen == ASSUME HostInv, GuestStep PROVE HostInv'
<1>1. cmd' = cmd /\ buf' = buf /\ rx_done' = rx_done /\ mon_data' = mon_data
  BY DEF GuestStep, CpuStep, monitor
<1>2. call = "clock" /\ cmd \in Calling
  BY DEF GuestStep, CpuStep, Step, Instruction, ClockReturn, HostInv
<1>3. CASE cmd # "read_call"
  <2>1. changes' = changes /\ ~InRead /\ ~InRead'
    BY <1>1, <1>2, <1>3 DEF GuestStep, InRead, Calling
  <2> QED  BY <1>1, <1>2, <1>3, <2>1 DEF HostInv
<1>4. CASE cmd = "read_call" /\ Instruction
  <2>1. \E pc : \E cost \in 0 .. 6 : Retire(pc, cost)
    BY <1>4, ExecuteCharges DEF Instruction
  <2>2. cycles \in Int /\ cycles <= 1 /\ cycles > 0
    BY <1>2, <1>4 DEF HostInv, Instruction, Running
  <2>3. cycles' \in Int /\ cycles' <= 0  BY <2>1, <2>2 DEF Retire
  <2>4. ~rx_done => Fresh  BY <1>2, <1>4, <2>2 DEF HostInv
  <2>5. changes' = IF new_mon_data' # new_mon_data
                   THEN Append(changes, new_mon_data') ELSE changes
    BY <1>4 DEF GuestStep
  <2>6. ~rx_done => SeenAll'
    <3> HIDE DEF new_mon_data
    <3> QED  BY <1>1, <2>4, <2>5 DEF Fresh, SeenAll
  <2>7. cycles' <= 1 /\ ~(cycles' > 0)  BY <2>3
  <2> QED  BY <1>1, <1>2, <1>4, <2>3, <2>6, <2>7 DEF HostInv, InRead
<1>5. CASE cmd = "read_call" /\ ClockReturn
  <2>1. new_mon_data' = new_mon_data  BY <1>5, AciaQuiet DEF ClockReturn
  <2>2. changes' = changes  BY <2>1 DEF GuestStep
  <2>3. ~rx_done => SeenAll'
    BY <1>1, <1>5, <2>1, <2>2 DEF HostInv, SeenAll, InRead
  <2>4. call' = "idle"  BY <1>5 DEF ClockReturn
  <2> QED  BY <1>1, <1>5, <2>3, <2>4 DEF HostInv, InRead
<1> QED  BY <1>3, <1>4, <1>5 DEF GuestStep, CpuStep, Step

(* The other steps of the host leave what it has seen alone or end the     *)
(* command.                                                                *)
LEMMA HostSeen ==
  ASSUME HostInv, MachineInv, WozUser \/ HostStep PROVE HostInv'
<1>1. ASSUME User \/ ShellStep, UNCHANGED <<monitor, printed, changes>> PROVE HostInv'
  <2>1. ~InRead /\ ~InRead'
    BY <1>1 DEF User, reset_command, run_command, clock_command, inspect_command,
       ShellStep, main, clock_command_done, run_clock, run_count, run_end,
       inspect_byte, inspect_end, InRead
  <2>2. call' = "clock" => cmd' \in Calling
    BY <1>1 DEF User, reset_command, run_command, clock_command, inspect_command,
       ShellStep, main, clock_command_done, run_clock, run_count, run_end,
       inspect_byte, inspect_end, Quiet, Reset, ClockCall, HostInv, Calling
  <2> QED  BY <1>1, <2>1, <2>2 DEF HostInv, InRead, monitor
<1>2. CASE wozmon_read  BY <1>2, ReadBegins
<1>3. CASE read_poll
  <2>1. new_mon_data \in Byte  BY ReadType DEF new_mon_data, MachineInv, IInv
  <2> QED  BY <1>3, <2>1, PollSees
<1>4. CASE read_past_end
  <2>1. new_mon_data' = new_mon_data  BY <1>4, AciaQuiet DEF read_past_end
  <2>2. SeenAll' = SeenAll /\ Fresh' = Fresh
    BY <1>4, <2>1 DEF read_past_end, host, monitor, SeenAll, Fresh
  <2> QED  BY <1>4, <2>2 DEF read_past_end, host, monitor, locals, HostInv, InRead
<1>5. CASE read_return
  <2>1. new_mon_data' = new_mon_data  BY <1>5, AciaQuiet DEF read_return, machine
  <2>2. ~rx_done => SeenAll'
    BY <1>5, <2>1 DEF read_return, monitor, HostInv, InRead, SeenAll
  <2> QED  BY <1>5, <2>2 DEF read_return, machine, monitor, HostInv, InRead
<1>6. CASE read_end
  <2>1. << >> \in Seq(Byte) /\ NoCR(<< >>)  BY DEF NoCR
  <2>2. NoCR(buf)'  BY <1>6 DEF read_end, NoCR
  <2> QED  BY <1>6, <2>1, <2>2 DEF read_end, machine, HostInv, InRead, Calling
<1>7. CASE \/ \E s \in Inputs : wozmon_write(s)
           \/ write_char \/ write_clock \/ write_return \/ write_end
  <2>1. /\ ~InRead /\ ~InRead'
        /\ buf' = buf /\ changes' = changes /\ rx_done' = rx_done
    BY <1>7 DEF wozmon_write, write_char, write_clock, write_return, write_end,
                InRead, monitor
  <2>2. call' = "clock" => cmd' \in Calling
    BY <1>7 DEF wozmon_write, write_char, write_clock, write_return, write_end,
                machine, ClockCall, HostInv, Calling
  <2> QED  BY <2>1, <2>2 DEF HostInv, InRead
<1> QED
  BY <1>1, <1>2, <1>3, <1>4, <1>5, <1>6, <1>7 DEF WozUser, HostStep

(* The invariant holds in every reachable state.                           *)
LEMMA HostInvariance == WozSpec => []HostInv
<1>1. WozInit => HostInv
  <2>1. << >> \in Seq(Byte) /\ NoCR(<< >>)  BY DEF NoCR
  <2> QED  BY <2>1 DEF WozInit, ShellInit, Init, HostInv, InRead
<1>2. HostInv /\ MachineInv /\ [WozNext]_wvars => HostInv'
  <2> SUFFICES ASSUME HostInv, MachineInv, [WozNext]_wvars PROVE HostInv'  OBVIOUS
  <2>1. CASE WozUser \/ HostStep  BY <2>1, HostSeen
  <2>2. CASE GuestStep  BY <2>2, GuestSeen
  <2>3. CASE UNCHANGED wvars
    <3>1. new_mon_data' = new_mon_data  BY <2>3, AciaQuiet DEF wvars, svars, vars
    <3>2. SeenAll' = SeenAll /\ Fresh' = Fresh
      BY <2>3, <3>1 DEF wvars, monitor, SeenAll, Fresh
    <3> QED  BY <2>3, <3>2 DEF wvars, svars, vars, locals, monitor, HostInv, InRead
  <2> QED  BY <2>1, <2>2, <2>3 DEF WozNext
<1> QED  BY <1>1, <1>2, MachineInvariance, PTL DEF WozSpec

(* wozmon read misses no change of ACIA_DATA and takes none twice,         *)
(* whatever the guest is.                                                  *)
THEOREM HostMissesNothing == WozSpec => []HostSeesEveryChange
<1>1. HostInv => HostSeesEveryChange  BY DEF HostInv, HostSeesEveryChange, SeenAll, InRead
<1> QED  BY <1>1, HostInvariance, PTL

(* The line it prints is all that the guest put into the register since    *)
(* the command began, if that fits in the buffer and has no NUL in it.     *)
THEOREM LinePrinted == WozSpec => LineIsPrinted
<1> DEFINE Printing ==
      ~rx_done /\ rx_done' =>
        /\ changes # <<>> /\ changes[Len(changes)] = CR
        /\ Len(changes) < MON_BUF_SIZE /\ (\A i \in DOMAIN changes : changes[i] # 0)
             => printed' = changes
<1>1. HostInv /\ [WozNext]_wvars => [Printing]_wvars
  <2> SUFFICES ASSUME HostInv, WozNext, ~rx_done, rx_done' PROVE Printing  OBVIOUS
  <2>1. read_poll /\ line_end
    BY DEF WozNext, WozUser, HostStep, GuestStep, wozmon_read, wozmon_write,
       read_poll, no_char, next_char, read_past_end, read_return, read_end,
       write_char, write_clock, write_return, write_end, monitor, host
  <2>2. changes = Append(buf, CR)
    BY <2>1 DEF read_poll, read_loop, line_end, HostInv, InRead, SeenAll
  <2>3. buf \in Seq(Byte) /\ CR \in Byte  BY DEF HostInv, CR, Byte
  <2>4. changes # <<>> /\ changes[Len(changes)] = CR
    BY <2>2, <2>3, AppendProperties
  <2>5. ASSUME Len(changes) < MON_BUF_SIZE, \A i \in DOMAIN changes : changes[i] # 0
        PROVE  printed' = changes
    BY <2>1, <2>2, <2>5 DEF line_end, Printouts
  <2> QED  BY <2>4, <2>5
<1> QED  BY <1>1, HostInvariance, PTL DEF WozSpec, LineIsPrinted

(* wozmon read stays inside its buffer as long as the guest sends no more  *)
(* than 256 values.                                                        *)
THEOREM ShortLinesFit == WozSpec => LinesFit
<1> DEFINE Fits == cmd = "read" /\ wild' => Len(changes) > LongestLine
<1>1. HostInv /\ [WozNext]_wvars => [Fits]_wvars
  <2> SUFFICES ASSUME HostInv, WozNext, cmd = "read", wild' PROVE Fits  OBVIOUS
  <2>1. read_past_end
    BY DEF WozNext, WozUser, HostStep, GuestStep, CpuStep, Step, Instruction, ClockReturn,
       User, reset_command, run_command, clock_command, inspect_command,
       ShellStep, main, clock_command_done, run_clock, run_count, run_end,
       inspect_byte, inspect_end, wozmon_read, wozmon_write, read_poll, poll_clock,
       ClockCall, read_return, read_end, write_char, write_clock, write_return,
       write_end, machine, HostInv, Calling
  <2>2. changes = Append(buf, new_mon_data) /\ Len(buf) >= 256 /\ buf \in Seq(Byte)
    BY <2>1 DEF read_past_end, read_loop, HostInv, InRead, SeenAll, MON_BUF_SIZE
  <2> HIDE DEF new_mon_data
  <2>3. Len(changes) = Len(buf) + 1  BY <2>2
  <2> QED  BY <2>2, <2>3 DEF LongestLine
<1> QED  BY <1>1, HostInvariance, PTL DEF WozSpec, LinesFit

(* A line is lost only if its CR is the last value the guest sends before  *)
(* it comes to the address in the IRQ vector.                              *)
THEOREM LastLineIsLost == WozSpec => OnlyLastLineIsLost
<1> DEFINE Ending ==
      cmd = "read" /\ cmd' = "prompt" /\ ~rx_done =>
        \A i \in 1 .. Len(changes) - 1 : changes[i] # CR
<1>1. HostInv /\ [WozNext]_wvars => [Ending]_wvars
  <2> SUFFICES ASSUME HostInv, WozNext, cmd = "read", ~rx_done PROVE Ending  OBVIOUS
  <2>1. buf \in Seq(Byte) /\ NoCR(buf)  BY DEF HostInv
  <2>2. changes = buf \/ changes = Append(buf, new_mon_data)
    BY DEF HostInv, InRead, SeenAll
  <2> HIDE DEF new_mon_data
  <2>3. CASE changes = buf  BY <2>1, <2>3 DEF NoCR
  <2>4. CASE changes = Append(buf, new_mon_data)
    BY <2>1, <2>4, AppendProperties DEF NoCR
  <2> QED  BY <2>2, <2>3, <2>4
<1> QED  BY <1>1, HostInvariance, PTL DEF WozSpec, OnlyLastLineIsLost
=============================================================================
