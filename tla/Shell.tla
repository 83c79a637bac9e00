------------------------------- MODULE Shell -------------------------------
(***************************************************************************)
(* The RIOT shell around the CPU, main.c: main resets the CPU and hands    *)
(* over to the user, who enters the commands clock, run, inspect and reset *)
(* in any order.  print only prints the registers, and is left out; wozmon *)
(* is in a module of its own.  A command runs to its end before the next   *)
(* is read: the shell is one thread.                                       *)
(***************************************************************************)
EXTENDS Cpu6502

CONSTANT Ranges          \* the arguments of inspect: <<start, end>>

ASSUME ShellAssumption == Ranges \subseteq Word16 \X Word16

VARIABLES cmd,           \* where the shell's thread is
          irq_address, is_break,  \* run_command
          inspected               \* inspect_memory_command: <<addr, end>>

shell == <<irq_address, is_break, inspected>>
svars == <<vars, cmd, shell>>

ShellInit == /\ Init
             /\ cmd = "main"
             /\ irq_address = 0 /\ is_break = FALSE
             /\ inspected = <<0, 0>>

main == /\ cmd = "main"
        /\ Reset
        /\ cmd' = "prompt"
        /\ UNCHANGED shell

reset_command == /\ cmd = "prompt"
                 /\ Reset
                 /\ UNCHANGED <<cmd, shell>>

clock_command(n) == /\ cmd = "prompt"
                    /\ ClockCall(n)
                    /\ cmd' = "clock"
                    /\ UNCHANGED shell

clock_command_done == /\ cmd = "clock" /\ call = "idle"
                      /\ cmd' = "prompt"
                      /\ UNCHANGED <<mem, PROGMEM, wild, registers, call, locals, consumed, shell>>

(* run: the loop test, the call olc6502_clock(&cpu, 1) and the code behind *)
(* it, and the end.  irq_address is a local and 0 here when run does not   *)
(* run; total_cycles, which is only added up and printed, is left out.     *)
run_command == /\ cmd = "prompt"
               /\ cmd' = "run"
               /\ irq_address' = bus_read_word(IRQ_VECTOR)
               /\ UNCHANGED <<mem, PROGMEM, wild, registers, call, locals, consumed,
                               is_break, inspected>>

run_loop_behind == PC # U16(irq_address + 1)   \* mutant: off by one
run_loop == PC # irq_address

run_clock == /\ cmd = "run" /\ run_loop
             /\ ClockCall(1)
             /\ cmd' = "run_call"
             /\ UNCHANGED shell

run_count == /\ cmd = "run_call" /\ call = "idle"
             /\ cmd' = IF consumed = 0 THEN "run_end" ELSE "run"
             /\ UNCHANGED <<mem, PROGMEM, wild, registers, call, locals, consumed, shell>>

(* The flag is looked for behind the address SP, in the zero page.         *)
BreakFlag == SP # STACK_BASE - 3 /\ B \in Bits(bus_read_byte(SP + 1))

run_end == /\ cmd = "run_end" \/ (cmd = "run" /\ ~run_loop)
           /\ is_break' = BreakFlag
           /\ cmd' = "prompt"
           /\ UNCHANGED <<mem, PROGMEM, wild, registers, call, locals, consumed, inspected>>
           /\ irq_address' = 0

(* inspect: a range that is not one is refused; then one byte is printed   *)
(* for each addr up to end; addr has 32 bits and end 16.                   *)
Quiet == UNCHANGED <<mem, PROGMEM, wild, registers, call, locals, consumed,
                     irq_address, is_break>>

inspect_command(start, end) ==
  /\ cmd = "prompt" /\ start <= end
  /\ cmd' = "inspect"
  /\ inspected' = <<start, end>>
  /\ Quiet

inspect_byte == /\ cmd = "inspect" /\ inspected[1] <= inspected[2]
                /\ inspected' = <<inspected[1] + 1, inspected[2]>>
                /\ Quiet /\ UNCHANGED cmd

inspect_end == /\ cmd = "inspect" /\ inspected[1] > inspected[2]
               /\ cmd' = "prompt"
               /\ inspected' = <<0, 0>>
               /\ Quiet

User == \/ reset_command \/ run_command
        \/ \E n \in Requests : clock_command(n)
        \/ \E r \in Ranges : inspect_command(r[1], r[2])

ShellStep == /\ ~wild /\ past' \in Past
             /\ \/ main \/ clock_command_done
                \/ run_clock \/ run_count \/ run_end
                \/ inspect_byte \/ inspect_end

CpuStep == Step /\ UNCHANGED <<cmd, shell>>

ShellNext == \/ ~wild /\ past' \in Past /\ User
             \/ ShellStep
             \/ CpuStep

(* The thread of the shell keeps running a command that was entered; no    *)
(* command needs to be entered.                                            *)
ShellSpec == /\ ShellInit /\ [][ShellNext]_svars
             /\ WF_svars(ShellStep) /\ WF_svars(CpuStep)

-----------------------------------------------------------------------------
InRun == cmd \in {"run", "run_call", "run_end"}

(* Every command comes back to the prompt.  For run this needs a program   *)
(* that reaches the address in the IRQ vector: the test is made between    *)
(* instructions only, and often enough to see that address.  For inspect   *)
(* it needs a counter that can pass the last address, $FFFF.               *)
CommandsReturn == cmd # "prompt" ~> (cmd = "prompt" \/ wild)

(* fibonacci.s, "calculate 13th fibonacci number 0xE9": whatever the user  *)
(* entered before (a few cycles by hand, a reset in the middle), when run  *)
(* ends the program has ended, has the number in A and X, has compared it  *)
(* equal, and has left the stack alone.                                    *)
FibonacciAnswer ==
  [][InRun /\ cmd' = "prompt" => /\ PC = irq_address
                                 /\ A = \hE9 /\ X = \hE9 /\ Z \in PS
                                 /\ SP = \hFD]_svars

(* main.c:91, "Check the Break Flag in the last pushed stack frame": run   *)
(* reports a break exactly if something is on the stack and the last byte  *)
(* pushed, BRK's status, has the bit B.                                    *)
BreakFlagOfLastFrame ==
  [][InRun /\ cmd' = "prompt" =>
       is_break' = (SP # \hFD /\ B \in Bits(bus_read_byte(STACK_BASE + SP + 1)))]_svars
=============================================================================
