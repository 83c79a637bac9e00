------------------------------- MODULE Wozmon -------------------------------
(***************************************************************************)
(* The command wozmon, main.c, with which the user talks to a monitor      *)
(* program that runs in the emulated machine.                              *)
(*                                                                         *)
(* Host and guest share two bytes of the bus.  wozmon read lets the guest  *)
(* run one instruction at a time and takes ACIA_DATA for a new character   *)
(* whenever it has changed; wozmon write stores a character and a status   *)
(* and lets the guest run one instruction before it stores the next.       *)
(*                                                                         *)
(* The local array buf is the sequence of its characters; input_index is   *)
(* its length.  Behind its 256 bytes a store is out of bounds (wild).      *)
(***************************************************************************)
EXTENDS Shell, Sequences

CONSTANTS Inputs,        \* what the user types behind wozmon write
          POINTER_SIZE   \* sizeof(input): the size of a char*

ASSUME WozmonAssumption == /\ Inputs \subseteq Seq(Byte \ {0})
                           /\ POINTER_SIZE \in {4, 8}

VARIABLES mon_data, buf, rx_done, input,  \* wozmon_command
          printed,   \* the line the last wozmon read printed
          changes    \* history: the values that ACIA_DATA took, as they came

monitor == <<mon_data, buf, rx_done, input>>
host    == <<cmd, shell, monitor, printed>>
machine == <<mem, PROGMEM, wild, registers, call, locals, consumed>>
wvars   == <<svars, monitor, printed, changes>>

ACIA_DATA    == \h4100
ACIA_STATUS  == \h4101
MON_BUF_SIZE_short == \hFF                  \* mutant: one byte less
MON_BUF_SIZE == \h100
CR           == \h0D

new_mon_data == bus_read_byte(ACIA_DATA)

WozInit == /\ ShellInit
           /\ mon_data = 0 /\ buf = <<>> /\ rx_done = FALSE /\ input = <<>>
           /\ printed = <<>> /\ changes = <<>>

-----------------------------------------------------------------------------
(* wozmon read.                                                            *)
wozmon_read == /\ cmd = "prompt"
               /\ cmd' = "read"
               /\ irq_address' = bus_read_word(IRQ_VECTOR)
               /\ mon_data' = new_mon_data
               /\ printed' = <<>>
               /\ UNCHANGED <<machine, is_break, inspected, buf, rx_done, input, changes>>

read_loop == cmd = "read" /\ PC # irq_address /\ ~rx_done

(* printf("%s"): up to the first NUL; a full buffer has none behind it.    *)
Printouts(s) ==
  IF \E i \in DOMAIN s : s[i] = 0
  THEN {SubSeq(s, 1, i - 1) : i \in {j \in DOMAIN s : s[j] = 0 /\ \A k \in 1 .. j - 1 : s[k] # 0}}
  ELSE {s} \cup (IF Len(s) < MON_BUF_SIZE THEN {} ELSE {Append(s, past)})

no_char == new_mon_data = mon_data /\ UNCHANGED <<monitor, printed>>

(* Mutant: input_index++ forgotten.                                        *)
next_char_stuck ==
  /\ new_mon_data \notin {mon_data, CR} /\ Len(buf) < MON_BUF_SIZE
  /\ buf' = <<new_mon_data>> /\ mon_data' = new_mon_data
  /\ UNCHANGED <<rx_done, input, printed>>

next_char ==
  /\ new_mon_data \notin {mon_data, CR} /\ Len(buf) < MON_BUF_SIZE
  /\ buf' = Append(buf, new_mon_data) /\ mon_data' = new_mon_data
  /\ UNCHANGED <<rx_done, input, printed>>

(* Mutant: rx_done is not set: the host waits for another line.            *)
line_end_waits ==
  /\ new_mon_data = CR /\ mon_data # CR /\ Len(buf) < MON_BUF_SIZE
  /\ printed' \in Printouts(Append(buf, CR))
  /\ buf' = <<>> /\ mon_data' = CR
  /\ UNCHANGED <<rx_done, input>>

line_end ==
  /\ new_mon_data = CR /\ mon_data # CR /\ Len(buf) < MON_BUF_SIZE
  /\ printed' \in Printouts(Append(buf, CR))
  /\ buf' = <<>> /\ rx_done' = TRUE /\ mon_data' = CR
  /\ UNCHANGED input

poll_clock_batch == ClockCall(20)           \* mutant: several instructions
poll_clock == ClockCall(1)

read_poll == /\ read_loop
             /\ no_char \/ next_char \/ line_end
             /\ poll_clock
             /\ cmd' = "read_call"
             /\ UNCHANGED <<shell, changes>>

read_past_end == /\ read_loop
                 /\ new_mon_data # mon_data /\ Len(buf) >= MON_BUF_SIZE
                 /\ wild' = TRUE
                 /\ UNCHANGED <<mem, PROGMEM, registers, call, locals, consumed, host, changes>>

read_return == /\ cmd = "read_call" /\ call = "idle"
               /\ cmd' = "read"
               /\ UNCHANGED <<machine, shell, monitor, printed, changes>>

read_end == /\ cmd = "read" /\ ~read_loop
            /\ cmd' = "prompt"
            /\ irq_address' = 0
            /\ mon_data' = 0 /\ buf' = <<>> /\ rx_done' = FALSE /\ changes' = <<>>
            /\ UNCHANGED <<machine, is_break, inspected, input, printed>>

-----------------------------------------------------------------------------
(* wozmon write: sizeof(input) is the size of the pointer, so at most that *)
(* many characters are stored.  Both bytes are RAM under every build.      *)
wozmon_write(s) ==
  /\ cmd = "prompt"
  /\ cmd' = "write"
  /\ input' = SubSeq(s, 1, IF Len(s) < POINTER_SIZE THEN Len(s) ELSE POINTER_SIZE)
  /\ UNCHANGED <<machine, shell, mon_data, buf, rx_done, printed, changes>>

READY == \h10

write_char ==
  /\ cmd = "write" /\ input # <<>>
  /\ mem' = memory_set(memory_set(mem, decode_address(ACIA_DATA), Head(input)),
                       decode_address(ACIA_STATUS), READY)
  /\ input' = Tail(input)
  /\ cmd' = "write_clock"
  /\ UNCHANGED <<PROGMEM, wild, registers, call, locals, consumed,
                 shell, mon_data, buf, rx_done, printed, changes>>

write_clock == /\ cmd = "write_clock"
               /\ ClockCall(1)
               /\ cmd' = "write_call"
               /\ UNCHANGED <<shell, monitor, printed, changes>>

write_return == /\ cmd = "write_call" /\ call = "idle"
                /\ cmd' = "write"
                /\ UNCHANGED <<machine, shell, monitor, printed, changes>>

write_end == /\ cmd = "write" /\ input = <<>>
             /\ cmd' = "prompt"
             /\ UNCHANGED <<machine, shell, monitor, printed, changes>>

-----------------------------------------------------------------------------
WozUser == /\ ~wild /\ past' \in Past
           /\ \/ User /\ UNCHANGED <<monitor, printed, changes>>
              \/ wozmon_read
              \/ \E s \in Inputs : wozmon_write(s)

HostStep == \/ ShellStep /\ UNCHANGED <<monitor, printed, changes>>
            \/ /\ ~wild /\ past' \in Past
               /\ \/ read_poll \/ read_past_end \/ read_return \/ read_end
                  \/ write_char \/ write_clock \/ write_return \/ write_end

(* A step of the CPU, with the history of what the host should see.        *)
GuestStep ==
  /\ CpuStep
  /\ UNCHANGED <<monitor, printed>>
  /\ changes' = IF cmd = "read_call" /\ new_mon_data' # new_mon_data
                THEN Append(changes, new_mon_data') ELSE changes

WozNext == WozUser \/ HostStep \/ GuestStep

(* As in the shell: a command that was entered goes on, none has to be.    *)
WozSpec == /\ WozInit /\ [][WozNext]_wvars
           /\ WF_wvars(HostStep) /\ WF_wvars(GuestStep)

-----------------------------------------------------------------------------
InRead == cmd \in {"read", "read_call"}

(* wozmon read misses no change of ACIA_DATA and sees none twice: whenever *)
(* it looks, the values that the register took since the command began are *)
(* those in the buffer, and the one it finds if that is new.  This holds   *)
(* because it looks between any two instructions; a character equal to the *)
(* one before it is no change, and lost.                                   *)
HostSeesEveryChange ==
  cmd = "read" /\ ~rx_done =>
    changes = IF new_mon_data = mon_data THEN buf ELSE Append(buf, new_mon_data)

(* The line that is printed is all that the register took up to and with   *)
(* the CR, if that fits in 255 characters, none of them NUL.               *)
LineIsPrinted ==
  [][~rx_done /\ rx_done' =>
       /\ changes # <<>> /\ changes[Len(changes)] = CR
       /\ Len(changes) < MON_BUF_SIZE /\ (\A i \in DOMAIN changes : changes[i] # 0)
            => printed' = changes]_wvars

(* wozmon read stores behind its buffer only for a guest that has sent     *)
(* more than 256 values since the command began, however they were timed:  *)
(* the unchecked input_index counts neither a value twice nor the values   *)
(* of an earlier command.                                                  *)
LongestLine == 256
LinesFit == [][cmd = "read" /\ wild' => Len(changes) > LongestLine]_wvars

(* wozmon read that ends without a line, because the guest has come to the *)
(* address in the IRQ vector, has lost none but one that the guest ended   *)
(* with its very last value: the loop is left before that is looked at.    *)
OnlyLastLineIsLost ==
  [][cmd = "read" /\ cmd' = "prompt" /\ ~rx_done =>
       \A i \in 1 .. Len(changes) - 1 : changes[i] # CR]_wvars

(* The user gets the prompt back when the guest has ended a line.          *)
LineEndsRead ==
  InRead /\ changes # <<>> /\ changes[Len(changes)] = CR
    ~> (cmd = "prompt" \/ wild)
=============================================================================
