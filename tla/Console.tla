------------------------------- MODULE Console -------------------------------
(***************************************************************************)
(* The console of the simulated chip.  The program prints through          *)
(* uart_putc (core_portme.c), which waits for room in the UART and stores  *)
(* a byte; the test bench (coremark_main.cpp) drives the clock, decodes    *)
(* the line and ends when it has seen the line that CoreMark prints last.  *)
(*                                                                         *)
(* The processor reaches its next access after any number of periods.      *)
(***************************************************************************)
EXTENDS Uart, SequencesExt

CONSTANTS
  CyclesPerBit,  \* kUartCyclesPerBit
  Marker,        \* kCompletionMarker
  CR, LF,
  Texts          \* what the program may print

\* The test bench counts the bit time that portable_init sets (1519 + 1), and
\* the marker's first character ('C') does not come again in it.
ASSUME ConsoleAssumption ==
  /\ CyclesPerBit = Baud + 1
  /\ Marker \in Seq(Character) /\ Marker # <<>>
  /\ \A k \in 2..Len(Marker) : Marker[k] # Marker[1]

VARIABLES
  text,      \* what is left to print, the running character first
  pc,        \* the place in uart_putc
  cr,        \* the '\r' of a '\n' has been sent
  state, countdown, bit, value,  \* the decoder of the line
  marker_pos, marker_seen,
  exit,      \* the exit code of the test bench, or "running"
  written, accepted, decoded     \* history variables: the bytes stored to
                                 \* UART_DATA, taken by the UART, and printed

programVars == <<text, pc, cr>>
decoderVars == <<state, countdown, bit, value, marker_pos, marker_seen>>
consoleVars == <<uartVars, busVars, programVars, decoderVars, exit, written, accepted, decoded>>

ConsoleInit ==
  /\ UartInit
  /\ text \in Texts /\ pc = "poll" /\ cr = FALSE
  /\ state = "Idle" /\ countdown = 0 /\ bit = 0 /\ value = 0
  /\ marker_pos = 0 /\ marker_seen = FALSE
  /\ exit = "running"
  /\ written = <<>> /\ accepted = <<>> /\ decoded = <<>>

-----------------------------------------------------------------------------
(* uart_putc.  Each action gives the access of the period.                 *)

Elsewhere == UNCHANGED programVars

Poll ==
  /\ text # <<>> /\ pc = "poll"
  /\ pc' = "answer"
  /\ UNCHANGED <<text, cr>>

\* The period behind the load, in which its data is on the bus.
Answer ==
  /\ pc = "answer"
  /\ pc' = IF CpuDmemRdata THEN "poll" ELSE "store"
  /\ UNCHANGED <<text, cr>>

\* A '\n' sends a '\r' before itself.
Byte == IF Head(text) = LF /\ ~cr THEN CR ELSE Head(text)

Put ==
  /\ pc = "store"
  /\ pc' = "poll"
  /\ IF Byte # Head(text) THEN cr' = TRUE /\ UNCHANGED text
     ELSE cr' = FALSE /\ text' = Tail(text)

Program(access) ==
  \/ pc # "answer" /\ access = Nothing /\ Elsewhere
  \/ access = LoadStatus /\ Poll
  \/ access = Nothing /\ Answer
  \/ pc = "store" /\ access = StoreByte(Byte) /\ Put

-----------------------------------------------------------------------------
(* UartDecoder.                                                            *)

\* Mutant: a character that breaks the marker off never begins it anew.
MatchNoRestart(c) ==
  IF marker_seen THEN UNCHANGED <<marker_pos, marker_seen>>
  ELSE /\ marker_pos' = IF c = Marker[marker_pos + 1] THEN marker_pos + 1 ELSE 0
       /\ marker_seen' = (marker_pos' = Len(Marker))

Match(c) ==
  IF marker_seen THEN UNCHANGED <<marker_pos, marker_seen>>
  ELSE /\ marker_pos' = IF c = Marker[marker_pos + 1] THEN marker_pos + 1
                        ELSE IF c = Marker[1] THEN 1 ELSE 0
       /\ marker_seen' = (marker_pos' = Len(Marker))

Emit(c) ==
  /\ decoded' = Append(decoded, c)
  /\ Match(c)
  /\ exit' = IF marker_seen /\ c = LF THEN "0" ELSE "running"

Silent == UNCHANGED <<marker_pos, marker_seen, decoded, exit>>

CountDown == countdown' = countdown - 1 /\ UNCHANGED <<state, bit, value>> /\ Silent

\* One call of sample with the level of the line behind the edge.  The throw of
\* a framing error ends the test bench.
Sample(level) ==
  CASE state = "Idle" ->
         /\ IF level = 0 THEN state' = "Start" /\ countdown' = CyclesPerBit \div 2 - 1
            ELSE UNCHANGED <<state, countdown>>
         /\ UNCHANGED <<bit, value>> /\ Silent
    [] state # "Idle" /\ countdown # 0 -> CountDown
    [] state = "Start" /\ countdown = 0 ->
         /\ IF level = 0 THEN /\ state' = "Data" /\ countdown' = CyclesPerBit - 1
                              /\ bit' = 0 /\ value' = 0
            ELSE state' = "Idle" /\ UNCHANGED <<countdown, bit, value>>
         /\ Silent
    [] state = "Data" /\ countdown = 0 ->
         /\ value' = value + level * 2^bit
         /\ countdown' = CyclesPerBit - 1
         /\ IF bit = DataBits - 1 THEN state' = "Stop" /\ UNCHANGED bit
            ELSE bit' = bit + 1 /\ UNCHANGED state
         /\ Silent
    [] state = "Stop" /\ countdown = 0 ->
         IF level = 0 THEN exit' = "1" /\ UNCHANGED <<decoderVars, decoded>>
         ELSE state' = "Idle" /\ UNCHANGED <<countdown, bit, value>> /\ Emit(value)

-----------------------------------------------------------------------------
(* One turn of the test bench's loop: one clock period of the chip.        *)
Cycle(access) ==
  /\ exit = "running"
  /\ Program(access)
  /\ UartEdge(access) /\ BusEdge(access)
  /\ written'  = IF access.op = "store" THEN Append(written, access.data) ELSE written
  /\ accepted' = IF TxPush(access) THEN Append(accepted, access.data) ELSE accepted
  /\ Sample(tx')

Clock == \E access \in {Nothing, LoadStatus} \cup {StoreByte(c) : c \in Character} : Cycle(access)

\* max_cycles is a number that nothing ties to the program.
Timeout ==
  /\ exit = "running"
  /\ exit' = "2"
  /\ UNCHANGED <<uartVars, busVars, programVars, decoderVars, written, accepted, decoded>>

ConsoleNext == Clock \/ Timeout

\* The test bench runs its loop until it ends.
ConsoleSpec == ConsoleInit /\ [][ConsoleNext]_consoleVars /\ WF_consoleVars(Clock)

-----------------------------------------------------------------------------
\* Bit times, sampling points, the ring buffer and the serializer fit: the test
\* bench prints the bytes that the UART took, none changed, skipped or repeated,
\* and the line is never out of frame.  As the status that uart_putc waits on
\* comes too late, the UART may not take a byte, but then the overflow flag says
\* so for good.
LineIsFaithful ==
  /\ IsPrefix(decoded, accepted) /\ exit # "1"
  /\ overflow_error <=> accepted # written

Occurs(n) == \A k \in 1..Len(Marker) : decoded[n + k] = Marker[k]

MarkerEnds == {n + Len(Marker) : n \in {m \in 0..Len(decoded) - Len(Marker) : Occurs(m)}}

\* The test bench ends with success exactly at the first end of line behind the
\* marker, wherever in the output the marker stands and whatever begins like it.
EndsOnMarker ==
  exit \in {"running", "0"} =>
    (exit = "0" <=> \E e \in MarkerEnds : \E k \in e + 1..Len(decoded) : decoded[k] = LF)

\* Every byte that the UART took is printed while the test bench runs.
AcceptedArrives == decoded # accepted ~> (decoded = accepted \/ exit # "running")
=============================================================================
