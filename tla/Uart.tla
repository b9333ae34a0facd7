-------------------------------- MODULE Uart --------------------------------
(***************************************************************************)
(* UART.sv, its sending half, with the path on which a load brings its     *)
(* status to the processor: the UART registers its answer, IO.sv its       *)
(* target, and bridge.sv samples what IO shows and registers it again.     *)
(*                                                                         *)
(* One step is one rising edge of clk.  The divided clock is used          *)
(* (BOUNDARY_ON), and the UART is enabled: the state that portable_init    *)
(* leaves.  Of the status word only TX_FULL is kept, the bit that the      *)
(* software looks at.                                                      *)
(***************************************************************************)
EXTENDS Integers, Sequences

CONSTANTS
  Depth,     \* FIFO_DEPTH
  DataBits,  \* the bits of a byte
  Baud       \* the divisor in uart_baud: a bit lasts Baud + 1 periods

ASSUME UartAssumption == {Depth, DataBits, Baud} \subseteq Nat \ {0}

\* Arithmetic, stated because no prover used here knows it of `^'.
ASSUME PowerAssumption ==
  2^0 = 1 /\ \A k \in 0..DataBits : 2^k \in Nat \ {0} /\ 2^(k + 1) = 2 * 2^k

VARIABLES
  baud_cnt,
  tx, tx_state, tx_bit_idx, tx_shift,
  tx_buffer, tx_head, tx_tail, tx_count,
  tx_full, overflow_error,
  uart_rdata,      \* the status as the UART has registered it
  io_target,  \* IO's read_target_r is IO_TARGET_UART
  io_rdata_r, bus_target  \* the bridge's registers

uartVars == <<baud_cnt, tx, tx_state, tx_bit_idx, tx_shift, tx_buffer, tx_head, tx_tail,
              tx_count, tx_full, overflow_error>>
busVars  == <<uart_rdata, io_target, io_rdata_r, bus_target>>

Character == 0..2^DataBits - 1

\* What EX does in a period: nothing at the UART, a load of UART_STATUS, or a
\* store to UART_DATA.
Nothing      == [op |-> "none"]
LoadStatus   == [op |-> "load"]
StoreByte(c) == [op |-> "store", data |-> c]

\* The UART behind portable_init.  The divider runs on, so it can be anywhere
\* when the first byte comes.
UartInit ==
  /\ baud_cnt \in 0..Baud
  /\ tx = 1 /\ tx_state = "idle" /\ tx_bit_idx = 0 /\ tx_shift = 0
  /\ tx_buffer = [k \in 0..Depth - 1 |-> 0]
  /\ tx_head = 0 /\ tx_tail = 0 /\ tx_count = 0
  /\ tx_full = FALSE /\ overflow_error = FALSE
  /\ uart_rdata = FALSE /\ io_target = FALSE /\ io_rdata_r = FALSE /\ bus_target = FALSE

-----------------------------------------------------------------------------
TxTick == baud_cnt >= Baud

\* Mutant: a byte is taken into a full buffer.
PushIntoFull(access) == access.op = "store" /\ tx_count <= Depth

TxPush(access) == access.op = "store" /\ tx_count < Depth

\* Mutant: the last byte stays in the buffer.
PopUnlessLast == TxTick /\ tx_state = "idle" /\ tx_count > 1

TxPop == TxTick /\ tx_state = "idle" /\ tx_count # 0

BaudEdge == baud_cnt' = IF TxTick THEN 0 ELSE baud_cnt + 1

FifoEdge(access) ==
  /\ IF TxPush(access)
     THEN /\ tx_buffer' = [tx_buffer EXCEPT ![tx_tail] = access.data]
          /\ tx_tail' = (tx_tail + 1) % Depth
     ELSE UNCHANGED <<tx_buffer, tx_tail>>
  /\ IF TxPop
     THEN tx_shift' = tx_buffer[tx_head] /\ tx_head' = (tx_head + 1) % Depth
     ELSE UNCHANGED <<tx_shift, tx_head>>
  /\ tx_count' = tx_count + (IF TxPush(access) THEN 1 ELSE 0) - (IF TxPop THEN 1 ELSE 0)
  /\ tx_full' = (tx_count = Depth)

FlagEdge(access) ==
  overflow_error' = (overflow_error \/ (access.op = "store" /\ ~TxPush(access)))

BitOf(c, k) == (c \div 2^k) % 2

\* The start bit, the data bits from the lowest on, the stop bit, and one more
\* bit time until the next byte can be taken.
FrameEdge ==
  CASE tx_state = "idle" ->
         /\ IF TxPop THEN tx_state' = "start" /\ tx_bit_idx' = 0 /\ tx' = 0
            ELSE UNCHANGED <<tx_state, tx_bit_idx>> /\ tx' = 1
    [] tx_state # "idle" /\ ~TxTick -> UNCHANGED <<tx, tx_state, tx_bit_idx>>
    [] tx_state = "start" /\ TxTick ->
         tx_state' = "data" /\ tx_bit_idx' = 0 /\ tx' = BitOf(tx_shift, 0)
    [] tx_state = "data" /\ TxTick ->
         IF tx_bit_idx = DataBits - 1
         THEN tx_state' = "stop" /\ tx' = 1 /\ UNCHANGED tx_bit_idx
         ELSE /\ tx_bit_idx' = tx_bit_idx + 1 /\ tx' = BitOf(tx_shift, tx_bit_idx + 1)
              /\ UNCHANGED tx_state
    [] tx_state = "stop" /\ TxTick ->
         tx_state' = "idle" /\ tx' = 1 /\ UNCHANGED tx_bit_idx

UartEdge(access) == BaudEdge /\ FifoEdge(access) /\ FlagEdge(access) /\ FrameEdge

-----------------------------------------------------------------------------
\* What IO shows, and what the processor sees.
IoRdata      == io_target /\ uart_rdata
CpuDmemRdata == bus_target /\ io_rdata_r

BusEdge(access) ==
  LET re == access.op = "load"
  IN  /\ uart_rdata' = IF re THEN tx_full ELSE uart_rdata
      /\ io_target' = re
      /\ io_rdata_r' = IF re THEN IoRdata ELSE io_rdata_r
      /\ bus_target' = (access.op # "none")
=============================================================================
