# A verification project for the RV32 pipeline, its SoC and CoreMark

The repository holds a single-issue, in-order, five-stage RV32IM processor in
SystemVerilog (`src/rtl/cpu_top`) and a small system on chip around it
(`src/rtl/my_cpu`): data RAM, bus bridge, timer, UART, LEDs and an interrupt
controller. The program it is measured with, CoreMark in C with a port to this
chip, and the test bench that runs it on the simulated chip, in C++, belong to
the repository too. This directory holds TLA+ models of hardware and software, the
TLC runs that check them on small instances, and TLAPS proofs of what holds for
every instance.

## 1. The system

The hardware runs on one clock. "Concurrency" here is the concurrency of hardware:
all registers of all stages change at once, each from the values the others had
before the edge, and most of the hard cases are two or three events that meet in
one clock period. In the modules of the hardware **one step is one rising clock edge**; the
combinational signals of a period are operators, the registers are variables, and
what the environment contributes to a period is quantified in `Next`. In those of
CoreMark a step is one turn of a loop, or the straight code between two loops.

### Components

| component | source | state | operations (per edge) |
| --- | --- | --- | --- |
| stage boundary | `id_stage.sv:61-148`, `exe_stage.sv:58-160`, `mem_stage.sv:44-106` | main register + valid, skid register + valid, registered allow-in, flush marks | load, refill from skid, stash into skid, hold |
| fetch | `if_stage.sv` | `if_active`, outstanding request, redirect register | request, response, redirect |
| branch predictor | `if_stage.sv:47-231` | 128-row table, row read for the outstanding fetch, update register | look up, train, bypass |
| decode | `id_stage.sv` | its boundary | classify, look up operands, wait for a load in EX |
| execute | `exe_stage.sv` | its boundary | compute, access memory, resolve the branch, redirect |
| multiply/divide | `mul.sv`, `mul_pipeline.sv`, `divider.sv` | pipeline valids, operands, division state, discard flag | start, complete, flush, drain |
| stack value buffer | `stack_value_buffer.sv` | 16 rows: valid, tag, data; captured word | query (ID), capture and snoop (EX) |
| memory stage | `mem_stage.sv` | its boundary | align the load, raise exceptions, take interrupts |
| write back | `wb_stage.sv` | valid, result | write the register file |
| trap unit | `regfile_csr.sv` | CSRs, `prev_exception_flag`, counters | CSR write, trap entry, mret |
| bridge, IO | `bridge.sv`, `IO.sv` | target of the last read, sampled data | route, return data one period later |
| PLIC | `PLIC.sv` | priority, pending, enable, in service, threshold, registered selection | latch, select, claim, complete |
| timer | `timer.sv` | load, value, control, prescaler | step, bus read/write, interrupt |
| UART | `UART.sv` | two FIFOs, bit engines, status | push, pop, shift, status |
| list kernel | `core_list_join.c` | cells and data items linked by `next` and `info`; cached results in the items | insert, find, reverse, move, sort, remove, undo |
| state kernel | `core_state.c` | a block of text | scan, corrupt, undo |
| matrix kernel | `core_matrix.c` | matrices A, B, C | add and multiply by constants, multiply, sum |
| CoreMark | `core_main.c`, `core_util.c` | seeds, sizes, CRCs, errors | initialize, iterate, compare with the known CRCs |
| port | `core_portme.c` | none of its own | wait for room in the UART, store a byte |
| test bench | `coremark_main.cpp` | UART decoder, marker counter | clock the chip, sample the line, stop |

### How they interact

* IF offers an instruction to ID, ID to EX, EX to MEM, MEM to WB: a valid bit
  downstream, a *registered* allow-in upstream.
* EX redirects IF and flushes ID (`br_redirect`) when the prediction a branch
  carries is wrong; it trains the predictor one period later.
* MEM raises exceptions and takes interrupts; `regfile_csr` turns the code into
  `exception_flag`, which flushes IF, ID and EX and redirects IF to `mtvec` or
  `mepc`.
* A flush does not empty registers: it *marks* the instructions, which then
  travel through the pipeline without effect. A valid bit that falls does not
  clear its register either, and several consumers look at the register only.
* ID stops for a result EX cannot forward yet; EX stops for the multiplier and
  divider. MEM and WB never stop.
* ID looks a load up in the stack value buffer; EX copies the row for the
  instruction behind the load, and snoops stores into the buffer.
* The PLIC's request enters MEM; the bridge carries CPU reads and writes to the
  data RAM, the peripherals and the PLIC.
* CoreMark's list kernel calls the two others from the comparison of a sort, and
  keeps their results in the list; CRCs of everything accumulate in `core_results`.
* `ee_printf` sends each byte through `uart_putc`, which polls the UART's status
  and stores; the UART's line goes to the decoder of the test bench, which ends the
  simulation behind the line that CoreMark prints last.

### What is hard about it, and what correctness means

* *Boundary*: the producer acts on last period's allow-in. Correct: the two
  registers are a FIFO that loses, duplicates and reorders nothing and reopens.
* *Pipeline control*: redirects, traps, stalls and skid refills in one period,
  and consumers of registers whose valid bit has fallen. Correct: the
  instructions in flight are a queue; only what is younger than a wrongly
  predicted jump or a trap disappears, each jump and trap acts once, and
  instructions keep coming.
* *Fetch and prediction*: rows shared by instructions, rows trained while they
  are read, redirects that overtake each other. Correct: whatever is predicted,
  EX executes the program.
* *Stack value buffer*: a lookup in one stage used in another, many kinds of
  stores. Correct: a buffered word equals memory, and what is forwarded is what
  the load returns.
* *Multiply/divide*: a divider that cannot be stopped under a pipeline that can.
  Correct: the right result for the right operation, and no wait without end.
* *CoreMark*: one list is cut and relinked in place by every operation, results
  are cached in what is being sorted, and the other kernels' data is changed and
  changed back from inside a comparison. Correct: no cell is lost, everything is as
  it was when a kernel returns, and the run ends with the CRCs it is known to have.
* *Console*: three clocks (program, divider, decoder) that nothing synchronizes, a
  small FIFO and a status that comes late. Correct: the test bench prints what the
  UART took and stops exactly behind the marker.
* *Trap unit, PLIC, bridge, peripherals*: events in the period of a bus access,
  selections and data registered one period late. Correct: no interrupt is lost
  or served twice, a handler returns to where it was interrupted, a load returns
  what the peripheral held.

`PROJECT.json` lists these hazards one by one with their source lines and the
properties that cover them.

## 2. The modules

| module | what it is |
| --- | --- |
| `SkidBuffer` | one stage boundary, in isolation |
| `BoundedFifo` | abstract: the queue a boundary implements |
| `Pipeline` | control of the whole pipeline, over classes of instructions |
| `InOrder` | abstract: the in-order queue the pipeline implements |
| `Clocked` | `Pipeline` with its clock visible, for liveness |
| `Fetch` | `if_stage`: request, redirect, predictor; one operator for its edge |
| `FrontEnd` | `Fetch` composed with a queue of accepted instructions and EX's branch check |
| `ProgramOrder` | abstract: a program executed in order, with traps |
| `StackBuffer` | stack value buffer, ID query, EX snoop and capture, data RAM |
| `MulDiv` | multiply/divide controller, multiplier pipeline, divider |
| `Operands` | where an instruction gets its operand: forwarding, load-use wait, write back, register file |
| `Plic` | the interrupt controller |
| `Gateway` | abstract: the turn of each interrupt source, idle, pending, serving |
| `Bridge` | `Plic` driven by the processor through the bridge's registered return path |
| `Uart` | the sending half of the UART, and the return path of its status through IO and bridge |
| `Console` | `Uart` between the program that prints and the test bench that decodes |
| `CoreUtil` | integer types and CRCs of CoreMark |
| `CoreState`, `CoreMatrix` | the state and the matrix kernel, as functions on their blocks |
| `CoreList` | the list kernel, step by step, with comparisons that run the two others |
| `CoreMark` | the main program around the list kernel |
| `*Proofs` | the theorems about the module of that name; `DeviceProofs`: about `Bridge` and `Console` |
| `MC*` | the instances TLC checks |

### SkidBuffer
`valid`/`main` are the main register, `skid_valid`/`skid` the skid register,
`allowin_r` the registered allow-in. `Refill`, `Load`, `Stash` and `Hold` are the
four branches of the `always_ff` of `exe_stage.sv:102-159`; ID and MEM have the
same ones. Whether the producer offers something and whether the consumer is
ready are inputs. Flush marks are left to `Pipeline`.

### Pipeline
Each of `id`, `exe`, `mem` is a record of the registers of that stage
(`Registers`); the operators carry the names of the source's signals (`EsFlush`
is `es_flush`, `DsToEsValid` is `ds_to_es_valid`, ...). The content of an
instruction is abstracted to its class: ordinary, load, multi-cycle, wrongly
predicted jump, ecall/ebreak, misaligned access, mret. Whether the operands of ID
collide with EX, whether an enabled interrupt is requested, and whether the
multiplier or divider is done are inputs (`Inputs`); instruction memory returns
any instruction. The model keeps what makes this code delicate: stage registers
keep their contents, `BrRedirect` does not look at `exe.valid`, `SyncException`
does not look at `mem.valid`, the refill of EX does not merge the flush of its
period, and `prev_exception` decides whether an mret returns.

`Jumps` are the transfers whose outcome contradicts the prediction. That a
mispredicted transfer is recognised, and what is fetched next, is `FrontEnd`'s
subject.

### Fetch and FrontEnd
`FetchEdge` is the whole clock edge of `if_stage`: request and response,
redirect register, training and lookup. The lookup table and the update shadow of
the source receive the same writes and are one variable, `btb`; a clear valid bit
is the row `NoEntry`. `FrontEnd` adds what surrounds it: `flight`, the
instructions that ID accepted and EX has not executed (how ID and EX hold them is
`Pipeline`), EX's outcome, redirect and training, and MEM's redirect, which
belongs to the instruction that EX executed in the period before (`ms_pc`).

### StackBuffer
Words are `Cell`s, a word's row is a constant function, a value is atomic. A
partial store (`part`) may turn a word into any other value. `MemoryEdge` is the
data RAM with the bridge's response register; `SnoopEdge` and `CaptureEdge` are
the two halves of the buffer's edge; `StackQueryValid` is ID's query condition.
That EX always hands a memory access to MEM in its first period is a theorem of
`PipelineProofs` (`BackEndFlows`).

### MulDiv
The variables are the registers of the three source modules. A half word has `H`
values (2^16 in the source, 4 in the runs) and a word `H * H`. The environment holds an operation in EX
until `MulStall` falls and may flush it in any period. In this processor a
division that has started is never flushed, because MEM is empty from the second
period of a division on; the unit is nevertheless written, and tested by
`src/test/tb_div_kill_drain.sv`, for flushes at any time, and that is the
contract checked here. `result_ready` is MEM's allow-in, which is always high.

### Operands
The contents that `Pipeline` abstracts: destination, source, result and operand of
the instructions in ID, EX, EX's skid register, MEM and WB, and the register file.
`Operand` is the choice of `id_stage.sv:457-464` and `663-679` together with EX's
selection; the source carries a code and the candidates into EX, all registered at
one edge. `ExecuteAdvances` and `ExecuteStops` are the two ways EX moves. One
source operand stands for both. A stage without a valid instruction is a
`Bubble`, because every use of the contents looks at the valid bit here. Inputs
are the trap, the redirect, the unit's answer, the results, and `hit`: the stack
value buffer delivers the loaded word in that period. `hit` is always truthful
here; the case in which it is not is the run `stack_eviction`. CSR and floating
point forwarding are left out.

### Plic and Bridge
Every access of the processor is an action of `Plic`, and every action is a clock
edge at which any lines may be high. `Gateways` holds what the source computes
with its claim and release masks. `Bucket`, `PrioId` and `Levels` are the buckets
and the two scans of the selection. The contents of registers other than claim
are one value, `Other`. `plic_irq` and `claim_valid_r` equal `claim # None`.
`Bridge` adds the target and data registers of `bridge.sv`: a load's data is
`plicData` in the period after the access. `Phase` maps the two bits of each
source to its turn in `Gateway`.

### CoreUtil, CoreState, CoreMatrix
Words are natural numbers or, where the code computes with `ee_s16`, integers that
`Short` wraps. The blocks of the two kernels are functions from positions to bytes
or shorts, and each function of the source is an operator from the block it is
given to the block it leaves. `BenchState` runs the state machine over the text,
corrupts it, runs it again and undoes the corruption; `MatrixTest` adds a value to
A, multiplies, and subtracts it. Both return what they leave behind and the CRC.
Characters are their codes, the state machine is a table of `Arc`s over classes
of characters; what follows an input that fits no arc is `INVALID`. The bitwise
operators are constants, so that the proofs need two facts about exclusive or only.

### CoreList and CoreMark
`next` and `info` are the pointers of `list_head`, `idx` and `data` the fields of
`list_data`; cells and items are numbered in the order in which the initialization
takes them. `pc` names the loop or the straight piece of code that runs, `back`
where a sort returns to, `sort` and `bench` are the locals of
`core_list_mergesort` and `core_bench_list`. A comparison is one step, because it
touches data items and blocks but no pointer; that step contains the whole run of
a state or matrix kernel that `calc_func` starts. `CoreMark` adds the sizes and seeds of
a build, the initialization, the iterations and the final comparison. `orig` is a
history variable.

### Uart and Console
`UartEdge` is the sending half of the `always_ff` of `UART.sv`, as `portable_init`
leaves it: enabled, on the divided clock. The divider is anywhere when the first
byte comes. `BusEdge` is the way of the status: UART register, IO target, bridge
register. `Console` adds the program (`Poll`, `Answer`, `Put`; any number of periods
between them), `UartDecoder` with its states and countdown, and the loop of `main`.
Every turn of the loop is one edge of the chip and one sample behind it.

## 3. The runs

| run | asks | instance |
| --- | --- | --- |
| `skid` | is a boundary a FIFO that is never overbooked? | five instructions; at most three meet at a boundary, so any loss, duplication or exchange is visible |
| `pipeline` | do traps and redirects act once, is the pipeline an in-order queue, do ID and EX remain FIFOs within it? | one load, multiplication, jump, ecall and mret; no two instructions of one class behave differently. No bound on time or on the number of instructions |
| `pipeline_live` | do instructions keep reaching MEM? is the order kept with misaligned accesses? | load, misaligned store, multiplication, jump |
| `front_end` | is prediction invisible? | six instructions in two predictor rows: two branches sharing one row, a jump sharing the other with a jalr, ordinary instructions in both; jalr targets include the next instruction; two trap targets; four instructions in flight, as many as the two registers of ID and EX can hold |
| `stack_buffer` | are buffered words coherent, and are hits still true when used? | three words, two in one row; two values; every kind of store |
| `muldiv` | is the arithmetic that of the M extension, whose result is it, can an answer be left over, does a stall end? | all eight operations on all pairs of four-bit words, which include zero, the most negative word and -1; flushes at any time; divider latency 2 |
| `operands` | is the operand the one of the program order? does a trap discard exactly what is behind it? | x0 and one register, two values, every kind of instruction with that register as source and destination; ALU operation and load that write x0, multiplication that reads x0. A wrong choice shows as the other value |
| `plic` | is a source lost, told twice or selected wrongly? | two sources, priorities 0 to 2, any threshold; any lines and any access in every period. Two sources can tie or differ in priority |
| `plic_claim` | (violated) the load that claims a source returns it | as `plic` |
| `stack_eviction` | (violated) what is forwarded is what the load returns | as `stack_buffer` |
| `coremark` | is a cell lost, is everything put back, does it end, with the listed results? | the actual parameters: the 2K performance and validation builds (666 bytes a kernel, 31 list entries, matrices of 9 by 9) and the profile build (400 bytes, 18 entries, 7 by 7), two iterations, which is what it takes to see whether the second starts as the first did |
| `console` | is what is printed what was sent, is loss flagged, does the test bench end in time? | FIFO of two bytes, two data bits, six periods a bit; five texts: the marker alone, behind a character like its first, broken off and begun anew, split by another character, and without end of line in between |

No run of the hardware has a bound on the length of a behaviour: all registers are
finite. The bounds are the constants: number of classes, addresses, words and
values, word width and divider latency. The divider's real latency (10) only lengthens its
waiting state; `Latency` in the proofs is any natural number. `coremark` is the program itself and ends
after its iterations; in `console` the texts are finite.
The ratio of bit time and divider in `console` is that of the source (a bit lasts
one period more than the divisor; the decoder counts the same number), and the
FIFO is as small as the ring arithmetic allows to tell full from empty. Both of
these runs really stop, and are the only ones checked with deadlock allowed.

The two violated runs are disagreements between the code and what the repository
says about it:

1. **`stack_eviction`.** ID finds a load's word in the buffer while a full-word
   store to another word of the same row is in EX. The store takes the row at
   that edge; one period later EX copies the row for the load's successor without
   comparing the tag again (`stack_value_buffer.sv:72`), which then computes with
   the wrong word. `exe_store_pending` covers partial stores only. The
   documentation claims that an address conflict costs performance only.
2. **`plic_claim`.** The controller registers its answer at the edge at which the
   bridge samples the controller's output, so a PLIC load returns the answer of the
   PLIC load before it. A claim puts its source into service while the handler reads
   0 or a stale number; the number arrives with the next PLIC load, which in turn
   may be another claim. The porting guide says that ordinary loads suffice and no
   extra read is needed. The test benches of the controller read its port
   right after that edge, without the bridge. The path through IO has the same
   delay twice over: a load of `UART_STATUS` or `TIMER_VALUE` that does not directly follow
   another IO load returns 0. `Console` shows what follows for the console.

Further observations, which no run refutes because nothing in the repository says
otherwise of the case, or because the models assume it away:

* The bridge maps three address windows to the data RAM, and the snoop of the stack
  value buffer sees one of them (`exe_stage.sv:482-489`, `bridge.sv:64-67`).
  `Coherent` and its theorem are about programs that use one window.
* With the status coming late, the wait in `uart_putc` never waits, so a program
  that prints faster than the line loses bytes. `LineIsFaithful` says that the
  overflow flag then stays set and the bytes that were taken are not disturbed. The
  test bench never looks at the flag.
* For the same reason CoreMark measures zero seconds with this read path. Its
  calibration loop (`core_main.c:242-262`), which runs if `ITERATIONS` is 0 as in
  `core_portme.h`, would not end; the models take the number of iterations as given.
* The state kernel does not restore a byte that its corruption turns into a comma,
  nor anything if the low bytes of seed1 and seed2 differ. `StateRestores` excludes
  both, as the source's comment does for the second; the seeds of the repository's
  builds do neither.
* `core_main.c:318` sets `total_errors` to -1 for unknown seeds and line 377 adds 1
  for a run under ten seconds: such a run prints that its operation is validated.
* Restoring the list (`BackToOriginal`) rests on the `idx` values behind the first fifth of
  the list. At the 2K size there are small seeds (2 to 6, 10 to 14, 18 to 22) whose
  items share some, and the sort by `idx` then leaves these items in another order. Seeds
  7, 15 and 23 give an item the `idx` 0 of the head, before which it may then
  be sorted, and the next call starts in the middle of the list. The builds' seeds
  are not among them; `Startable` and `Distinguishable` in `CoreMark` say what is needed.

## 4. Fairness

`Spec` has no fairness: safety needs none. Liveness is checked under

* `Clocked!LiveSpec`: the clock runs, and periods in which the multiplier or
  divider is done recur, again by `UnitNeverWedges`. Nothing is assumed of
  operand collisions, interrupts or the instructions fetched. The variable
  `phase` makes an edge that changes no register a step; without it a pipeline
  that waits for ever could not be told from one whose clock has stopped, and
  the fairness condition would be too strong.
* `MCMulDiv!MCSpec`: periods without a flush recur (`Unflushed`), and
  `UnitNeverWedges` is about behaviours whose flushes eventually cease.
* `CoreMark!FairSpec`: one program that nothing interrupts takes its next step. The
  formula is weak fairness of `Next` with its enabling condition written out: `Next`
  is enabled until `pc` is "done", and the evaluation of `ENABLED` would run the
  kernels once more for every state.
* `Console!ConsoleSpec`: the test bench goes on calling its loop's body (`Clock`). Nothing is
  assumed of the program's speed, and `Timeout` may end the loop at any time.

That a boundary reopens is part of `KeepsExecuting`, for the boundaries in the
pipeline and with the pauses they have there.

`KeepsExecuting` is checked without ecall and mret: a program that is nothing but
traps has no unflushed instruction behind them. Interrupts remain.

## 5. What is proved

For every value of the constants that satisfies the modules' assumptions:

* `SkidBufferProofs`: `TypeCorrect`, `NeverOverbooked`, `ImplementsFifo`. The
  invariant `Inv` (types and `RoomForInvited`) is inductive; with it each of the
  four branches of the edge is the matching edge of the queue.
* `PipelineProofs`: `TypeCorrect`, `RedirectOnce`, `TrapOnce`, `NoSkidEscape`,
  `FetchNeverForgotten`, `BoundariesImplement`, `ImplementsInOrder`, and `NothingStarves` (below).
  None of the safety invariants is inductive. The invariant adds that MEM and WB never stop
  (`BackEndFlows`), the handshake of the ID and EX boundaries (`Handshake`), that
  an unflushed instruction in ID, EX or MEM has its successor directly behind it
  (`SuccessorBehindId/Exe/Mem`), and what a departed instruction may leave
  behind in EX and MEM (`HarmlessLeftovers`). The argument is that a jump, ecall
  or mret never leaves a stage empty: it waits for nothing itself and its
  successor waits only behind loads and multi-cycle operations, so the successor
  overwrites the register in the edge in which it leaves. This is what makes the
  uses of stage registers without their valid bits safe, and it would break if
  such an instruction could follow itself with a bubble.
  The refinement of `InOrder` takes the queue apart register by register (`AtMem` to
  `AtIf`). A period with a trap leaves every part empty (`TrapDiscards`), one with a
  redirect leaves the jump alone (`RedirectDiscards`), and in every other one each
  boundary hands on what the next receives (`ExecuteMoves`, `DecodeMoves`, `FetchMoves`),
  so that by associativity the queue loses its head and gains what is requested
  (`QueueAdvances`). `BoundariesImplement` needs in addition that what claims to be an
  instruction is not the bus after reset (`Real`), and that EX is never stopped in the
  period of a trap, which would empty its skid register.
* `FrontEndProofs`: `TypeCorrect`, `PredictionIsSound`, `LookupSeesTraining`,
  `ImplementsProgram`. The invariant adds that the table's rows, the row beside an
  outstanding fetch and the pending update are about direct jumps and branches
  with their own target (`SoundTable`), that a pending redirect and an outstanding
  fetch exclude each other (`FetchState`), and that the instructions in flight and
  the outstanding fetch form a chain, each at the address predicted behind the one
  before (`Chained`).
* `StackBufferProofs`: `TypeCorrect`, `BufferIsCoherent`, `HitSurvives`, the
  latter two under the assumption that programs use one window.
* `MulDivProofs`: `TypeCorrect`, `ResultsAreOwn`, `DividerAccounted` and
  `ResultsAreRight`, for every even number of values of a half word and every latency.
  The control part shows that what EX moves on with was computed from its own operands;
  `Sorted` adds which of the unit's registers hold an answer of which kind. What is left
  is arithmetic: the four products of half words, taken as signed or unsigned, add up to
  the product of the operands (`HalfWordProducts`, `SignedProducts`), and the quotient of
  the magnitudes with its sign put back is the one RISC-V defines, the division by zero and
  the overflow apart (`SignedQuotients`, `SpecialCases`).
* `OperandsProofs`: `TypeCorrect`, `OperandsAreNewest`, `PreciseCommit`.
  `ReadsNewest` is not inductive: an instruction may wait in EX's skid register
  while older ones write back. The invariant adds that EX is closed only while a
  multi-cycle operation waits in it and MEM is empty (`ClosedWaits`), and
  that what the skid register holds does not depend on that operation and has an
  operand that is still current (`SkidKept`).
* `DeviceProofs`, the interrupt controller: `TypeCorrect`, `SelectionIsBest`,
  `ClaimsAreReal`, `ImplementsGateways`. The selection's theorem rests on the existence
  of least and greatest elements (from the library's well-foundedness of the natural
  numbers); the rest on `ClaimIsReal` together with `Disjoint`, no source being pending
  and in service at once. A period is quiet, a claim or a completion, and each of them is
  a step of `Gateway`.
* `DeviceProofs`, the console: `LineFaithful`, `SuccessAtMarker`, for every buffer depth,
  byte width, divisor and text. Neither invariant is inductive. `Framing` relates the two
  state machines at the ends of the wire: within a frame the test bench samples half a
  bit after the UART changes the line, so the sum of the divider and the countdown is one
  of two numbers (`BeforeSample`, `AfterSample`), the two bit counters are equal or one
  apart accordingly, and `value` holds the low bits of the byte being sent. `Ring` numbers
  the bytes from the first one taken: head and tail are the numbers of the next byte to
  send and to take modulo the depth, and the entries in between are the bytes
  taken and not sent (`NextIndex`, `DistinctIndices`). `Delivered` puts both
  together: what is decoded is what was taken, without the waiting bytes and the one on
  the wire. `Losses` ties the overflow flag to the difference between bytes written and
  taken. `Search` is about the recognition of the marker: `marker_pos` is the length of
  the one part of the marker that the output ends on, which holds because the marker's
  first character does not come again in it.
* `CoreMarkProofs`, the blocks: `StateBlockRestored`, `MatrixBlockRestored`, for every set of
  builds and number of iterations. The argument goes along a call: two exclusive ors with
  the same byte cancel (`FlipBack`), adding and subtracting cancels modulo 2^16
  (`ShortBack`), so each kernel leaves its block (`StateKept`, `MatrixKept`), so does
  `calc_func` for whatever item and so does a comparison (`CompareKept`); the
  invariant says that the blocks equal those of the initialization, from the point at which
  `orig` records them on, and every other step leaves them alone (`Harmless`).
* `CoreMarkProofs`, the list: `NoCellsLost`, `ListComesBack`, for every list size, seed and
  number of iterations. The invariant `ListInv` (`ListIsWhole`) says, for each place in the code, that
  there is an order of the used cells which the pointers spell out: one chain
  between two operations, two during the reversal, a chain and a single cell between
  removal and undoing, and the merged cells, the rest of the two runs and the
  untouched rest within a merge. Each turn of a loop moves one cell from one piece to another
  (`Strung`, `Adjoin`, `Placed`), so that the order afterwards is a permutation of the one
  before (`Permuted`). In a sort by `idx` the invariant says in addition that
  runs of `insize` cells ascend, which gives an ascending list when one run is left. The head
  has the least `idx` and so comes first (`HeadFirst`), which is why `iterate` may go on
  with the head of the first call, and two ascending orders of the same different numbers are
  the same (`Recovered`), which puts every link back. The data needs an argument of its own
  (`DataInv`, `DataIsKept`): the high byte of an item keeps what the item was made with, `calc_func` writes
  the low byte only, and a comparison by `idx` copies the high byte back over it. The
  invariant says which items a sort by `idx` has already compared (`Tidy`): in a list cut into
  runs of more than one cell, all but the cell of a last run of a single one, since the first
  step of a merge compares the heads of its two runs and the others have been compared in the
  passes before (`MergePlain`). That cell stays uncompared until its run is merged, in
  the last pass at the latest, which is why the list needs its three cells here as well.

All four liveness properties have a measure that is proved to count down, for every
value of the constants, by the same invariants. What is left of the
liveness property is that steps are taken at all, which is its fairness:

* `MulDivProofs!StallCountsDown` and `StallIsBounded`, behind `UnitNeverWedges`. `StallLeft`
  counts the edges until the unit lets EX go on: what is left of the product or division
  itself, and in front of it what is left of a division that was flushed and is still being
  computed. Every period without a flush takes exactly one off, so the unit never idles
  while EX waits, and it is at most `2 * Latency + 4`. Beyond `IInv` this
  needs `Timing`: a product on its way is in a stage, and an answer to be dropped has been
  computed for at least one edge.
* `DeviceProofs!ByteCountsDown` and `ByteArrivesInTime`, behind `AcceptedArrives`. `PeriodsLeft`
  gives every byte taken by the UART the number of periods until its stop bit is over. Each
  period takes exactly one off, whatever the program stores meanwhile; when it is 0 the test
  bench has printed the byte; and it is never more than `Longest`, a full buffer
  behind a byte that has just been put on the line.
* `PipelineProofs!NothingStarves`, behind `KeepsExecuting`. `Distance` says how many edges
  the next unflushed instruction is from MEM, five when even its fetch has not
  begun. Every edge takes one off, except that an operation which waits in EX for the
  multiplier or divider stays where it is. In contrast to `KeepsExecuting` the
  theorem includes ecall and mret: the instruction that reaches MEM may itself trap.
* `CoreMarkProofs!EveryStepCounts` and `CountsAreNumbers`, behind `Terminates`. `CallsLeft`,
  `LoopsLeft`, `TurnsLeft` and `StepsLeft` are compared in this order, and every step lowers the
  first that it changes. What is not plain from the loops' counters are the sorts: a pass
  is followed by another, with twice the `insize`, only after two merges, and `Turns` says that
  the list is then longer than `insize`; within a pass the cells that are not yet merged are
  counted by the walks of `NoCellLost`, which `ListInv` ties to the place in the order
  (`CellsCounted`). A merge that took no cell would be a step back, and there is
  none, since `Split` finds at least one.

Assumptions are those of the modules: the classes are what they are called
(`ClassAssumption`), index and tag identify an address (`AddressAssumption`), a
program's targets are addresses (`ProgramAssumption`), exclusive or is its own
inverse on bytes (`XorAssumption`), the initialized blocks hold bytes and shorts and
the items are made of numbers (`DataAssumption`), a half word has an even number of values (`UnitAssumption`), the
test bench counts as many cycles per bit as the UART's divider has values and the
marker's first character occurs once (`ConsoleAssumption`, with the defaults 1520 and 1519
of `coremark_main.cpp` and `core_portme.c`), powers of two double
(`PowerAssumption`, since no prover used here computes with `^`), a list has a third cell
and no other `idx` than its head's is 0 (`ListAssumption`), seeds and sizes are
numbers, the seeds below 2^15 (`BuildsAssumption`), and the constants that stand for "nothing" are no values. TLC
evaluates them all, for the instances of the runs.

`ListComesBack` has the hypothesis that the items' `idx` values differ from each other and from
the tail's (`Distinguishable`); TLC evaluates it for the builds (`DistinctAssumption` in
`MCCoreMark`). `NoCellsLost` does without.

Model-checked only: `KnownResults`, whose CRCs are what recursive functions compute from the
data, and liveness itself, which is outside this prover's reach: the step from the measures
that count down, with fairness, to "eventually".

## 6. Not modelled

* Decoding, the ALU and the bit-manipulation operations: combinational, without
  state; the riscv-tests images cover them.
* The contents of mstatus, mepc and mcause, the counters, and CSR forwarding:
  `Pipeline` abstracts instructions to classes, and these need addresses, operands and the
  software's stack. The nesting of traps beyond `prev_exception`, and the memory
  effects of a store whose trap is found one stage later, stay open with them; they are listed as
  hazards without a property.
* `fpu.sv` is a stub that never stalls; the FPU's register file goes with it.
* `LW_LIVE_BYPASS_ENABLE` is off by default and left out.
* The timer, the receiver and the interrupt flags of the UART, the LEDs: no program of the
  repository receives, and the timer is a counter beside the rest.
* Time measurement, calibration, number formatting and the parsing of arguments in
  CoreMark's port; `execs` other than all algorithms, which no build selects.
* `benchmark.c`: straight-line load over arrays, written for the addresses of another
  SoC.
* The stand-alone multiply/divide IP, a copy of the unit in `MulDiv` that nothing
  instantiates; the board wrapper; the SystemVerilog test benches; loading of memory images.
* Reset during operation: the models start from reset.

## 7. What could follow

Control and data path of the pipeline are modelled apart, each with the other's events as
inputs. The next steps would be trap CSRs beside `Operands`, `Operands` composed with
`StackBuffer`, and the receiving half of the UART as a source of `Bridge`'s lines.
