# A TLA+ verification of FrailCPU

FrailCPU is a dual-issue, in-order MIPS32 processor in SystemVerilog
(`source/mycpu`, with shared blocks in `source/util`, `source/ram` and
`source/include`).  It fetches two instructions a cycle, queues them between
decode and issue, issues one or two of them, and reaches memory through a
two-port write-back data cache and an instruction cache that share one AXI port.
It is developed against a Verilator test bench in C++ (`verilate`), which
simulates memory and devices, compares the retired instructions with a reference
trace and runs tests in parallel processes.  This directory models the control logic
of both, checks it with TLC and proves the central facts with TLAPS.

Everything in the design is synchronous to one clock, so *a step of a module is
one rising clock edge*, and the primed values are the next values of the
registers.  Wires (`always_comb`, `assign`) are operators.  What comes from
outside the modelled block in a cycle (requests, readiness, the answers of a
slave) is quantified in `Next`.  The test bench is modelled by its calls: a step is a
system call of one process, or the part of a simulated cycle that no other thread can
interrupt.

## Inventory

| Part | Source (`source/…`) | State | Operations and interactions |
|---|---|---|---|
| Data cache | `mycpu/cache/DCache.sv`, `ram/RAM_TrueDualPort.sv` | metadata, dirty, PLRU and data RAMs; latched request (`cache_handle`); FSM, miss address, write-back buffer; forwarding registers | two loads/stores a cycle, four cache instructions, uncached accesses; `addr_ok` stalls the core (`d_wait`); bursts on the cache bus |
| Instruction cache | `mycpu/cache/ICache.sv` | metadata and data RAMs, PLRU, FSM | two fetches a cycle, refill, invalidation; stalls fetch (`i_wait`) |
| Arbiter | `mycpu/MyArbiter.sv` | `state`, `index` | gives the cache bus to D or I for a whole burst |
| AXI bridge | `util/CBusToAXI.sv` | `in_issue`, `saved_req`, `count` | one burst at a time on the five AXI channels |
| Issue queue | `mycpu/issue/issue.sv` | two banks, four pointers | takes two decoded instructions, offers two candidates, pairs them |
| Hazard unit | `mycpu/hazard.sv` | `fihazrd` | turns waits, redirects and overflow into stalls and flushes of every pipeline register |
| Pipeline registers | `mycpu/MyCore.sv`, `mycpu/regs/pipereg*.sv` | `dataF1 … dataW` | loaded, held or cleared by the hazard unit |
| Fetch | `mycpu/MyCore.sv`, `mycpu/fetch/pcselect.sv`, `mycpu/bp/*` | pc, predictor tables | next pc from exception, branch or prediction |
| CP0, exceptions | `mycpu/cp0.sv`, `mycpu/memory/memory.sv`, `MyCore.sv` | CP0 registers, the latched interrupt and its pc | exception entry, `eret`, interrupts; redirects fetch and flushes every stage |
| MMU and TLB | `mycpu/mmu/*` | TLB entries | translation, cacheability, TLB exceptions |
| Operands | `mycpu/bypass*.sv`, `mycpu/regs/regfile.sv`, `hilo.sv` | register file, HI/LO | operand selection and readiness |
| Execute | `mycpu/execute/*` | multiplier and divider FSMs, saved operands | results, `e_wait`, branch resolution |
| Memory data | `mycpu/memory/*data.sv` | none | alignment of loads and stores |
| Branch prediction | `mycpu/bp/*` | history and target tables | proposes the next pc |
| Others | `util/*Bus*`, `refcpu`, `ooo` | | not in the dual-issue top |

| Part of the test bench | Source (`verilate/…`) | State | Operations and interactions |
|---|---|---|---|
| Test runner | `source/testbench.cpp` | test list, pipes, worker processes | forks workers, hands out tests over pipes, counts, reaps |
| Bus device | `source/cbus_device.cpp`, `include/axi.h` | transaction `tx` and its next value | answers the cache bus, pauses at random, asserts the protocol |
| Registers and UART | `source/confreg.cpp` | `ctx`, `ctx0`, input queue, register file | loads and stores with side effects; a thread reads the terminal |
| Simulation loop | `source/mycpu/VTop/mycpu.cpp`, `source/model.cpp`, `source/diff.cpp` | cycle, trace position, error count | ticks the design, compares, decides when and how a run ends |

What makes the design hard to get right is what happens in *one* cycle in several places
at once: two accesses that want the same RAM, set or dirty vector; a refill that runs
while the buffer it follows is still being emptied; a queue that fills while its input
register and its output register are held by different stalls; a redirect that meets a
fetch in progress; an interrupt that is noticed while the bundle it must interrupt is
leaving the pipeline; an operand whose producer moves on while its consumer waits. In
the test bench it is processes and threads: a worker that dies in the middle of a test,
a character typed between two looks at a queue. A simulation of programs reaches a few
of these; `PROJECT.json` lists the main ones, each at its line under `hazards`.

The properties that make the parts correct:

* data cache – it is transparent (every load gets the last store), a clean line
  equals memory, nothing is lost by replacement, a line has one copy, every
  access ends;
* bus path – a burst's beats reach the cache that asked, word by word; reads do
  not overtake writes; nobody starves;
* issue – program order, each instruction exactly once, a branch with its delay
  slot, no overflow and no lock-up;
* fetch and hazard – after a redirect only instructions of the new path go on;
* instruction cache – the words of the address asked for, no old code after an
  invalidation, one copy of a line, every access ends;
* exceptions – precise state; a latched interrupt is entered and skips nothing;
* operands – the youngest older value, in every cycle an instruction waits; units
  report the result of the right operands; nobody waits for itself;
* test runner – each test once, an honest count, every failure reported, an end;
* simulation – input and output once and in order, the verdict is the program's;
* TLB – at most one translation.

## Modules

| Module | What it is |
|---|---|
| `MyArbiter`, `CBusToAXI` | the two bus components, with their registers as variables and one `…Clock` operator each |
| `BusPath` | composes them with the bus side of both caches and an AXI slave (external) |
| `Hazard` | the stall and flush logic, as operators on the set of raised conditions |
| `IssueQueue` | the queue, its pairing rules and the registers `DIreg`, `IXreg`, `XM1reg` around it |
| `InOrderIssue` | the abstract specification: issue in order, each instruction once |
| `DCache` | the data cache, cycle by cycle, with the memory behind it |
| `Fetch` | the fetch stage under the hazard unit, with the instruction cache and the back end external |
| `ICache` | the instruction cache, cycle by cycle, between fetch and the bus |
| `Operands` | register file, bypass networks, saved operands, multiplier and divider under the hazard unit |
| `BackEnd` | execute, memory and writeback stages with exceptions, interrupts and CP0's entry logic under the hazard unit |
| `CBusDevice` | the simulated end of the cache bus, composed in `BusPath` and in `Simulation` |
| `Confreg`, `TextDiff` | the simulated registers with the UART; the trace comparison |
| `Simulation` | composes `CBusDevice`, `Confreg` and `TextDiff` with the simulation loop and the terminal's thread |
| `ParallelTests` | the test runner: master, workers and their pipes |
| `IssueQueue_proofs`, `Fetch_proofs`, `BusPath_proofs`, `DCache_proofs`, `ICache_proofs`, `Operands_proofs`, `BackEnd_proofs` | the theorems about each of these modules, with their inductive invariants |
| `TestBench_proofs` | the same for `ParallelTests` and for `Simulation` with its parts |
| `MCBusPath`, `MCIssueQueue`, `MCDCache`, `MCICache`, `MCFetch`, `MCOperands`, `MCBackEnd`, `MCParallelTests`, `MCSimulation` | instances for TLC |

How they meet: `Hazard` is used by `Fetch`, `IssueQueue`, `Operands` and `BackEnd`,
each of which takes as inputs the conditions the others raise.  What one model assumes
of its neighbour, the neighbour's run checks: that cache accesses end (`ICache`,
`DCache`, and the bus under them in `BusPath`), that a candidate's operands come
(`Operands` for `IssueQueue`), that a branch comes with its delay slot (`IssueQueue`
for `BackEnd`), that fetch goes on (`Fetch` for `BackEnd`).

The definitions marked `Fault:` are changed forms of the definition below them, as a
plausible mistake in the code would make them; nothing uses them.  For each property
`PROJECT.json` names one with which TLC finds the property violated.

### Bus path

`BusPath` has the FSM state of each cache, the word counters, and, of the data
cache, the write-back buffer with its three-stage fill (`miss_addr.offset` →
RAM read register → buffer).  Port 1 and port 2 of the data cache use the same bus
states, so one copy of each is kept.  Data words are named by their position in
the line.  `axi`, the set of channels on which the slave is ready or valid in the
cycle, is chosen freely, subject to the protocol (`SlaveMay`): the slave may take
data before the address, and answers a write only when it has both.

`target` says what is at the end of the cache bus: the bridge and the slave, or, as
under Verilator, `CBusDevice`, whose source says that it "should match the behavior of
module CBusToAXI".  Its assertions on the request are `SanityChecks`, a part
of `RequestStays`.

`Tick` is one cycle: the request wires go through the arbiter to the bridge, the
answer goes back in the same cycle, and all FSMs move together.

### Issue

A decoded instruction is the set of its control bits the pairing rules read, its
destination and its sources.  Readiness of operands (`bypassI.sv`) is free in each
cycle.  `Tick(hz, r1, r2, ds)` is one cycle in which the conditions `hz` are raised
by the rest of the pipeline; `overflowI` is computed by the queue.  `serial`
numbers the instructions of a stream (from one flush to the next); it is a history
component and is not read by any rule.  `Legal` limits fetch to programs without a
branch in a delay slot, which MIPS leaves unpredictable.

`InOrderIssue` keeps three things: how many instructions entered the queue, how
many left it, and which serials the execute register holds.  A step enters
instructions, and may issue at most two more, the next ones in order; or it drops the
stream.  The refinement mapping is `fetched <- Pushed`, `issued <- popped`, `ex <-`
the serials in `dataI`.

### Fetch

A pc counts words modulo `NumPC`; fetched words are named by the pc they were read
with.  `Clock(ext, ok, entrance, pre, e)` is one cycle: the back end raises `ext`, the
instruction cache accepts the address or not (`ok`), the predictor says `pre`, and
`e` moves into `XM1reg`.  `save` stands for `pc_save`, `pc_saved` and
`forward_pctype_save`; `icache_pcnxt` is where fetch returns after an I-cache
instruction, for which it borrows the pc for one access.  The words are on the
cache's output for one cycle and garbage afterwards.  `path` is a history variable: the
pc at which the instruction stream goes on, advanced by each valid bundle and set by
each redirect; it is undefined (`None`) between an exception seen in the memory stage
(`excpM`) and its redirect from writeback (`excpW`).  How many cycles instructions
take through the back end is left open, except that a redirect or an exception needs
an instruction delivered since the last flush.

### Data cache

`DCache` is cycle-accurate in control: look-up (`HitWays`, `CacheOper`, `DreqEn`),
the latched request (`h`), metadata, dirty and PLRU updates with the source's
"last assignment wins" order of the two ports, the FSM with its `*_end` flags,
both RAM ports, the write-back buffer, store-to-store merging, store-to-load
forwarding and the answer.

Data values are replaced by *labels*: a byte is the address whose latest stored
byte it is, or `Old`.  A store relabels every other copy of that byte as `Old`;
`mem_current` tells for which bytes memory is up to date.  "The load returns the
last store" is then "the answer is labelled with the load's address", for
every program and all data.  `Old` is always the safe label: an error can only
be over-reported.

`Presents` states what the core may ask: nothing while the cache is stalled;
nothing right behind a cache instruction, which refetches what follows
(`execute.sv:211`); and `INDEX_STORE_TAG` only for lines that hold nothing (start-up
code), since on a valid line the source zeroes data and keeps the tag.

### Instruction cache

`ICache` answers two consecutive words, which may lie in two lines, so an access needs
up to two refills.  Words are named by address, and a copy is up to date or not: the
environment may change a word of `Writable` in memory, and `written` remembers which
changed since the cache was last emptied.  The kind of a cache instruction is seen by
the cache from two places, the pc (`req.inst`) and the memory stage (`noise`), as
`MyCore.sv:116` wires it.  The bus takes and returns beats when it likes.

### Operands

One register is followed.  A value is named by its *age*, the number of writers of the
register issued after the one that produced it, not flushed, and not a conditional move
that failed; an operand is right if
its age is that of the youngest older writer.  `need` is the age an instruction's
operand must have and `rd` the one it read at issue; ages grow as writers are issued and
shrink when they are flushed.  Writers are early (`alu`), late (`delay`: loads,
multiplications) or conditional (`cond`: `MOVZ` and `MOVN`, which are decoded as writers
and may leave execute as none, `execute.sv:366-377`; `failed` is the set of those that
do, free in each cycle, and `missed` records that an instruction was issued behind one,
whose result it was to get, while an older writer was under way).  That a misaligned
address clears `memtoreg` (`execute.sv:345-357`) is left out: the instruction
raises an exception, and all that may read its result is flushed.  `saved` is `bypass_save_rd`, which keeps a value that passes by while
execute waits.  `mult_of` and `div_of` say whether what the unit holds is the
result for the instruction in execute.  The candidate and its partner are chosen freely;
the pairing rules and `bypassI` decide what issues.

### Back end

The program is a loop of seven instructions and a handler of one instruction and `ERET`;
every execution chooses whether it raises an exception its kind can raise.  `arch`, a
history variable, is the pc that must complete next; an instruction completes in the
last stage.  `resume` is `arch` at the last entry and `sent` the stores that went to
the data cache and are not complete.  The interrupt line is free in every cycle.
Since the program is a loop, the distance between two pcs is taken modulo its length.

### Test bench

`ParallelTests` models pipes by file descriptor: an end of file needs every copy of the
write end closed, and a worker holds those of the workers forked before it.  The set
`bad` of tests that abort is chosen at the start.  `CBusDevice` is one step per
simulated cycle (`eval_resp`, settle, `eval_req`, `sync`).  `Simulation` splits a tick at
the only point where the terminal's thread does not commute with it.  The design under
test is external there: it makes accesses and retires bundles as it likes.  In
particular the bundle with `TEST_END_PC + 4` may hold any other instruction on either side,
as in the programs of the repository, whose instruction at `TEST_END_PC` writes a
register (`start.S:41-42`).  `retired` counts what the program writes up to there, which is what
the reference trace lists.

## Runs

| Run | Question | Bounds |
|---|---|---|
| `bus` | do bursts go to the right cache, word by word, in memory order, without starvation, does each end, and do the simulated device's assertions hold? | 4-beat bursts |
| `issue` | does the queue implement `InOrderIssue`, keep branch and slot together, and drain? | banks of 3, 6 instructions a stream |
| `fetch` | is only the instruction stream fetched, each pc with its own words, and does fetch never lock up? | 4 word addresses, one of them faulting |
| `dcache_mixed` | is the data cache transparent with cache instructions and uncached accesses on either port, and does every access end? | 3 tags on 2 ways, 1 set, 2-word lines, the first word of each used |
| `dcache_pairs` | the same with two accesses a cycle, to one line or to two sets | 3 tags, 2 sets, 1-word lines, 2 byte lanes |
| `icache` | are the right, current words answered, and does every access end? | 3 tags, 2 sets, 2-word lines, one word that changes |
| `operands` | is every operand current (but for one case, stated exactly), every result of the right operands, and does every candidate issue? | 3 writers in the pipeline, the divider counts 2 |
| `divide_flushed` | *violation*: the results of divides, with redirects that flush one | the divider counts 4 |
| `exceptions` | are exceptions precise, and is every interrupt entered without skipping anything? | a 7-instruction loop |
| `interrupt_epc` | *violation*: does an interrupt return to the first instruction not executed? | the same |
| `tests` | does the runner run each test once, count honestly, report every failure and end? | 3 workers, 4 tests |
| `simulation` | are UART and registers in order, and is the verdict that of what the program wrote before its last bundle? | 3 accesses, 2 characters, 2 lines of reference, 2 register writes before the last bundle, 9 cycles |

Properties of the passing runs: `RequestStays`, `WordByWord`, `NoReadOverWrite`,
`BoundedBypass`, `BurstsEnd` (bus); `CountsAgree`, `CandidatesInOrder`,
`BranchWithSlot`, `IssuesInOrder`, `OverflowDrains` (issue); `OnPath`, `InstrOfPc`,
`FetchGoesOn` (fetch); `LinesConsistent`, `NothingLost`, `LoadsSeeStores`, `AccessEnds`
(data cache); `AnswersAsked`, `NewCodeAfterInvalidate`, `OneCopy`, `AccessEnds`
(instruction cache); `OperandsCurrent`, `RegfileInOrder`, `ResultOfOperands`,
`HeadIssues` (operands); `WritesInOrder`, `ReturnsToFault`, `InterruptSkipsNothing`,
`ResumesAtBranch`, `StoresPrecise`, `LatchedIsEntered` (back end); `HonestCount`,
`FailureReported`, `Terminates` (tests); `UartInOrder`, `OutputOnce`, `ReadsSeeWrites`,
`Verdict` (simulation).  Each is stated in words above its definition; in every module
one of them has the type invariant `TypeOK` as its first part, except in `IssueQueue`,
where it is proved.

*Why the bounds are enough.* Three tags on two ways is the least that makes replacement
happen; two words make refill, write-back and offset wrap-around visible, four beats let
the buffer's fill and drain overlap with the slave stalling anywhere; two lanes
distinguish equal, disjoint and contained strobes; set 1 of the data cache needs one
line, since sets share only the FSM, while the instruction cache needs two sets for an
access that spans two lines. A bank of three is the least with an entry, a full and an
almost full state; six instructions fill both banks and the input register and make both
pointers wrap. Four pcs tell the bundle, its two successors and a target apart. Three
writers reach from issue to the last stage in every distance a bypass tells apart; a
divider that counts four can still run when a redirected divide arrives, as the real one
with 33 can, and in the passing run, where no redirect meets a divide, its length does
not matter. The back end's loop has every kind of instruction, each exception in front
of a store, and a branch with a store in its slot; branch, slot and target differ, and
both parities of alignment to bundles occur. Three workers are the least in which one
inherits two others' pipe ends; four tests leave one for a worker that has done one.
Nine cycles hold three accesses with a pause each. Of an invalid port only address 0 is
presented.

*Fairness.*  `BusPath`: the clock runs, and the slave does not ignore for ever a
channel the bridge is waiting on (an AXI slave must answer); the simulated device does
not pause for ever.  `IssueQueue`: again and again there is a cycle without a stall in
which both candidates have their operands; stalls are finite memory or divider waits,
and that operands come is `HeadIssues` of `operands`.  `Fetch`: again and again there is
a cycle without a stall in which the cache accepts the address (`AccessEnds` of
`icache`).  `DCache`, `ICache`: while an access is in progress the clock runs and again
and again the bus takes or has the beat it is asked for, which `BurstsEnd` of `bus`
shows.  `Operands`: again and again there is a cycle without a data-cache wait in
which a delay slot finds its operands.  `BackEnd`: again and again, while an interrupt is
latched, there is a cycle without waits in which the front end delivers what it can.
`ParallelTests`: every process that can go on does, and every test ends or aborts.
`Simulation` has safety properties only; it and `tests` stop at the end of the run, so
deadlock is not checked there.

## Findings

Two runs show a disagreement between the code and what the repository says of it:

* `divide_flushed`: the divider looks at `valid` only when it starts (`div.sv:29`).  A
  divide that is flushed by a redirect leaves it running, and a divide that follows within
  its 33 cycles gets the old one's result, where `div.sv:12` promises that of the inputs.
* `interrupt_epc`: the pc saved for an interrupt is that of an instruction that has
  already passed the last stage (`MyCore.sv:719`), so it is executed again after `ERET`;
  `例外处理(基础版).md:69` has the pc of the next instruction.  `InterruptSkipsNothing`
  bounds the repetition: at most two bundles, and nothing is skipped.

Two properties of passing runs say where the code fails, and that it fails nowhere else:

* `OperandsCurrent`: a candidate that reads a register for which a `MOVZ` or `MOVN` is in
  execute is issued to get its result by forwarding (`bypassI.sv:36-39`).  If the move
  fails, it leaves execute without `regwrite` (`execute.sv:366-377`), and of an older
  writer the next cycle finds only an early result not yet in the last stage or a late one that is
  there (`bypassE.sv:34-63`): from an early writer that was in `dataM2` or `dataM3`, for
  one, nothing comes, and the register file was read before it was written.  The
  instruction computes with a value too old (`lab1.md:394` has
  results that exist in another stage forwarded).  `INVARIANT OperandsForwarded` in
  `MCOperands.cfg` shows it in seven states; `ReadBehindFailed` is exactly
  this case.
* `Verdict`: the bundle in which `TEST_END_PC + 4` is found ends the run before
  `print_writeback` sees it (`mycpu.cpp:102,111,127`).  If the instruction at
  `TEST_END_PC` is in it, its write is not compared, and a right run lacks the last line of
  its reference (`func_test.txt:93785` has one for `bfc00100`) and is aborted by
  `diff_eof`.  `INVARIANT RightRunPasses` in `MCSimulation.cfg` shows it.

The passing runs keep away from what follows.  Where an instance of a model shows it, the
setting is given.

* Data cache: two store hits to different lines in one cycle leave the older one's line
  clean (`DCache.sv:491-501`: the assignment for port 2 rebuilds the dirty vector from
  the register), and the line is later dropped without a write-back
  (`Accesses <- MCTwoStores`).  Two misses of a cycle in one set: the second refill writes
  metadata read before the first (`DCache.sv:326`; `MCSameSet`).  A store with a TLB
  exception has `valid` low and its strobe set, and writes the RAM (`DCache.sv:583-585`;
  `MCFaulting`).  A load that misses, paired with a store to the same line: the refill
  sets the dirty bit from the load's strobe (`DCache.sv:505`).
* Issue: a delay slot the pairing rules refuse (`single_issue`, `cp0write`) is flushed
  with everything else behind its branch (`hazard.sv:74-81`, `issue.sv:115`).  A delay
  slot that reads its own jump's link register gets the old value (`issue.sv:109`).
* Fetch: an interrupt in the cycle in which fetch returns from an I-cache instruction is
  lost (`MyCore.sv:165`: the saved return pc is taken without looking at the redirect;
  `Interrupted = TRUE` in `MCFetch.cfg`).  An I-cache instruction that redirects while
  fetch does not wait loses its kind (`MyCore.sv:160`).
* Instruction cache: if the second word's page has no translation its request is not
  valid, and a miss of it is never fetched while the first word waits (`ICache.sv:201`).
* Exceptions: the two requests go to the MMU in swapped order (`MyCore.sv:819`, and
  `212` for the fetch), so a TLB exception is booked on the other instruction of the
  bundle.  A trap does not stop the younger instruction's store (`execute.sv:361`), and an
  exception beside `ERET` is swallowed.  An exception entered while an interrupt is
  pending gets the code of an interrupt (`cp0.sv:188`).  `TNE` traps on equality
  (`execute.sv:227`).
* Interrupts: through `int_saved` one may be entered with `EXL` set (`lab4.md:56`), and
  one may be entered during `d_wait` (`report.md:13` says not).  A store in `dataE` is
  sent although the interrupt flushes it.  `WAIT` drains the pipeline, and an interrupt
  that comes after that is never entered (`hazard.sv:62`, against `task3.md:31`).  The
  timer interrupt is never raised, since `regs_nxt.cause.ti` is overwritten in the next
  line (`cp0.sv:222-223`).

## Proofs

Eight modules hold theorems.  Each holds for every value of the constants that the
named assumptions of its module allow, where the runs above take one small instance.

| Theorem | Property | For every |
|---|---|---|
| `IssueQueue_proofs`: `TypeCorrect`, `NothingOverwritten`, `CandidatesOldest`, `BranchKeepsSlot` | `TypeOK`, `CountsAgree`, `CandidatesInOrder`, `BranchWithSlot` | bank size above two, set of decoded instructions, sequence of stalls, flushes and readiness |
| `IssueQueue_proofs`: `Refinement` | `IssuesInOrder`: `IssueQueue` implements `InOrderIssue` | the same |
| `Fetch_proofs`: `InstructionOfItsPc` | `InstrOfPc` | number of pcs and choice of the faulting ones |
| `Fetch_proofs`: `FetchOnPath` | `OnPath` | the same, without interrupts in cores that use I-cache instructions |
| `BusPath_proofs`: `RequestsStay`, `BurstsWordByWord`, `ReadsBehindWrites`, `BypassBounded` | `RequestStays`, `WordByWord`, `NoReadOverWrite`, `BoundedBypass` | burst length, with the bridge and with the simulated device |
| `DCache_proofs`: `LinesAreCopies`, `NoStoreIsLost`, `LoadsAreCurrent` | `LinesConsistent`, `NothingLost`, `LoadsSeeStores` | tags, sets, words of a line and lanes of a word (two ways), set of accesses of the kind `Supported` |
| `ICache_proofs`: `AnswersWhatIsAsked`, `NewCodeRuns`, `LineInOneWay` | `AnswersAsked`, `NewCodeAfterInvalidate`, `OneCopy` | geometry of at least two sets, set of words fetched and of words the program changes |
| `Operands_proofs`: `ExecuteReadsCurrent`, `RegfileFollows` | `OperandsCurrent`, `RegfileInOrder` | set of instructions, delay of the divider, number of writers, choice of the conditional moves that fail |
| `Operands_proofs`: `UnitsAnswerCurrent` | `ResultOfOperands` | the same, if no redirect flushes a divide |
| `BackEnd_proofs`: `RegistersInOrder`, `FaultReturns`, `InterruptsSkipNothing`, `BranchRepeated` | `WritesInOrder`, `ReturnsToFault`, `InterruptSkipsNothing`, `ResumesAtBranch` | program and choice of what its instructions may raise |
| `BackEnd_proofs`: `StoresAfterExceptions` | `StoresPrecise` | program of at least six instructions |
| `TestBench_proofs`: `CountHonest`, `FailuresReported` | `HonestCount`, `FailureReported` | number of workers and tests, set of failing tests, interleaving |
| `TestBench_proofs`: `UartKeepsOrder`, `OutputMadeOnce`, `RegistersInProgramOrder` | `UartInOrder`, `OutputOnce`, `ReadsSeeWrites` | set of accesses, text typed, interleaving with the terminal's thread, bound |
| `TestBench_proofs`: `VerdictRight` | `Verdict` | the same and any length of the reference trace, with `force_diff` and without |

*Assumptions.*  The sizes are positive (a bank has three entries at least, as its full
and almost-full tests need; the instruction cache has two sets at least), the sets of
inputs consist of values of their types, and the model values `None`, `Garbage`, `Junk`
are none of the values they stand beside (`NoneAssumption` of `Fetch`, `Operands` and
`BackEnd`, `ModelValuesAssumption` of `DCache` and `ICache`).  Tags of the data cache are
numbers, since an index operation takes the way from the lowest bit of the tag.  `ProgramAssumption` and
`FaultsAssumption` of `BackEnd` describe a MIPS program: no branch is in a delay slot, and
an instruction raises only what its kind can (a store only a misalignment, as the TLB
is not modelled).  `InputsAssumption` of
`Simulation` confines accesses to the offsets of the device's 64 KiB, excludes a store
to `UART_LSR`, at which the program panics (`confreg.cpp:62-64`), and makes typed characters
bytes.  TLC evaluates all of them.

*Hypotheses.*  Without the first three the property fails.  The theorems of the data cache
have `Supported`: no access has two stores to two lines, two lines of one set, a load on
port 1 beside a store to its line on port 2, or a store that is not valid, which are the
pairs under *Findings* (`MCTwoStores`, `MCSameSet` and `MCFaulting` of `MCDCache` refute
`NothingLost` or `LoadsSeeStores`).  `MCDCache` asserts of the accesses of its two runs
that they are of this kind.
`FetchOnPath` excludes `CacheOps /\ Interrupted`, the setting in which fetch loses an
interrupt (see *Findings*).  `UnitsAnswerCurrent` has `~FlushDividing`: with it the
property is what `divide_flushed` refutes.  `StoresAfterExceptions` has `Handler >= 6`
because `sent` names a store by its pc: the three last stages hold up to six
instructions, and in a shorter loop the history could not tell an old execution of a
store from a new one.

*The arguments.*  None of the properties is inductive alone.

* Issue: `IInv` adds to `TypeOK` and `CountsAgree` that the equality of the heads (and
  of the tails) of the two banks tells the parity of the number popped (pushed)
  (`TakeTurns`), that the entry `k` places behind a head holds the instruction of the
  bank's parity plus `2k` (`BanksHold`), and that the input register holds the next
  serials (`DataDNext`).  `BankPush`, `BankPop` and `BankEmpty` say what a bank does with a
  wrapped pointer, `ControlFacts` what the hazard unit guarantees.  For `BranchWithSlot`
  the candidate that was not issued is followed into the next cycle (`NextCandidate`).
* Fetch: `PathInv` says where fetch is heading (`Heading`: the saved pc of a cache
  instruction, else a saved redirect, else the pc), that this is the path the program
  takes as soon as no redirect is in the pipeline (`HeadsForPath`), and that while a
  redirect or cache instruction is saved, the front of the pipeline is empty.
* Bus path: `CacheInv` says that the word counters of the caches are the number of
  beats moved (`WordCounters`), that the write buffer is filled ahead of the bus
  (`AheadOfBus`) and that a grant belongs to a cache whose request is up.  The caches see only
  beats, so that the bridge with the AXI slave (`BridgeInv`) and the simulated device
  (`DeviceInv`) are each shown to deliver those (`BusDoes`).
* Data cache: `CacheInv` follows an access through the FSM.  `MetaHeld` says what the
  metadata latched at look-up still tell of the metadata now: the same for a port
  whose refill has not begun, the new line once it has.  `LinesHeld` says that every
  valid line but the one a refill is overwriting (`Victim`) holds the latest bytes of its
  tag, and `MemoryHeld` that what memory lacks is in a dirty line.  These two are lost if a
  refill may drop a line memory lacks; so `Refill` says that meanwhile memory has the line
  fetched and, until the metadata change, the line replaced, and `WriteBack` why:
  the words taken are in memory, and the buffer, filled from a RAM with one cycle of
  latency, is ahead of the bus or full.  `Working` ties the line and set in `miss_addr`
  to the port the phase works for, `AllDone` says that an access ends only when both
  ports are served.  There is a lemma for each register over each kind of cycle
  (look-up, beat of a refill, beat of a write-back, uncached beat, cache instruction), and
  one for both RAM ports in the same cycle.
* Instruction cache: every valid line but the one a refill is overwriting holds the
  words of its tag (`LinesHeld`), the line that is fetched is not in the cache and the
  saved place is the one `plru` still names (`Refill`), and while the cache is emptied
  the sets passed are empty (`Emptying`).
* Operands: `AgesExact` says that the age of every value is the number of younger writers in
  the pipeline, and that the register file lacks them all.  `Available` says that
  an operand can be bypassed from the youngest writer behind execute, or has been read or
  saved.  `NeedsOf` relates it to the pairing rules: no older instruction of a bundle writes what
  the younger one reads.  `TooOld` says that what was read behind a conditional move that failed is
  older than the youngest writer behind execute, so that it is wrong unless it is bypassed.
  `Units` says that a busy unit works for the instruction in execute.
* Back end: `Shapes` describes a bundle in each stage (what an exception of the older
  instruction has cleared in the younger one), `NothingBehind` that what stops the
  program has an empty pipeline behind it, `InProgram` that the stages hold consecutive
  parts of the program up to a mispredicted branch, and `IntInv` that the pc saved for an interrupt is
  that of the instruction before the next one, and that an interrupt latched before an
  exception is entered before the handler comes.  `SentInv` says that the stores sent and
  not completed are those of the three last stages.
* Test runner: `Conversation` says whose turn it is on each pair of pipes, `OnePlace`
  that a test is in one place (the list, a pipe, a worker, the finished ones), `Counted`
  that the passed tests and the workers whose last test is not counted yet add up to the finished
  tests.
* Simulated run: `BenchInv` says that the device works for the request that is held and
  that every transaction is one beat (`InProgress`), and that a store waits for its commit only in a
  cycle in which the device has nothing to do, so that no load can miss it
  (`Uncommitted`).  `Typing` relates the flags of the context to the UART's queue in both halves of
  a tick: `uart_avail` was true of it one `sync` ago and only `sync` takes from it.  `Output` does
  the same for the two output registers.  `Judged` says what the error count and the
  line number tell of the lines compared so far; `Compared` that these are
  all the program has written but for the writeback stage.  `Verdict` itself is a part of the
  invariant, preserved by the end of the run.

A step lemma says for each kind of cycle what it does to the invariant; what
the hazard unit raises in that kind of cycle is a lemma of its own (`SignalsOf…`,
`HazardSignals`).

*Only model-checked.*

* Liveness (`BurstsEnd`, `OverflowDrains`, `FetchGoesOn`, `AccessEnds`, `HeadIssues`,
  `LatchedIsEntered`, `Terminates`) is out of the prover's reach, and
  so is the fairness it rests on (`ENABLED`).
* The two runs that expect a violation state what the code does not do.

## Not modelled

* The decoder, the alignment of load and store data and the ALU: tables and arithmetic
  without state.  The cache takes every strobe, the issue and execute models take every
  combination of control bits their rules tell apart.
* The MMU and TLB: which entries exist, and whether two match one page, is up to the
  operating system's refill code, which is not in the repository; the properties would be
  about that code.  The caches take the translation's verdict as an input.
* Branch prediction: `Fetch` lets the predictor say anything in any cycle, which includes
  what the tables can say.  That only branches check a prediction (`execute.sv:211`),
  while the tables' tags are partial, is left open.
* CP0 registers without control (Count, Compare, Context…), `MTC0`, `WAIT`, HI and LO
  and `bypassM`.
* Reset in mid-operation; the blocks the dual-issue top does not instantiate; the
  single-issue reference core and the out-of-order experiments.
* Of the test bench, command line, logging, wire types, memory arrays and waveform
  files.  Most of the C and C++ in the repository is vendored headers
  (`verilate/include/thirdparty`) and benchmark programs the CPU runs
  (`vivado/test5/soft/perf_func`), which are not part of the system.

## Plan

The models are in place, and the safety invariants and action properties of every
module are proved.  What remains: the address of TLB exceptions, `MTC0` and
`WAIT` in `BackEnd`, and the branch predictor's tables behind `Fetch`, each of which
touches a line of *Not modelled*.
