# A TLA+ development for the ECE 411 pipelined processor

The repository is a five-stage RV32I processor in SystemVerilog with a tournament
branch predictor and a memory hierarchy: two L1 caches, an arbiter, an L2 cache
and an adaptor to a burst memory.  These modules model the pipeline, the
predictors and the memory hierarchy, cycle by cycle, and the C programs the
processor is measured with, loop by loop.

## The system and its parts

| part | source | state | operations | model |
|---|---|---|---|---|
| L1 cache, 4 ways | `hdl/memory/4_way_cache` | control state, tag / valid / dirty / data / LRU arrays | idle, hit, miss, write-back, fill | `L1Cache`, `L1System` |
| replacement | `load_PLRU`, `which_replace` in both control units | 3 or 7 tree bits per set | touch a way, choose a victim | `PLRU`, `Replacement` |
| L2 cache, 8 ways | `hdl/memory/eight_way_sa_cache` | as L1, with registered array outputs | stall (lookup), hit, miss, write-back, fill | `L2Cache`, `L2System` |
| arbiter | `hdl/memory/arbiter.sv` | grant | grant, route, release | `Arbiter`, `ArbiterSystem` |
| cacheline adaptor | `hdl/memory/cacheline_adaptor.sv` | state machine, address register, read latch | start, four bursts, finish | `CachelineAdaptor`, `AdaptorSystem` |
| burst memory | `hvl/param_memory.sv` | lines, access in progress | sample, delay, burst | `BurstMemory` |
| shadow memory | `hvl/shadow_memory.sv` | lines | read, write, compare | `SerialMemory` (abstract) |
| hazard unit | `hdl/cpu_datapath/stall.sv` | none | stall on a miss, bubble behind a load | `Pipeline` |
| pipeline, register file | `hdl/cpu_datapath` | program counter, four pipeline registers, registers | advance, stall, bubble, flush, redirect | `Pipeline`, `SequentialCpu` (abstract) |
| forwarding unit | `forwardingunit.sv` | none | select a source for each operand | `ForwardingUnit` |
| branch checker | `static_nt_predictor.sv` | a latch | flush, mispredicted | `Pipeline` |
| branch predictors | `hdl/cpu_datapath/branch_predictior` | histories, pattern tables, latched answers | lookup, update | `TournamentPredictor` |
| decoder, ALU, comparator | `hdl/cpu_datapath` | none | combinational tables | `Isa`, `Pipeline`: register fields and control bits; results are any value |
| benchmarks | `testcode/src/comp1.c`, `comp2.c`, `comp3.c` | their variables | loops, calls | `BranchProgram`, `SoftArithmetic`, `LcmProgram`, `FeedData`, `FeedProgram`, `Programs` |
| simulator stubs | `sim/csrc/_vcs_pli_stub_.c` (generated) | two static variables each | resolve, forward | `PliStub` |
| simulator tables | `sim/csrc/rmapats.*` and others (generated) | | | no: declarations and tables without logic |
| assembly tests | `testcode` | | | no: inputs of the simulation |
| cache generator | `python/n_way_cache.py` | none | prints the 4-way cache | no: the printed design is modelled |
| test bench, RVFI monitor | `hvl` | | | no (`rvfimon.v` is vendored) |

All parts share one clock.  The processor's fetch and memory stages put requests
on the ports of the two L1 caches and hold them while a cache misses.  The L1
caches put line requests on the arbiter, which shows one of them to the next
level: the L2 cache, or directly the adaptor.  The adaptor splits a line into four
bursts.  The file that wires these parts together (`mp4.sv`) is not in the
repository, so each model states what it needs from its neighbours, and the
neighbour's model is shown to provide it.

What is hard here is not any one state machine but their meeting: requests that
must not change while they wait although the arrays they are computed from do; a
dirty bit that is cleared before the line is safe; lookups that read registers a
cycle old; answers routed by a grant; priority; two counters of the same bursts; a
branch that redirects the fetch in the cycle of a miss, of a load's bubble or of
another branch's prediction; outputs that are latches where a case is not assigned.
The list, with lines, is `hazards` in `PROJECT.json`.

## How the models fit together

A step is one rising clock edge.  Combinational outputs are operators of the
registers and of the inputs of the cycle.  A component module has the component's
registers as variables and its edges as actions, parameterised by the inputs; a
`...System` module closes it with its neighbours and states the properties.

Two contracts connect the systems:

* `LinePort`: how the line port of a cache behaves.  A request stands until it is
  answered; a write-back is followed at once by the read of another line of the
  same set; a read is followed by a cycle without a request.  `HoldStep` is its
  weaker half, only the first clause.
* `LineService`: how a level below a cache behaves towards a client that keeps
  `HoldStep`: it takes a request, at once or later, works on it and answers it in one
  cycle, with the line stored last (`LineMemory` is its server side).

    L1System       shown to keep LinePort below, and to implement SerialMemory above
    ArbiterSystem  two LinePorts on a LineMemory; its lower port keeps HoldStep; shown to
                   implement LineService to the D-cache
    L2System       a HoldStep client above; shown to implement LineService, and to keep LinePort below
    AdaptorSystem  a HoldStep client above; shown to implement LineService

    Pipeline       a cache miss is any cycle, a prediction any answer for a branch;
                   shown to implement SequentialCpu as long as no redirection is lost
    TournamentPredictor   shown to answer for branches only, as the pipeline assumes
    Programs       the programs alone, on a processor that is correct

Every assumption of a system is thereby a checked property of its neighbour (that a
miss ends is `RequestIsServed` of the caches).  The composition of all of them in
one state space is not checked.

### Correspondence

`L1Cache`: `curr_state` is the enum of `cache_control.sv`; `tag`, `valid`, `dirty`,
`data`, `LRU` the arrays of `cache_datapath.sv`, by index and way.  `CacheIdle`,
`CacheHit` and `CacheMiss` are the three cases of state `hit`, `CacheWriteBack`
and `CacheFill` the two other states, each with its row of the next-state logic.
The arrays are read combinationally, through their own loads.  For the LRU array
this closes a combinational loop (`LRU_in = LRU_out` while `LRU_out` passes
`LRU_in`); the bits the loop does not assign are modelled as those of any set.
The data arrays have no reset: their contents are arbitrary at first.

`L2Cache`: the same control with a state `stall` in front; `ridx` is the index
whose set the output registers of the arrays hold.  Every output is computed at
`ridx`, every load goes to the index of the request.

`Arbiter`: `state` is the grant.  The I-cache's write side does not exist, so it
is a `LinePort` that never writes.

`CachelineAdaptor`: states `R1`..`R4`, `W1`..`W4` are pairs.  `value_read` is the
latch behind `line_o`; it holds the burst that was on `burst_i` in its state.
`BurstMemory` samples at the edge and answers four cycles in a row after a delay,
as `param_memory.sv` does; the delay (page hit or miss) is any number of cycles.

`Pipeline`: each pipeline register is a record, written by an operator named after
its `always_ff` block (`NextIfId`, `NextIdEx`, `NextExMem`, `NextMemWb`); the two
actions are an edge with and an edge without a cache miss.  What forwarding, stalls
and flushes cannot tell apart is left out: an instruction is its opcode and its
three register fields, its result any value, an immediate and a program counter
are tokens.  An address is what it is to the program: position n of the program's
execution, counted modulo `Window`, or the wrong path.  Whether a branch is taken
is decided when it is fetched, its prediction independently.  `committed`, `idle` and
`lost` are history.  `ArchRegs`, the refinement mapping, is the register file after the
write of the last stage.

The port names settle the wires of `mp4.sv` but two.  That `stall_pc` of the fetch is
`pc_stall` of the stall unit is shown by `hvl/top.sv` line 31, which looks into the design
(`assign stall_pc = dut.INSTR_DECODE.pc_stall`).  With it the program counter stands
still for a load's user also in a cycle in which the memory stage redirects the fetch:
the redirection is lost (see *Findings*) and `lost` records it.  The other wire,
`checker_taken`, is external: nothing in the repository shows where it comes from, and the
fetch multiplexer's select of the memory stage's target has to be raised exactly when the
checker flushes.  Wired to `update_br_pred_taken`, or to taken branches only,
`CommitsUntilLost` fails.

`forwardingunit.sv` also computes `cachemux_sel`; `mem_stage.sv` assigns `wdata_out`
from `rs2_data_in` for every store and the multiplexer is commented out, so the select
has no effect and is not modelled.

`TournamentPredictor`: a word is the set of its bits that are 1.  One step is the
combinational answer of the three predictors and the edge that trains them; an
output that a block leaves unassigned keeps its value.  `local_branch_predictor.sv`
declares 8 histories and indexes them with 8 bits (line 25 and 58): what a read beyond
them returns is any history, or unknown bits that select nothing, and a write there
is lost.  `streak` is history: how often in a row one branch was resolved one way.

`Programs`: one program per behaviour.  `BranchProgram` is `comp1.c`; of `fib` the calls
are modelled, its value is dropped by the code too.  `SoftArithmetic` is the multiplier
and divider of `comp2.c` as loops over words of `W` bits, negation of the least word
wrapping as the compiled code does; `LcmProgram` is the rest of `comp2.c`, with `/` and
`%` for calls of those functions and a `long long` as limbs in base 2^20.  `FeedData`
holds the fields of the 280 messages of `comp3_data.h` that `comp3.c` reads, as a
little-endian load gives them, and of `message_id` the first word, which decides every
comparison; `FeedProgram` swaps their bytes and accounts for them, first on this data,
then on any messages in any order (`Deliver`); a message with the identity 0 is never news,
since `old_message_id` starts at 0.  `PliStub` is the body that the simulator
generated once per routine; the stubs differ in the name they look up, and that of the misc
routine reports nothing, so the sets of names are all there is to translate of the others.
It takes part in the run of the programs, and no property is claimed of it.

Data of the memory hierarchy is abstract: tags, indices and byte values are members of small sets; a line
is a function from words to words of bytes.  Byte enables and the selection of a
word are modelled (`WriteLine`, `ReadWord`) because a lost byte would be a bug.
Operators marked "A slip" are variants of a definition with a plausible mistake.
No specification uses them; they show that the properties notice the mistake.

## Runs

| run | instance | states | shows |
|---|---|---|---|
| `replacement` | 8 ways, all bit patterns | 1,153 | both hand-written PLRU bodies are the tree policy; the way used last is kept; misses visit every way |
| `l1_data` | 2 ways, 1 set, 3 tags, 2 words, 2 values | 212,944 | no stale read, no lost write, no double line, line port discipline, refinement of `SerialMemory` |
| `l1_live` | 2 ways, 2 sets, 3 tags, 1 value | 65,065 | one fill per miss; every request is answered |
| `arbiter` | 2 sets, 2 tags, 2 values | 12,560 | routing, stable requests, overtaking bounded by two, refinement of `LineService` for the D-cache, both caches served |
| `adaptor` | 2 lines, 4 bursts, 2 values, the 8 contents of `EvenLines` | 126,848 | the memory's assertions, bursts in step, refinement of `LineService`, every line request is answered |
| `l2_data` | 2 ways, 1 set, 3 tags, 2 values | 6,948 | no lost line, line port discipline, refinement of `LineService` |
| `l2_live` | 2 ways, 2 sets, 3 tags, 1 value | 140,690 | the registered outputs are never those of another set; every request is answered |
| `pipeline` | 2 registers besides x0, 2 values, 8 instructions, `Window` = 6 | 678,336 | under every mix of misses, bubbles, flushes and predictions: a sequential processor's operands and registers for whatever is fetched, its order until a redirection is lost, at most three idle cycles between two instructions |
| `lost_redirect` | as `pipeline` | violation | a redirection is lost behind a load's bubble, so the order is not always that of the program (see *Findings*) |
| `predictor` | every width 1, one local history for two branches | 153,293 | no stale answer, both tables learn |
| `meta_predictor` | as `predictor` | violation | the meta table does not follow the outcomes (see *Findings*) |
| `programs` | 4-bit words, 4 deliveries | 9,304 | the benchmarks end, with the good status; arithmetic and accounting are right |

Why the bounds are enough to be interesting: three tags for two ways force
evictions, clean and dirty, and re-fetches of what was evicted; two words or two
values tell a merged line from a stale one; two sets let an index change between
requests and let the LRU loop mix sets.  Sets interact in no other way.  Two ways
stand for four and eight because the cache's properties use of the policy only
that it names a way and that the bits do not change during a miss; the tree
itself is checked at eight ways by `replacement`, and the proofs cover 2, 4 and 8 ways.  `l1_data` and `l2_data` use symmetry in the tags (but
`ZeroTag`) and values; the runs with a liveness property do not.  `OvertakingCap` cuts off a history
counter above the value the property forbids.  In `adaptor` the memory starts with, and the
cache writes, the contents in which an even number of bursts equals the first: two of them
differ in at least two bursts, so every burst that is lost, doubled or misplaced shows.

In `pipeline` five instructions are in flight (four registers and the fetch), so six
positions tell a skipped from a doubled one.  Two registers and x0 let each stage
write the first, the second or no source of the one in execute; the unused fields of
the instruction words name registers too.  `lui` and `auipc` are left out of the instance,
since they read no register and write one as `jal` does.  The state space is closed: no bound cuts it.
In `predictor` width 1 has two entries and two branches per table, so branches alias
and a lookup meets an update of the same and of another entry; larger widths are the
theorems' part.  In `programs` the benchmarks run as they are; four bits contain the
least word, the divisors 0 and with the top bit set, and 256 pairs per function; four
deliveries repeat and reorder the messages of `MCMessages`, of each kind the code
distinguishes.  `CHECK_DEADLOCK FALSE`: programs end.

Fairness.  `l1_live`, `l2_live`: weak fairness of each edge of a cache that has a
request, and of the next level's answers.  The clock justifies the first; the
second is what `RequestsAreAnswered`, the L2's `RequestIsServed` and
`LineIsAnswered` show of the levels below.  `arbiter`: the clock, and that the
next level takes a standing request and finishes it.  `adaptor`: the clock, and a finite memory delay
(`DELAY_MEM` and `DELAY_PAGE_HIT` are constants).  None is assumed of the
processor or of a client: they need not ask.  `programs`: weak fairness of the
benchmarks and the arithmetic, since a processor keeps executing (`AtMostThreeIdle`);
none of the feed, nor of the simulator.

`AtMostThreeIdle` replaces a liveness property of the pipeline: an instruction finishes
within four cycles in which the caches answer, and until a redirection is lost
(`CommitsUntilLost`) it is the next one of the program.

## Findings

`lost_redirect`.  `stall.sv` (lines 50 to 55) holds the program counter when a load is in the
execute stage and its user is being decoded.  It does so also in a cycle in which a jump or
a mispredicted branch in the memory stage redirects the fetch.  Then `pc.sv` does not load
the target, `stall_ex_mem` is low, the jump leaves the memory stage, and its request to
redirect leaves with it: the processor goes on behind the jump.  The load and its user are
on the wrong path, and the flush removes them, but they have held the program counter.  A
program that shows it is a `jal`, a load behind it and a user of the load behind that, with
the three in the first-level cache: if a cache misses in the first cycle of the redirection,
the jump stays while the flush clears the load, and nothing is lost.  `CommitsSequentially`
says that instructions finish in the order of the program, as the monitor of the test bench
asserts (`rvfimon.v` line 294, `mismatch with shadow pc`), and is violated.  The file that connects the
stages is not in the repository; a gate in it, of the program counter's stall with the
flush, would repair this, and `top.sv` line 31 shows none.  `CommitsUntilLost` and the theorems
say that this is the only way in which the order goes wrong, and `ComputesSequentially` that
operands and registers do not even then.

`meta_predictor`.  In `meta_predictor.sv` the branch `else if (load)` (line 55), which
computes the new state and the index of the branch resolved, follows `if (~read)` and
`else if (read)` and is never entered.  An update therefore writes the initial value of
`updated_pstate`, `STRONGLY_TAKEN` (which selects the local predictor), to the entry
looked up last.  The report says all three tables are two-bit predictors updated with
the outcome; `MetaFollowsOutcomes` says so for this table and is violated after two
outcomes.  Programs run correctly all the same, and `GlobalLearns` and `LocalLearns` show
that either choice is right for a branch that keeps going one way.

Observations that no run is about, because nothing wrong follows from them:

* From `STRONGLY_NOT_TAKEN` a taken branch goes to `WEAKLY_TAKEN`; the two-bit counter of
  the report would go to `WEAKLY_NOT_TAKEN`.
* The report says the local histories are indexed by 8 bits of the program counter;
  there are 8 of them, not 2^8, and the reset loop runs to 2^8.
* `forwardingunit_TB.sv` line 68 expects `cachemux_sel` to forward from an instruction
  that is no load; `forwardingunit.sv` line 59 requires `read_mem`.  The select is unused.
* `comp3.c` line 115 skips a message only if its type and its subtype both differ, so
  one with either is processed.  The data has no such message.
* `__udivmodsi4` gives 0 / 0 = 1 and, for other dividends, leaves its loops with what the
  shifts give; C leaves division by zero open.  `ArithmeticIsExact` asks for nothing there
  and `ProgramsEnd` that the call returns.

## Theorems

Proved with TLAPS, for every value of the constants: every set of indices, tags, words,
bytes and values, 2, 4 or 8 ways, every width of the predictor, every set of registers and
instructions, words of every width.  TLC evaluates the assumptions in the runs:

* `WaysAssumption`, `MemoryAssumption` (the sets are not empty), `L1Assumption` and
  `L2Assumption` (the tag after reset is a tag);
* `BurstAssumption` (a line is four bursts, as the states of the adaptor say);
* `RegAssumption`, `ValueAssumption`, `InstrAssumption` (x0 and the value 0 exist, and
  instructions are instruction words), `WindowAssumption` (positions are counted modulo more
  than the five instructions in flight);
* `WidthAssumption` (widths are numbers, and there are no more histories than indices);
* `WordAssumption` (the width of a word is positive; its last conjunct, 2^W = 2 * 2^(W-1),
  is true of every such W and is stated because the provers have no rule for powers) and,
  for the same reason, `PowersAssumption` (the powers of two below 2^W double);
* `MessagesAssumption` (the fields of a message have their widths, its side is one the
  program knows, and its price is so small that the risk is an `int`: a larger one overflows
  in lines 147 to 154 of `comp3.c`) and `FeedAssumption` (at most 2^15 deliveries, so that 16-bit
  counts fit the counters).

Each safety theorem has the same shape: `Inductive` proves `Spec => []IInv`, one lemma per
action, and the properties follow from `IInv`.  What follows says why `IInv` is what it is.
TLC checked each `IInv` on the instance of the component's run before it was proved.

* `ReplacementProofs`.  Of the operators: `which_replace` names a way for every bit
  pattern and never the one just touched (the witness is the code's own case split).  Of a
  set over time: that misses visit every way says nothing of the bits, so `IInv` adds that
  a bit points at the half its last victim is in (`PointsAtLast`) and that victims one, two
  and four misses apart lie in the same whole, half and quarter of the set but in
  different halves of it (`VictimsAlternate`): the root turns with every miss, a node below
  it with every second one.  Two victims fewer than `Ways` misses apart then differ at the
  level of the largest power of two that divides their distance (`AlternatingDiffer`), which
  gives `EveryWayOnce`; `LastUsedSurvives` is part of `IInv`.  `BodiesAreTheTree`: the case
  splits of both control units compute the tree's bits and victim, for any bits.
* `L1SystemProofs`.  The safety properties are not inductive alone: that a read is right
  needs that all held lines are right (`HeldLinesMatch`); that a fill brings the right line
  needs that the next level is current for lines not held dirty (`StaleOnlyIfDirty`), which
  during a write-back rests on the victim being valid and marked as on its way out
  (`MissOpen`, `DirtyIsValid`) since its dirty bit is already clear; and that a fill makes
  no second copy needs that no other way matches the request for the whole miss
  (`MissOpen`).  From `IInv` follow `TypeCorrect`, `HitsAreExclusive`, `NoLostWrite`,
  `ReadsCorrect`, `OneFillPerMiss`, and the two refinements `CacheIsSerialMemory` (a step
  with an answer is `Submit`, the step that makes the answer appear `Serve`, all others
  stutter) and `CacheIsLinePort`.  The proof uses nothing of the LRU bits but their type
  (`PolicyTypes`, taken over from `ReplacementProofs`), so it covers the combinational loop.
* `L2SystemProofs`.  The same strengthening, and `OutputsAreCurrent` carries the proof: every
  decision is made on registered outputs, so each step first needs that they are those of
  the request's set (`NoStaleSet`).  Then `HitsAreExclusive`, `NoLostLine`, `CacheIsLinePort`
  for the port below and `CacheIsLineService` for the port above.
* `ArbiterProofs`.  The grant implies a request (`GrantHasRequest`), the next level works
  for the cache that is allowed (`AnswerIsForOwner`), what it stores is what was
  acknowledged or is in the making (`LinesKnown`), and a count of overtaking refined by the
  phase of the D-cache (`OvertakingSoFar`).  From it `RightOwner`, `RightLine`,
  `FairToFetches` and `LowerSteady`.  `ArbiterIsLineService` is a refinement: the D-cache's
  view of the next level is its job while the D-cache is allowed, and none otherwise
  (`dataJob`).  A fetch, from its grant to its answer, is a rest of that line memory, since
  fetches store nothing; that the view never shows a job of the I-cache is `AnswerIsForOwner`.
* `AdaptorProofs`.  Two state machines count the same bursts.  `BurstsInStep` relates the
  counters only while the memory answers; `InTransfer` adds the phases before and after, and
  that the address register, the request and the access agree; `TransferredIsThere` that
  the bursts counted so far are in the latch or in the memory.  From these
  `AssertionsHold`, `NeverOutOfStep` and `AdaptorIsLineService`: a line on its way counts as
  stored from the first burst on, so the four partial stores are stutters.
* `PipelineProofs`.  The properties speak of the instruction that finishes, so the
  invariant has to say of each instruction in flight what will be true when it finishes:
  the positions from the memory stage to the program counter follow each other and behind
  an instruction that will redirect everything is on the wrong path, as long as no
  redirection was lost (`InOrder`); the fields
  of a stage belong to one instruction (`OneInstruction`); a register read in decode is
  current unless the write-back stage has a newer value, which is exactly what forwarding
  covers (`ReadIsCurrent`); no instruction is directly behind a load it uses, which is what
  the bubble is for (`LoadIsNotForwarded`); the operands in the memory stage are the
  sequential ones (`ExecutedInOrder`); the checker's latch is clear when a jump opens it
  (`LatchIsClear`).  `BoundedBubbles` needs the idle cycles so far plus those until the next
  instruction (`Coming`) to be at most three.  All parts but `InOrder` hold with and without
  a lost redirection, so `PipelineComputes` has no hypothesis.  `PipelineIsSequential` is the
  step simulation up to the first lost redirection, and `PipelineImplementsCpu` is the
  refinement of `SequentialCpu`'s specification with the hypothesis `[]~lost`.
* `PredictorProofs`.  That a table learns says nothing of the states before, so it is
  not inductive.  `GInv` adds that the newest bits of the history agree with the run of
  equal outcomes so far (`Agrees`) and that the counter the branch now uses has had
  those of them that came after the history was full (`Settled`).  `ShiftAgrees` is the
  key lemma: once the history is nothing but the outcome, a shift does not change it,
  so every further outcome trains the same entry.  `LInv` is the same for the branch's
  own history register, where other branches may alias but end the run.  From these
  `GlobalLearning` and `LocalLearning`; `OnlyBranches` follows from both latches being
  fresh whenever nothing stalls, and `TypeCorrect` from all of them.
* `ProgramsProofs`.  `ArithIInv` holds the loop invariants of `comp2.c`.  Division: `den` is
  the divisor times `bit`, the dividend is `num` plus the divisor times `res`, and `num` is
  below twice `den` (`Dividing`).  On the way up no bit is lost because `bit` is at most `den`
  and the loop stops at the top bit; on the way down both shifts are exact because `bit`
  is a power of two, stated without powers as "every divisor but 1 is even", which doubling
  and halving keep (`Doubled`, `Halved`).  `SignedQuotient` and `SignedModulus` put the signs
  on, the least word included.  Multiplication: what is still to be added makes up the
  product modulo the words (`Multiplying`, `ShiftAndAdd`).  `ExactArithmetic` follows for
  every pair of words of every width.  `ArithmeticTerminates`: each step
  decreases `StepsLeft`.  It needs that on the way up `bit` is a power of two or 0
  (`LoopIInv`), since a divisor of 0 never stops the first loop and only the shift that drops
  the last bit ends it.  With weak fairness this is why a call returns, for every width.
  `FeedIsAccounted`, for messages with side B or S and a price below 2^28
  (`MessagesAssumption`): the program keeps sums and the identity counted last, the property
  speaks of the whole history.  `FeedIInv` relates the two: `old_message_id` is the largest
  identity of the notices so far or 0 (`Remembered`), so the program's comparison with it is
  the property's with all of them; the counters are the numbers of contracts of the news
  (`Counted`) and the bad status stands for a risky one (`Reported`).  `Contracts` counts a
  set of pairs, so that one message more is a disjoint union (`ContractsOfOneMore`) and no
  induction over a sum is needed; news stays news when the history grows (`NewsOfOneMore`).
  The counters are bounded by the deliveries so far, from which `FeedNeverOverflows`: the
  model's numbers without a width are those of the program.

Only model-checked:

* the liveness properties (`RequestIsServed`, `RequestsAreAnswered`, `LineIsAnswered`,
  `ProgramsEnd`): fairness is out of the prover's reach;
* `StatusIsGood`: the result of running three closed programs on their data.  They have no
  constants, so TLC's run is the complete check;
* `CommitsSequentially` and `MetaFollowsOutcomes` are violated (see *Findings*).

## What is not modelled

Reset during operation; `read` and `write` together on one port (no component
raises both); delays within a clock cycle, such as the adaptor's latch against a
changing burst; the reset task of the burst memory; the instruction image of the
shadow memory; coherence of the I-cache with stores (the hardware has none).  Of the
pipeline: the values the ALU and the comparator compute, the byte enables and the
alignment of loads and stores, the RVFI signals.  The wiring of `mp4.sv`, which is not
in the repository, except for the wires above.  The files the simulator generates,
other than its stubs: they hold declarations and tables of the compiled design and no
code.  The assembly tests, the test bench, the vendored monitor and the cache
generator.

## Plan

1. (done) Memory hierarchy: `PLRU`, `L1Cache`, `Arbiter`, `CachelineAdaptor`,
   `L2Cache` with their systems and contracts; proofs for L1 and the arbiter.
2. (done) Pipeline: `Isa`, `ForwardingUnit`, `Pipeline`, shown to implement
   `SequentialCpu` until a redirection is lost.
3. (done) Branch predictors: `TournamentPredictor` and its proofs.
4. (done) The C programs: `Programs` and its parts.
5. (done) Proofs for the replacement policy over time, the L2 cache, the adaptor, the
   pipeline and the arithmetic.
6. (done) Proofs for the feed of `comp3.c`, for the termination of the arithmetic and for
   the arbiter as a line memory of the D-cache.
7. Left: the composition of the contracts in one theorem (an L1 cache on the arbiter on
   the L2 cache on the adaptor is a serial memory).  `ArbiterIsLineService`,
   `CacheIsLineService` and `AdaptorIsLineService` are its links for the data port; the
   theorem needs a module with all the levels in one clock.  For the fetch port a contract
   that says which stores of the D-cache a fetch may see.
