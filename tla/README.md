# A specification of rv64-emu

rv64-emu (`src/src`) is an emulator of a RISC-V processor with the classic five
stages. It runs a program either one instruction at a time or, with `-p`,
with the stages overlapping. The TLA+ modules in this directory say what the
emulator does, handler by handler, and what it promises; TLC checks the
promises on small instances and TLAPS proves most of them for all instances.

The central question is the one the course material itself asks of the code
(`src/tests/lab2-test-programs/README.txt:25-26`): the registers at the end
should be the same with and without pipelining. For programs padded like the
test programs that is proved here, for every program, by proving of either mode
that its runs are runs of one abstract machine, the hart.

## The system

### Components

| Component | State | Operations | What makes it correct | Modules |
|---|---|---|---|---|
| Clock loop (`processor.cc`, `pipeline.cc`) | `PC`, cycle, instruction and stall counts, current stage | `run`, `propagate`, `clockPulse` | one stage per cycle without pipelining, all stages with it; it stops when and why it should | `Pipeline` |
| Stages (`stages.cc`) | four pipeline registers, the buffers of each stage, `PipelineControl` | `propagate` and `clockPulse` of IF, ID, EX, MEM, WB | current operands; no instruction lost or doubled; none from a path not taken has an effect | `Pipeline`, `PipelineHart` |
| Register file (`reg-file.h`) | 32 registers | read two, write one at the clock pulse | x0 is 0 | `RV64I` |
| Control unit (`ControlSignals`) | none | `setFromInstruction` | every instruction selects its own operation | `ControlUnit` |
| Decoder (`inst-decoder.cc`) | the instruction word | `setInstructionWord`, the getters | fields and immediates come out as an assembler put them in | `InstDecoder` |
| ALU (`alu.cc`) | A, B, op | set operands and operation, `getResult` | every bit of every result | `Alu`, `AluReference` |
| Bus, memories, devices (`memory-bus.cc`, `memory.cc`, `memory-control.cc`, `serial.cc`, `sys-status.cc`) | segments' bytes, traffic counts, the halt flag | read and write 1, 2, 4, 8 bytes | all bytes of an access or none, within one segment, with its permission | `MemoryBus`, `MemorySystem`, `FlatMemory` |
| ELF loader (`elf-file.cc`) | the mapped file, the memories made so far | check the file, one memory per allocated section, the text for `-X` | the program finds the image its file describes; what is disassembled is what is fetched | `ElfLoader`, with the bus `MemorySystem` |
| Launcher (`main.cc`), unit tests (`testing.cc`, `config-file.cc`) | options, initializers, expected registers | option parsing, `launcher`, comparison after the run | the run starts with the registers asked for, the verdict follows from the registers alone, every end has its exit code | `UnitTestFile`, `Launcher` |
| Framebuffer (`framebuffer.cc`, built only with `ENABLE_FRAMEBUFFER`) | control registers, palette, the window's memory, refresh counter and frequency | reads, writes, clock pulse, key events, destructor | window, context and registers agree; what changes is drawn; q closes the window | `Framebuffer` |
| Formatter (`inst-formatter.cc`) | none | print an instruction word, compressed ones included | the line names what the processor executes | `InstFormatter` |
| `mux.h`, the option parser of the Windows build, Python scripts, build files | none of the emulator's | | | not modelled |

### Interaction

Everything runs in one thread: `Processor::run` calls `Pipeline::propagate`,
which calls `propagate` of the stages in the order IF, ID, EX, MEM, WB, and then
`clockPulse` in the same order. A stage reads the pipeline register in front of
it in `propagate`, keeps what it needs in a buffer, and writes the register
behind it in `clockPulse`, by which time the register in front may already have
been overwritten. Beyond the registers the stages share `PC` (IF and EX write
it), the register file (ID reads, WB writes), the bus (IF fetches, MEM reads in
`propagate` and writes in `clockPulse`) and `PipelineControl`: ID asks for a
stall, EX and the end marker for a flush, and IF and ID obey at their clock
pulse. An exception leaves the cycle where it is raised, so what the stages
before it did in that cycle stays and the rest never happens.

Before the run the loader turns the sections of the file into memories and
hands them to the bus, where they come before the devices. In every fifth cycle
`run` pulses the bus, which only the framebuffer notices: there it takes the
user's keys from the queue SDL fills beside the emulator, and draws.

### What is hard

The emulator is one thread and keeps nothing. What is hard is that up to five
instructions are under way at once:

- an operand may be newer in EX/MEM or MEM/WB than in the register file, or not
  be there yet after a load;
- stalls, bubbles and flushes meet in one cycle, with each other and with the
  end marker of the test programs;
- the run ends by four exceptions and a flag that are raised in the middle of a
  cycle and have to leave neither too much nor too little done;
- without pipelining the same code must leave no trace of one instruction's
  control signals in the next;
- the framebuffer's window is opened and closed by the program, the user and the
  end of the run, and what it shows lags behind the memory;
- two pieces of code take the same thing apart on their own: control unit and
  formatter an instruction, loader and disassembler a file;
- immediates, shifts, sign extension and bounds have the usual boundaries.

`PROJECT.json` lists each hazard with its line and the properties that watch it.

## The modules

```
ControlUnit ── RV64I ─┬─ Hart ─────┐ (instances: what is promised)
                      └─ Pipeline ─┴─ PipelineHart ─┬─ MCPipeline
                                                    │      └─ MemoryBus, Alu (instances)
                                                    └─ PipelineProofs ── PipelinedProofs
MemoryBus ─┬─ FlatMemory ┐ (instance)
ElfLoader ─┴─ MemorySystem ─┬─ MCMemorySystem
                            └─ MemoryProofs
Binary ──── Alu ─┬─ AluReference ─┬─ MCAlu
ControlUnit ─────┘                └─ AluProofs
Binary ───────┬─ InstDecoder ── InstFormatter ─┬─ MCInstDecoder
ControlUnit ──┘   RV64I ────────────┘          └─ DecoderProofs
                  (instance: branch conditions)
UnitTestFile ── Launcher ─┬─ MCLauncher
                          └─ LauncherProofs
Framebuffer ─┬─ MCFramebuffer
             └─ FramebufferProofs
Binary ── NumberProofs, which all proof modules but those of the pipeline extend
```

- **ControlUnit**: opcodes and `ControlSignals::setFromInstruction`. The
  operation tables are sets of (funct3, funct7, operation); what they do not
  list keeps `ALUOp::NOP`, as in the code.
- **RV64I**: words modulo `Modulus`, instructions as records of their decoded
  fields, branch conditions, jump targets, the register file. The ALU and the
  bus are constant operators with named assumptions, so the pipeline is
  specified and proved for any of them.
- **Pipeline**: the processor. One action per handler, see below.
- **Hart**: the abstract specification, one instruction per step, with the
  meaning the code gives each instruction.
- **PipelineHart**: the refinement mappings from `Pipeline` to `Hart`, one for
  runs that do not fault and one for those that do.
- **PipelineProofs**: types, conservation of instructions and current operands,
  in both modes, and what an instruction computes and changes as functions, which
  EX and the hart are shown to agree on; then that without pipelining the hart is
  implemented. On it rests **PipelinedProofs**: what the five stages hold, cycle by
  cycle, and that with pipelining the hart is implemented.
- **MemoryProofs**, **LauncherProofs**, **FramebufferProofs**, **DecoderProofs**,
  **AluProofs**: the proofs about the module each extends. **NumberProofs** has
  what they share: induction, division, powers of two and bits.
- **Binary**: powers of two, the bits of a number, and the number that has given
  bits, which is what the shifts and masks of the code come to.
- **ElfLoader**: `ELFFile` from opening the file to the memories, one action per
  section header, and the text `-X` disassembles. A file is its headers and the
  contents of its sections.
- **MemoryBus**: which client takes an access, what it refuses, and how bytes
  make values, as operators. **MemorySystem** is the loader and the bus with its
  state, one array per segment and one action per outcome of an access;
  **FlatMemory** is what the stages rely on: the image of the file as one array
  of bytes.
- **Alu**: `ALU::getResult` with registers of `Width` bits, 64 in the code.
  **AluReference** is the ALU as a component with a bit-by-bit reference beside it.
- **InstDecoder**: the decoder on words of 32 bits, beside an assembler.
  **InstFormatter**: the line printed for the same words, compared with what the
  control unit and the stages make of them.
- **UnitTestFile**: `ConfigFile` and `TestFile` as folds over the lines of a
  file, each line taken as the kind of the regular expression it matches.
- **Launcher**: `main` and `launcher` as one action per option and per step
  from the options to the exit code. `Processor::run` is its outcome and any
  registers; `Pipeline` says which.
- **Framebuffer**: the device, one action per kind of access and per clock pulse,
  the loop of its destructor, and the user. What SDL keeps (the queue of keys,
  what an open window shows) is two variables. The window SDL has and the context
  the device has are apart: a constructor that throws half way leaves the one
  without the other (`WindowHalfOpen`) until `SDL_Quit` (`Destroy`).
- **MC...**: the instances for TLC.

### How Pipeline corresponds to the code

| In the code | In the model |
|---|---|
| body of the loop of `Processor::run` up to `control.reset()` | `BeginCycle`; the test of `shouldHalt` before it: `Halt` |
| IF: `propagate` / `clockPulse` | `FetchPropagate` (`FetchNothing`, `FetchFails`, `FetchEndMarker`, `FetchInstruction`) / `FetchClockPulse` |
| ID | `DecodePropagate` / `DecodeClockPulse` (`DecodeSquash`, `DecodeIssue`, `DecodeIllegal`) |
| EX | `ExecutePropagate` / `ExecuteClockPulse` |
| MEM | `MemoryPropagate` (`NoMemoryAccess`, `MemoryAccess`, `MemoryFault`) / `MemoryClockPulse` (`WriteNothing`, `WriteMemory`, `WriteSerial`, `WriteSysStatus`) |
| WB | `WriteBackPropagate` / `WriteBackClockPulse` |
| order of the stages, `currentStage` | `phase`, `stage`, `EndPropagate`, `EndClockPulse` |
| exceptions and what `run` makes of them | `Throw`, `reason`, `RunSucceeded` |
| `if_id`, `id_ex`, `ex_m`, `m_wb` | the same names, as records |
| member variables of the stages | `fetch`, `decode`, `execute`, `memoryStage`, `writeBack`, `dataMemory` |

Each pipeline register holds the decoded instruction as one record instead of
its fields one by one. Debug output is left out.

Operators whose comment begins with "Mutant:" are altered forms of the
definition that follows them. No specification uses them: put in the place
of that definition, they show that a property notices the mistake.

## What TLC checks

| Run | Question | Instance |
|---|---|---|
| `pipelined` | does the pipeline implement the hart (`ImplementsHart`), compute with current operands (`OperandsAreCurrent`), lose nothing (`InstructionsConserved`), end drained (`CleanStopDrained`)? | 7,238 programs: all triples of a menu of 19 instructions, and pairs at a distance, then three NOPs and the end marker |
| `sequential` | the same for one stage per cycle, with programs that fault | all pairs of a menu of 30, with and without the end marker |
| `termination` | does a program without backward jumps end, fault or not (`Terminates`)? Does a fault with pipelining stop it on its path (`FaultIsOnPath`), at a state of the hart (`FollowsHartToTheFault`)? | 4,694 programs: all pairs of the forward menu and of 11 instructions that fault in every way, a fault behind two instructions, and texts without an end marker |
| `memory_system` | does the program find the image of its file, as one array of bytes (`ImplementsFlatMemory`), is what is disassembled what is fetched (`DisassembledIsFetched`), and is nothing written outside a segment (`TypeOK`)? | files with adjacent segments, sections that hide a device, are cleared or not loaded, and files that are refused; accesses of every size in sequences of three |
| `alu` | is every result right bit by bit (`ComputesReference`)? | 8-bit registers, 4-bit words |
| `decoder` | does every format decode to what was encoded (`DecodesAsEncoded`), do immediate operations select what the register forms do (`ImmediateFormsAgree`), does the line printed name what is executed (`PrintsWhatRuns`), and give back a compressed instruction (`CompressedAsEncoded`)? | words of 32 bits of every format with every funct3; every single immediate bit, the ends of the ranges; compressed words and others |
| `launcher` | does a run start with the registers asked for (`RunStartsAsAsked`), is the verdict of a test that of its section `post` (`VerdictIsRight`)? | command lines of two options of every kind and three of `-r` and `-p`, 17 test files that are in order or fail in every way |
| `framebuffer` | do `active_window`, context and register agree, with each other and with what SDL has open (`WindowConsistent`), does the window show the memory (`ShownIsCurrent`), is every change drawn (`ChangesAreShown`), does q close the window (`QuitCloses`)? | two modes of one byte per pixel and one of two, a window of two pixels, frequencies 1 and 2, two keys in the queue |

`ImplementsHart` is the strongest of them: the visible state (`pc`, registers,
memory, serial output, and why the run stopped) changes exactly as if one
instruction after the other were executed. An instruction counts as executed
when MEM/WB takes it. `pc` is the address of the oldest instruction MEM/WB has
not taken; `SettledRegisters` adds the writes that WB has still to do.

With pipelining a run that ends on a fault is not such a run, since the
exception leaves the cycle before the older instructions are through.
`FollowsHartToTheFault` says how much is missing. After a refused access the
state is that of the hart stopped at the same instruction, except that the
register write of the one instruction in WB may be lost (`WrittenBack` has it).
After a failed fetch or an illegal instruction it is a state the hart goes
through before it gets there. `FaultIsOnPath` adds that an illegal instruction
ends the run only if the program comes to it, so what was fetched behind a taken
branch does not.

### Bounds, and why they are enough

- Registers have 8 bits and bytes one bit, so a double word still is eight
  bytes and every size, sign extension and wrap-around happens. Branch offsets
  and addresses fit. The pipeline moves values but never looks at them except
  in branches and addresses, and `PipelineProofs` does not fix the width.
- x0 to x3: forwarding compares register numbers for equality, and two
  sources, a destination and x0 are all a comparison can involve.
- Three consecutive instructions: forwarding and stalls reach from EX to
  MEM/WB, three instructions; the pairs at a distance of three make WB and ID
  meet. Every triple runs, so all combinations of hazards do.
- `MaxCycles` (18 with pipelining, 30 without) lets the straight programs end;
  a cycle that would begin at the bound does not. With the backward branch of
  the menu runs are cut off there. In `termination` the bound (24) is
  never what stops a run: `Terminates` asks for `phase = "stopped"`, which the
  bound does not give.
- The initial registers and memory are fixed (x1 = 1, x2 points into the RAM,
  x3 is negative): the menu makes others.
- `MaxAccesses` = 3: a write, a second one over part of it, and a read across
  both.
- The framebuffer's counters, sizes and palette are scaled. `MaxKeys` = 2 puts q
  in front of and behind another key; frequencies 1 and 2 let the user change
  the period while the counter runs and meet both ends of its range. Accesses
  cross the end of the smaller memory, and meet each register, the palette and
  every refusal.
- The words of `decoder` are whole 32-bit words. `PrintsWhatRuns` compares the
  branches on operands of four bits, which show every relation of two numbers
  with and without sign.
- Command lines of two options contain every pair of options in both orders,
  three `-r` every way in which they replace each other. `MaxRegs` is 8 and
  `NumRegs` 3, which leaves numbers that are registers, that are refused, and
  that are narrowed to a register (9 and -7). The model has the signed `char` of x86
  and a getopt that finds every option, as the one of glibc does.
- Runs with bounds may stop: their configurations switch the deadlock check
  off. `termination` and `framebuffer` need it off because a run that is over
  stays so.

### Fairness

`FairSpec` is weak fairness of `Next`: the loop of `run` is the only thing that
moves, and it goes on as long as the process runs. No choice inside a step is
assumed to be fair; apart from the initial state there is none.

`Framebuffer` has weak fairness of `ClockPulse` (the loop of `run` pulses the bus
in every fifth cycle, whatever the program does), and of `WaitForQuit` and
`Destroy` (the destructor loops). Nothing is assumed of the program's accesses,
of the end of the run or of the user: `ChangesAreShown` holds without any of
them, and `QuitCloses` starts with a key already pressed.

## Findings

Four runs show a statement of the repository that the code does not keep. Each was also seen on a build of the
emulator.

1. `load_use_before_marker` (`stages.cc:278`): an instruction right in front
   of the end marker that uses the result of a load right in front of it is
   dropped with `-p`, because the marker's flush wins over the stall.
2. `loop_before_marker` (`stages.cc:241`): with `-p` an end marker fetched
   behind a branch that is then taken ends the run; the flush does not take
   `endMarkerSeen` back.
3. `end_of_text` (`stages.cc:257`): in test mode with `-p` a program without
   an end marker counts as run although its last instructions never complete.
4. `shift_immediates` (`stages.cc:94`): slli, srli and srai by 32 or more
   places write 0.

The first three are checked under `FairSpec`; the final states they show are
reached in every fair run. The passing pipelined runs put three NOPs in front of the
end marker, fewer than the five of the lab2 programs and `add.s`; under such
padding none of the first three occurs.

The modules follow the code in further points where it differs from what it
says; they lie in one place each, so no run is spent on them:

- a unit test whose run ended with an exception passes when the registers match;
  the exit code testing.h:18 has for it, `AbnormalTermination`, is never returned
  (`main.cc:95`, `Validate`);
- lui and auipc extend an immediate with bit 31 set by zeros
  (`inst-decoder.cc:144`, `GetImmediateU`);
- `-t` after `-r` is accepted and drops the initializers, in the other order it
  is refused (`main.cc:299`, `SetTestFile`);
- `-r banana` is accepted and does nothing, and so is `-r R1=0xff`
  (`testing.cc:22`, `AddInitializer`);
- the check of the register names of a test file is inverted: r1 is refused,
  R1 is accepted (`testing.cc:81`, `ValidSection`);
- R257 in a test file is x1, and so is R-255 (`testing.cc:97`, `GetRegisters`);
- an executable that is no RISC-V ELF file aborts the process by an exception
  `launcher` does not catch (`main.cc:105`, `OpenProgram`);
- a file that is neither executable nor shared object is taken whatever its
  machine (`elf-file.cc:158`, `IsTarget`); a section with alignment 0, legal in
  ELF, is refused for want of memory (`elf-file.cc:200`, `IsAlignment`); the
  check of the alignment behind it masks with a comparison and so looks at bit 0
  of the pointer only (`elf-file.cc:205`);
- the framebuffer draws after every period, whether or not the memory changed as
  `framebuffer.cc:29` says, and a period has one bus cycle more than the title of
  the window (`framebuffer.cc:462-463`, `ClockPulse`);
- a key released before the window closed and not yet polled is still in the
  queue when the next window opens, so a q meant for the one closes the other
  (`framebuffer.cc:231`, `events` in `ProcessEvents`);
- when SDL gives a window but no texture, for which a `resx` of 0 is enough, the
  constructor throws and neither its destructor nor `~Framebuffer` closes the
  window: it stays, without a context, until `SDL_Quit` (`framebuffer.cc:128`,
  `WindowHalfOpen`);
- a negative immediate of C.ADDIW is printed 2^32 too high
  (`inst-formatter.cc:37`, `SignExtended`);
- an operation with an unassigned funct7 is printed as illegal and executed as
  `ALUOp::NOP`, which writes 0 to rd (`inst-formatter.cc:141`, `stages.cc:49`);
  compressed instructions are printed but cannot be executed.

## What is proved

Twenty-two theorems, for every value of the constants that satisfies the named
assumptions of the modules, and so for every program, instruction word, test
file, ELF file, operand and user. The theorems state all the safety properties the
passing runs check and all refinements.

### The pipeline

Any register width, number of registers, ALU and memory that satisfy `RV64I`
(the ALU gives words and adds, a load gives a word, a store a memory), any
program, any bound.

| Theorem | Says | Of which programs |
|---|---|---|
| `TypeCorrect` | every variable keeps its type, and `DataMemory` only writes sizes the bus has | all, both modes |
| `Conservation` | issued = completed + held in the stages, through stalls, bubbles and flushes | all, both modes |
| `OperandsCorrect` | forwarding and the load-use stall always give EX the value of program order | all, with pipelining |
| `EndMarkerDrains` | a run that ends at the end marker, or without pipelining anyhow, leaves nothing in the stages | all, both modes |
| `FaultOnPath` | an illegal instruction that ends a run is one the program comes to | no code at address 0, with pipelining |
| `SequentialImplementsHart` | every run is a run of the hart, faults included | all, without pipelining |
| `PipelinedFollowsHart` | every run executes the instructions of the hart, each once, completely and in order, up to the fault that ends it | padded, no code at 0, with pipelining |
| `PipelinedImplementsHart` | a run without a fault is a run of the hart, down to the register file | padded, no code at 0, with pipelining |

The hypotheses are those the code needs:

- `NoCodeAtZero`: the stages take the address 0 in a pipeline register for a
  stage with nothing in it, and so does `run` when it counts. No linker script
  of the repository puts code there.
- `MarkerPadded` (`WellFormed` is both): neither of the two instructions in front
  of an end marker is a branch or a jump, and the one in front of it does not
  use what the one before that loads. IF does not come back from a marker it has
  seen, and the marker drops the instruction a stall holds. The runs
  `loop_before_marker` and `load_use_before_marker` show that neither condition
  can be left out. The lab2 programs and
  `add.s` put five NOPs in front of the marker; `load.s` and `store.s` put none,
  and their last two instructions are no branches and do not use a load's result.
- `PipelinedImplementsHart` is about runs without a fault: an exception leaves
  the cycle in its middle, and what is missing then is what
  `FollowsHartToTheFault` says.

The argument. None of these properties is inductive. `Conservation` and
`OperandsCorrect` rest on `BuffersMatch`: between the `propagate` of a stage and
the clock pulse of the stage in front of it, the buffers agree with the register
they were read from. `OperandsInv` adds `OperandsRead` (what ID has read, or put
into ID/EX, is the value of program order up to the instructions EX and MEM
still forward), `LoadsKeptAway` (the instruction behind a load in EX does not
use its result, or is about to be held) and `LoadSignals`.

Without pipelining `SeqInv` says what each stage that had its turn has done with
the one instruction under way (`BuffersDone`, `RegistersDone`), and that the
registers behind it are those it began with. All handlers but MEM's clock pulse
then are stutters of the hart, and that one is the hart's step.

With pipelining the proofs do not follow the registers but the *view* of them:
`ToDecode`, `ToExecute`, `ToMemory` and `ToWriteBack` are what the registers will
be after the clock pulses still to come in this cycle. Only the last `propagate`
moves the view, so an invariant stated about it is disturbed once in a cycle.
`Drained` says that the stages run empty one after the other behind an end
marker, `Order` that the addresses in the stages succeed each other as fetched.
`OnPath` is the heart: the instruction in EX/MEM is the next one of the hart's,
computed from the registers the hart has there (`RegistersAhead`), and the ones
behind it are the successors, in the order `Elder` reads them; here
`OperandsCorrect` and `MarkerPadded` are used. `MemoryOnPath`, `MemoryRead` and
`WritesDone` carry that through MEM to its clock pulse, which is the step of the
hart (`PathInv`). `NothingLeft` adds that WB has no write left when a run ends
without a fault.

Together `SequentialImplementsHart` and `PipelinedImplementsHart` answer the
central question: the hart is deterministic, so a padded program that ends
without a fault leaves the same registers in both modes.

### Loader and bus

Any byte size, place of the devices, file and sequence of accesses.

- `ServesFlatMemory`: `Spec => ImplementsFlatMemory`. Segments, the search for
  the client and the separate arrays answer as one array with the image of the
  file.
- `TextStaysAsLoaded`: `Spec => []DisassembledIsFetched`.
- `TypeCorrect`: `Spec => []TypeOK`. No array gets a byte outside the bounds its
  section header gave it, what is read fits a register, and the statistics count
  between one and eight bytes for each access. It needs no hypothesis on the
  types of sections.

Assumed are that sections do not overlap (`FilesAssumption`), that sections with
contents have as many bytes as they say (`FilesType`), that the devices do not
share an address (`DevicesAssumption`), and that accesses have the sizes of
`DataMemory` (`RequestsAssumption`). The first two theorems are about files whose
loaded sections are PROGBITS or NOBITS (`PlainSections`), since the loader clears
the contents of the others (`elf-file.cc:210`), the second also about code that
has contents (`CodeHasContents`).

`LoadInv` is the invariant: for each section that had its turn there is one
memory with its bounds and permission, there are no others, and no two contain
the same address. So whatever order the bus asks in, it finds one. `ReadOnlyKept`
adds that an address no section lets write has the byte of the file. The types
need that a little-endian number of n bytes is less than the n-th power of the
byte size (`LittleEndianType`), an induction over the bytes.

### Launcher

Any command line and test file.

- `UnitTestVerdict`: `Spec => []VerdictIsRight`: a unit test exits with success
  exactly if every register its section `post` names has the value given there.
- `RunStart`: `Spec => []RunStartsAsAsked`: the run starts with the section `pre`
  of the test alone, or with the last option `-r` for each register.
- `TypeCorrect`: `Spec => []TypeOK`.

Assumed is what the regular expressions and `stoull` leave of a text: numbers of
registers are integers (`NamesAssumption`, negative ones too) or in range
(`CommandLinesAssumption`). `LineByLine` describes the fold over the lines of a
file by what is known after each of them; that the sorted enumeration
`GetProperties` chooses from exists is `SortedExists`. The invariant follows the
phases: `FromOptions` and `FromFile` (what the initializers come from),
`Initialized` (the last of the initializers handled so far has won in each
register), `Judged` (what of the expected registers was compared).

### Framebuffer

Any program, address of the device, mode, size of the window, palette and user,
and wherever SDL refuses: the window, or the texture when the window is open.

- `WindowAlwaysConsistent`: `Spec => []WindowConsistent`: `active_window`, the
  context and the register `enable` agree and say there is a window only if SDL
  shows one. The converse holds while the program runs and again when the device
  is gone; between a constructor that threw half way and `SDL_Quit` there is a
  window nobody knows of.
- `ShownAlwaysCurrent`: `Spec => []ShownIsCurrent`: no order of writes, new
  colors, keys and refreshes leaves an unmarked window showing something old.
- `TypeCorrect`: `Spec => []TypeOK` for every scale of refresh rates that the two
  keys do not leave (`IsScale`): the code's are the powers of ten from 10 to 10^7.
  No write reaches past the memory of a window.

From the program they assume that what it writes into the registers are numbers
and that its accesses have the sizes of the bus (`ProgramAssumption`), from the
device that its address is a multiple of 4 (`DeviceAssumption`). Neither of the
first two is inductive: a window of no pixels would show the same as no window.
`IInv` adds `ContextInv` (a context has at least one pixel) and `ControlInv` (the
registers a new context is made from are numbers, its mode one there is).

### Decoder, control unit and formatter

Any set of words. `AssemblyAssumption` says what they are: an instruction of 32
bits whose immediate has a place in its format (`IsInstruction`: every word with
an opcode the code knows is one), a compressed instruction the formatter knows
(`IsCompressed`), or another word (`IsOther`).

- `FieldsDecoded`: `Spec => []DecodesAsEncoded`: the decoder gives back every
  field and every immediate with its sign; the 20 bits of an upper immediate as
  they are.
- `ImmediateForms`: `Spec => []ImmediateFormsAgree`: the immediate operations
  select what their register forms do, whatever the immediate puts into funct7.
- `CompressedPrinted`: `Spec => []CompressedAsEncoded`.
- `PrinterNamesWhatRuns`: `Spec => []PrintsWhatRuns`: the tables of the formatter
  and those of the control unit agree at every funct3 and funct7, so do the places
  of a shift with the ALU's and the conditions with those of EX.

The invariant is small, `WordInv`: the word is the assembled one. The work is in
the numbers. `BitsOf` says that the bits the code masks out of a word, where the
assembler has put bits of a number in a row, are a quotient and a remainder of
that number; `FieldPlaces` and `ImmediatePlaces` say where they are put,
`FieldsApart` and `FieldsBeside` that no two share a bit. `PiecesOf12` to
`PiecesOf21` put the pieces of an immediate together again, `Sign12` to `Sign21`
are `signExtend`. For the last theorem `Names` says of two tables that the one
names what the other selects, and `TableNames` carries it to what is printed.

Powers of two are a function, `TwoTo`, and the masks of `Bits` a recursive one
(`FromBits`), so that the provers can follow them; branch conditions are compared
at operands of four bits, as in the run.

### ALU

Registers of 4, 8, 16, 32 or 64 bits (`WidthAssumption`; `TwoTo` ends at 64), and
any set of words for the operands (`OperandsAssumption`).

- `AluComputesReference`: `Spec => []ComputesReference`: every result is a word,
  and what the instruction set says of it. Sums are inverse to each other modulo
  the power, shifts and bitwise operations are described bit by bit, comparisons by
  the highest bit in which the operands differ, word operations by the lower half
  and its sign.

The invariant only says that the operands are words, since any of the setters may
be called at any time. The work is again in the numbers, and the lemmas say what
each piece of C++ does to the bits: adding a multiple of a power leaves those
below it (`BitOfCarry`, which is casts and carries), `\div` moves them down and
fills in the sign (`BitOfShifted`), a product moves them up (`BitOfProduct`), a
cast to a signed number continues its highest bit (`BitOfAsSigned`), and the
highest differing bit orders two numbers (`LessByBit`). `WordResult` puts the word
operations together from these; `sraw` alone does not cast its result again and
has its own argument.

### How the inductions are done

The theorems of the library about induction take an operator and cannot be used
here. Where a fold or a recursive function is followed (`FrequencyByKey`,
`LineByLine`, `Powers`, `LittleEndianType`, `FromBitsSum`, `FromBitsOf`, `BitOfFromBits`,
`EqualBits`), the proof takes the least number for which the claim fails (`LeastNumber`, from the well-foundedness of the subset
order of finite sets in FiniteSetTheorems) and refutes it. The existence of the
recursive function is proved the same way.

### What is only model-checked

- Liveness: `Terminates`, `ChangesAreShown`, `QuitCloses`. The prover has no
  ENABLED.
- The runs that show a violation.

## What is not modelled

- Self-modifying code: `text` is apart from `memory`, so a store to an
  instruction that was or will be fetched is not seen. In the instances the
  text reads as zeros as data and cannot be written.
- Sections that overlap, and sections whose end wraps around 2^64
  (`FilesAssumption`): the linker gives every section addresses of its own.
  Allocated sections with contents of a type other than PROGBITS are cleared by
  the loader (`elf-file.cc:210`); the files of the instance have none, and the
  theorems say so (`PlainSections`).
- Modes of the framebuffer beyond 5, which read past the tables, and sizes whose
  product wraps in 32 bits (`framebuffer.cc:135`).
- Signed overflow of `addw` and `subw` in `alu.cc`, undefined in C++: the
  build (`-Og`, 32-bit addition, then sign extension) wraps and so does the
  model.
- The text of messages and of the disassembly, and the regular expressions and
  number formats of the command line and the test files: `Launcher` begins with
  what they match. It ends with the process, so the verdict of a run that does
  not end is not asked for.
- `mux.h`, a template nothing instantiates; the vendored option parser of the
  Windows build (`Windows/XGetopt.cpp`); scripts and build files.

## Plan

1. `Pipeline`, `Hart`, `PipelineHart` and their runs, the proofs of type
   correctness, conservation and operands (done); the bus, ALU and decoder
   beside them (done).
2. `UnitTestFile` and `Launcher`: options in any order, unit tests, the run
   by its outcome, comparison and exit codes (done).
3. `ElfLoader` composed with `MemorySystem`, `InstFormatter` beside the decoder,
   `Framebuffer` with the user and SDL, faults with pipelining (done).
4. Proofs: the invariants of `Framebuffer`; `Pipeline` implements `Hart` in both
   modes; `MemorySystem` implements `FlatMemory` for any segments; the launcher's
   verdict and start; decoder and formatter for any word; the ALU for registers of
   any width (all done).
