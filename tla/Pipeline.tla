------------------------------ MODULE Pipeline ------------------------------
(***************************************************************************)
(* The processor as the code runs it (processor.cc, pipeline.cc, stages.cc, *)
(* reg-file.h): a loop of clock cycles, in each of which the stages first   *)
(* propagate and then receive the clock pulse.  With Pipelining every stage *)
(* does so in every cycle, in the order IF, ID, EX, MEM, WB; without, only  *)
(* one stage does, the next one in each cycle.                              *)
(*                                                                          *)
(* A step is one handler: propagate or clockPulse of one stage.  Stages     *)
(* interact through the pipeline registers, the shared PC, the register     *)
(* file and PipelineControl.  An exception ends the run at once, in the     *)
(* middle of the cycle: what the stages before it in that cycle did stays,  *)
(* what the stages after it had to do is lost.                              *)
(***************************************************************************)
EXTENDS RV64I, Sequences

CONSTANTS
  Pipelining,        \* the -p option
  TestMode,          \* the -t option: Processor::run(true)
  Programs,          \* functions from instruction addresses to instructions
  Entry,             \* ELFFile::getEntrypoint
  InitialRegisters,  \* register files the -r options can leave
  InitialMemory,     \* memories ELFFile::createMemories can leave
  MaxCycles          \* bound: the run is followed for this many cycles

ASSUME ModeAssumption == Pipelining \in BOOLEAN /\ TestMode \in BOOLEAN
ASSUME ProgramsAssumption ==
  \A program \in Programs : IsProgram(program)
ASSUME EntryAssumption == Entry \in Word \ {0}
ASSUME InitialAssumption ==
  InitialRegisters \subseteq RegisterArray /\ InitialMemory \subseteq MemoryState
ASSUME MaxCyclesAssumption == MaxCycles \in Nat

VARIABLES
  text,             \* the program, in memory that is not written
  PC,               \* of Processor, shared by IF and EX
  registers,        \* RegisterFile::registers
  memory,           \* contents of the memories on the bus
  output,           \* what Serial printed
  shouldHalt,       \* SysStatus::shouldHaltFlag
  if_id, id_ex, ex_m, m_wb,                        \* pipeline registers
  control,          \* PipelineControl
  fetch, decode, execute, memoryStage, writeBack,  \* buffers of the stages
  dataMemory,       \* the signals of DataMemory, valid until the next MEM
  phase,            \* where the loop of Processor::run is
  stage,            \* the stage whose handler is next (currentStage)
  reason,           \* why run() returned, "running" before that
  nCycles, nInstrIssued, nInstrCompleted, nStalls

architecture == <<text, PC, registers, memory, output, shouldHalt>>
pipelineRegisters == <<if_id, id_ex, ex_m, m_wb>>
buffers == <<fetch, decode, execute, memoryStage, writeBack, dataMemory>>
loop == <<phase, stage, reason, nCycles>>
statistics == <<nInstrIssued, nInstrCompleted, nStalls>>
vars == <<architecture, pipelineRegisters, control, buffers, loop, statistics>>

(* The stages in the order of Pipeline::stages. *)
IF_ == 0
ID == 1
EX == 2
MEM == 3
WB == 4
Stages == 0 .. 4

StopReason == {"halt", "endMarker", "fetchFailure", "illegalInstruction", "illegalAccess"}

----------------------------------------------------------------------------
(* Pipeline registers and buffers.  The decoded fields an instruction needs  *)
(* later (immediate, rd, rs1, rs2, opcode, funct3) travel as one record.     *)

IF_IDRegisters == [PC : Word, instruction : Instruction]
ID_EXRegisters == [PC : Word, instruction : Instruction, readData1 : Word,
                   readData2 : Word, control : ControlSignals]
EX_MRegisters == [PC : Word, aluResult : Word, writeData : Word, rd : RegNumber,
                  control : ControlSignals]
M_WBRegisters == [PC : Word, aluResult : Word, memData : Word, rd : RegNumber,
                  control : ControlSignals]
PipelineControl == [stallFetch : BOOLEAN, insertDecodeBubble : BOOLEAN,
                    flushFetch : BOOLEAN, flushDecode : BOOLEAN]

EmptyFetch == [PC |-> 0, instruction |-> NopInstruction]

(* id_ex = {}: every field zero, the opcode OP, no control signal. *)
EmptyDecode == [PC |-> 0, instruction |-> [NopInstruction EXCEPT !.opcode = "OP"],
                readData1 |-> 0, readData2 |-> 0, control |-> NoSignals]
EmptyExecute == [PC |-> 0, aluResult |-> 0, writeData |-> 0, rd |-> 0,
                 control |-> NoSignals]
EmptyMemory == [PC |-> 0, aluResult |-> 0, memData |-> 0, rd |-> 0,
                control |-> NoSignals]
NoControl == [stallFetch |-> FALSE, insertDecodeBubble |-> FALSE,
              flushFetch |-> FALSE, flushDecode |-> FALSE]

(* Mutant: one cycle per stage an instruction has still to go through. *)
EndMarkerCountdownShort == 3

(* Cycles that drain the stages after the end marker was fetched. *)
EndMarkerCountdown == 5

ArchitectureType ==
  /\ IsProgram(text)
  /\ PC \in Word
  /\ registers \in RegisterArray
  /\ memory \in MemoryState
  /\ output \in Seq(Word)
  /\ shouldHalt \in BOOLEAN

PipelineRegistersType ==
  /\ if_id \in IF_IDRegisters
  /\ id_ex \in ID_EXRegisters
  /\ ex_m \in EX_MRegisters
  /\ m_wb \in M_WBRegisters

BuffersType ==
  /\ fetch \in [PC : Word, instruction : Instruction, endMarkerSeen : BOOLEAN,
                endMarkerCountdown : 0 .. EndMarkerCountdown]
  /\ decode \in [PC : Word, instruction : Instruction, readData1 : Word, readData2 : Word]
  /\ execute \in [PC : Word, aluResult : Word, writeData : Word, rd : RegNumber,
                  control : ControlSignals, pcWriteEnable : BOOLEAN, nextPC : Word]
  /\ memoryStage \in M_WBRegisters
  /\ writeBack \in [rd : RegNumber, writeData : Word, writeEnable : BOOLEAN]
  /\ dataMemory \in [addr : Word, size : AccessSizes \cup {0}, dataIn : Word,
                     writeEnable : BOOLEAN]
  /\ dataMemory.writeEnable => dataMemory.size \in AccessSizes

LoopType ==
  /\ phase \in {"loop", "propagate", "clockPulse", "stopped"}
  /\ stage \in Stages
  /\ reason \in StopReason \cup {"running"}
  /\ nCycles \in 0 .. MaxCycles
  /\ phase \in {"propagate", "clockPulse"} => nCycles < MaxCycles

StatisticsType ==
  nInstrIssued \in Nat /\ nInstrCompleted \in Nat /\ nStalls \in Nat

(* Every variable has its type, a write of DataMemory one of the bus's       *)
(* sizes, and no cycle begins at the bound.                                  *)
TypeOK ==
  /\ ArchitectureType
  /\ PipelineRegistersType
  /\ control \in PipelineControl
  /\ BuffersType
  /\ LoopType
  /\ StatisticsType

Init ==
  /\ text \in Programs
  /\ PC = Entry
  /\ registers \in InitialRegisters
  /\ memory \in InitialMemory
  /\ output = <<>>
  /\ shouldHalt = FALSE
  /\ if_id = EmptyFetch
  /\ id_ex = EmptyDecode
  /\ ex_m = EmptyExecute
  /\ m_wb = EmptyMemory
  /\ control = NoControl
  /\ fetch = [PC |-> 0, instruction |-> NopInstruction, endMarkerSeen |-> FALSE,
              endMarkerCountdown |-> 0]
  /\ decode = [PC |-> 0, instruction |-> NopInstruction, readData1 |-> 0, readData2 |-> 0]
  /\ execute = [PC |-> 0, aluResult |-> 0, writeData |-> 0, rd |-> 0,
                control |-> NoSignals, pcWriteEnable |-> FALSE, nextPC |-> 0]
  /\ memoryStage = EmptyMemory
  /\ writeBack = [rd |-> 0, writeData |-> 0, writeEnable |-> FALSE]
  /\ dataMemory = [addr |-> 0, size |-> 0, dataIn |-> 0, writeEnable |-> FALSE]
  /\ phase = "loop"
  /\ stage = IF_
  /\ reason = "running"
  /\ nCycles = 0
  /\ nInstrIssued = 0
  /\ nInstrCompleted = 0
  /\ nStalls = 0

----------------------------------------------------------------------------
(* The loop of Processor::run, Pipeline::propagate and clockPulse.           *)

At(p, s) == phase = p /\ stage = s

(* Mutant: off by one in the last stage. *)
EndPropagateTooFar ==
  /\ IF Pipelining /\ stage <= WB
       THEN stage' = stage + 1 /\ phase' = phase
       ELSE stage' = (IF Pipelining THEN IF_ ELSE stage) /\ phase' = "clockPulse"
  /\ UNCHANGED <<reason, nCycles>>

(* On to the next stage's propagate; after the last, to the clock pulses. *)
EndPropagate ==
  /\ IF Pipelining /\ stage < WB
       THEN stage' = stage + 1 /\ phase' = phase
       ELSE stage' = (IF Pipelining THEN IF_ ELSE stage) /\ phase' = "clockPulse"
  /\ UNCHANGED <<reason, nCycles>>

(* Mutant: currentStage is not taken modulo the number of stages. *)
EndClockPulseNoModulo ==
  /\ IF Pipelining /\ stage < WB
       THEN stage' = stage + 1 /\ UNCHANGED <<phase, nCycles>>
       ELSE /\ stage' = (IF Pipelining THEN IF_ ELSE stage + 1)
            /\ phase' = "loop"
            /\ nCycles' = nCycles + 1
  /\ UNCHANGED reason

(* On to the next stage's clockPulse; after the last, to the next cycle. *)
EndClockPulse ==
  /\ IF Pipelining /\ stage < WB
       THEN stage' = stage + 1 /\ UNCHANGED <<phase, nCycles>>
       ELSE /\ stage' = (IF stage = WB THEN IF_ ELSE stage + 1)
            /\ phase' = "loop"
            /\ nCycles' = nCycles + 1
  /\ UNCHANGED reason

(* An exception leaves the loop: run() prints it and returns. *)
Throw(why) ==
  /\ phase' = "stopped"
  /\ reason' = why
  /\ UNCHANGED <<stage, nCycles>>

BeginCycle ==
  /\ phase = "loop"
  /\ ~shouldHalt
  /\ nCycles < MaxCycles
  /\ control' = NoControl
  /\ phase' = "propagate"
  /\ UNCHANGED <<architecture, pipelineRegisters, buffers, stage, reason, nCycles, statistics>>

Halt ==
  /\ phase = "loop"
  /\ shouldHalt
  /\ Throw("halt")
  /\ UNCHANGED <<architecture, pipelineRegisters, control, buffers, statistics>>

(* The return value of run(): in test mode the end of the text is not fatal. *)
RunSucceeded ==
  \/ reason = "halt"
  \/ TestMode /\ reason \in {"endMarker", "fetchFailure"}

----------------------------------------------------------------------------
(* Instruction fetch.                                                        *)

Fetched(instruction) ==
  [fetch EXCEPT !.PC = PC, !.instruction = instruction]

FetchNothing ==
  /\ fetch.endMarkerSeen
  /\ fetch' = Fetched(NopInstruction)
  /\ UNCHANGED control
  /\ EndPropagate

FetchFails ==
  /\ ~fetch.endMarkerSeen
  /\ PC \notin DOMAIN text
  /\ UNCHANGED <<fetch, control>>
  /\ Throw("fetchFailure")

FetchEndMarker ==
  /\ ~fetch.endMarkerSeen
  /\ PC \in DOMAIN text
  /\ text[PC] = TestEndMarker
  /\ IF Pipelining
       THEN /\ fetch' = [Fetched(NopInstruction) EXCEPT
                           !.endMarkerSeen = TRUE,
                           !.endMarkerCountdown = EndMarkerCountdown]
            /\ control' = [control EXCEPT !.flushFetch = TRUE]
            /\ EndPropagate
       ELSE /\ UNCHANGED <<fetch, control>>
            /\ Throw("endMarker")

FetchInstruction ==
  /\ ~fetch.endMarkerSeen
  /\ PC \in DOMAIN text
  /\ text[PC] # TestEndMarker
  /\ fetch' = Fetched(text[PC])
  /\ UNCHANGED control
  /\ EndPropagate

FetchPropagate ==
  /\ At("propagate", IF_)
  /\ FetchNothing \/ FetchFails \/ FetchEndMarker \/ FetchInstruction
  /\ UNCHANGED <<architecture, pipelineRegisters, decode, execute, memoryStage,
                 writeBack, dataMemory, statistics>>

(* if_id and PC take the fetched instruction, unless it is flushed or held. *)
FetchAdvance ==
  LET flush == Pipelining /\ control.flushFetch
      hold  == Pipelining /\ (control.stallFetch \/ fetch.endMarkerSeen)
  IN  CASE flush          -> if_id' = EmptyFetch /\ UNCHANGED PC
        [] ~flush /\ hold -> UNCHANGED <<if_id, PC>>
        [] OTHER          -> /\ if_id' = [PC |-> fetch.PC, instruction |-> fetch.instruction]
                             /\ PC' = Wrap(PC + 4)

FetchClockPulse ==
  /\ At("clockPulse", IF_)
  /\ FetchAdvance
  /\ \/ /\ ~fetch.endMarkerSeen
        /\ UNCHANGED fetch
        /\ EndClockPulse
     \/ /\ fetch.endMarkerSeen
        /\ fetch.endMarkerCountdown > 0
        /\ fetch' = [fetch EXCEPT !.endMarkerCountdown = @ - 1]
        /\ EndClockPulse
     \/ /\ fetch.endMarkerSeen
        /\ fetch.endMarkerCountdown = 0
        /\ UNCHANGED fetch
        /\ Throw("endMarker")
  /\ UNCHANGED <<text, registers, memory, output, shouldHalt, id_ex, ex_m, m_wb, control,
                 decode, execute, memoryStage, writeBack, dataMemory, statistics>>

----------------------------------------------------------------------------
(* Instruction decode.                                                       *)

(* What the instruction in a MEM/WB register writes to its rd. *)
WriteBackValue(w) == IF w.control.memToReg THEN w.memData ELSE w.aluResult

Writes(r) == r.control.regWrite /\ r.rd # 0

(* Mutant: the register file alone, without what WB is about to write. *)
FetchRegisterUnforwarded(r) == ReadRegister(registers, r)

(* Register fetch, with what WB writes at the end of this cycle. *)
FetchRegister(r) ==
  IF Pipelining /\ Writes(m_wb) /\ m_wb.rd = r
    THEN WriteBackValue(m_wb)
    ELSE ReadRegister(registers, r)

(* A load in EX has no result to forward yet. *)
LoadUseHazard(i) ==
  /\ id_ex.control.memRead
  /\ id_ex.instruction.rd # 0
  /\ \/ id_ex.instruction.rd = i.rs1
     \/ InstructionUsesRS2(i.opcode) /\ id_ex.instruction.rd = i.rs2

DecodePropagate ==
  /\ At("propagate", ID)
  /\ LET i == if_id.instruction IN
       /\ decode' = [PC |-> if_id.PC, instruction |-> i,
                     readData1 |-> FetchRegister(i.rs1),
                     readData2 |-> IF InstructionUsesRS2(i.opcode)
                                     THEN FetchRegister(i.rs2)
                                     ELSE ReadRegister(registers, i.rs2)]
       /\ control' = IF Pipelining /\ LoadUseHazard(i)
                       THEN [control EXCEPT !.stallFetch = TRUE, !.insertDecodeBubble = TRUE]
                       ELSE control
  /\ EndPropagate
  /\ UNCHANGED <<architecture, pipelineRegisters, fetch, execute, memoryStage,
                 writeBack, dataMemory, statistics>>

Squashed == Pipelining /\ (control.flushDecode \/ control.insertDecodeBubble)

(* Mutant: the bubble keeps the PC of the instruction it stands for. *)
DecodeSquashKeepsPC ==
  /\ Squashed
  /\ id_ex' = [EmptyDecode EXCEPT !.PC = decode.PC]
  /\ nStalls' = IF control.flushDecode THEN nStalls ELSE nStalls + 1
  /\ UNCHANGED nInstrIssued
  /\ EndClockPulse

(* Mutant: a stall leaves ID/EX as it is. *)
DecodeSquashNoBubble ==
  /\ Squashed
  /\ id_ex' = IF control.flushDecode THEN EmptyDecode ELSE id_ex
  /\ nStalls' = IF control.flushDecode THEN nStalls ELSE nStalls + 1
  /\ UNCHANGED nInstrIssued
  /\ EndClockPulse

DecodeSquash ==
  /\ Squashed
  /\ id_ex' = EmptyDecode
  /\ nStalls' = IF control.flushDecode THEN nStalls ELSE nStalls + 1
  /\ UNCHANGED nInstrIssued
  /\ EndClockPulse

(* Mutant: a valid PC is asked for, and only with pipelining. *)
CountIssuedPipelined ==
  /\ nInstrIssued' = IF Pipelining /\ decode.PC # 0 THEN nInstrIssued + 1 ELSE nInstrIssued
  /\ UNCHANGED nStalls

CountIssued ==
  /\ nInstrIssued' = IF ~Pipelining \/ decode.PC # 0 THEN nInstrIssued + 1 ELSE nInstrIssued
  /\ UNCHANGED nStalls

DecodeIssue ==
  /\ ~Squashed
  /\ IsLegal(decode.instruction)
  /\ CountIssued
  /\ id_ex' = [PC |-> decode.PC, instruction |-> decode.instruction,
               readData1 |-> decode.readData1, readData2 |-> decode.readData2,
               control |-> SetFromInstruction(decode.instruction)]
  /\ EndClockPulse

(* Mutant: the immediate is decoded before a squash is looked at. *)
DecodeIllegalFirst ==
  /\ ~IsLegal(decode.instruction)
  /\ CountIssued
  /\ id_ex' = [id_ex EXCEPT !.PC = decode.PC, !.readData1 = decode.readData1,
                            !.readData2 = decode.readData2]
  /\ Throw("illegalInstruction")

(* getImmediate throws after the first fields of id_ex are written. *)
DecodeIllegal ==
  /\ ~Squashed
  /\ ~IsLegal(decode.instruction)
  /\ CountIssued
  /\ id_ex' = [id_ex EXCEPT !.PC = decode.PC, !.readData1 = decode.readData1,
                            !.readData2 = decode.readData2]
  /\ Throw("illegalInstruction")

DecodeClockPulse ==
  /\ At("clockPulse", ID)
  /\ DecodeSquash \/ DecodeIssue \/ DecodeIllegal
  /\ UNCHANGED <<architecture, if_id, ex_m, m_wb, control, buffers, nInstrCompleted>>

----------------------------------------------------------------------------
(* Execute.                                                                  *)

(* Mutant: MEM/WB takes precedence over the newer value in EX/MEM. *)
ForwardedOldest(r, readData) ==
  LET exCanForward == Writes(ex_m) /\ ~ex_m.control.memToReg /\ ex_m.rd = r
      wbCanForward == Writes(m_wb) /\ m_wb.rd = r
  IN  CASE Pipelining /\ wbCanForward                  -> WriteBackValue(m_wb)
        [] Pipelining /\ exCanForward /\ ~wbCanForward -> ex_m.aluResult
        [] OTHER                                       -> readData

(* An operand read in ID, or a newer value from EX/MEM or else MEM/WB. *)
Forwarded(r, readData) ==
  LET exCanForward == Writes(ex_m) /\ ~ex_m.control.memToReg /\ ex_m.rd = r
      wbCanForward == Writes(m_wb) /\ m_wb.rd = r
  IN  CASE Pipelining /\ exCanForward                  -> ex_m.aluResult
        [] Pipelining /\ ~exCanForward /\ wbCanForward -> WriteBackValue(m_wb)
        [] OTHER                                       -> readData

Rs1Value == Forwarded(id_ex.instruction.rs1, id_ex.readData1)
Rs2Value == Forwarded(id_ex.instruction.rs2, id_ex.readData2)

OperandA == CASE id_ex.instruction.opcode = "AUIPC" -> id_ex.PC
              [] id_ex.instruction.opcode = "LUI"   -> 0
              [] OTHER                              -> Rs1Value
OperandB == IF id_ex.control.aluSrc THEN Wrap(id_ex.instruction.imm) ELSE Rs2Value

AluResult ==
  CASE id_ex.control.jump -> Wrap(id_ex.PC + 4)
    [] ~id_ex.control.jump /\ id_ex.instruction.opcode = "AUIPC" ->
         ComputePCRelativeTarget(id_ex.PC, id_ex.instruction.imm)
    [] OTHER -> ALU(id_ex.control.aluOp, OperandA, OperandB)

BranchTaken ==
  id_ex.control.branch /\ EvaluateBranch(id_ex.instruction.funct3, Rs1Value, Rs2Value)

NextPC ==
  CASE id_ex.control.jump /\ id_ex.instruction.opcode = "JALR" ->
         JumpRegisterTarget(Rs1Value, id_ex.instruction.imm)
    [] BranchTaken \/ (id_ex.control.jump /\ id_ex.instruction.opcode = "JAL") ->
         ComputePCRelativeTarget(id_ex.PC, id_ex.instruction.imm)
    [] OTHER -> 0

ExecutePropagate ==
  /\ At("propagate", EX)
  /\ LET redirect == BranchTaken \/ id_ex.control.jump IN
       /\ execute' = [PC |-> id_ex.PC, aluResult |-> AluResult, writeData |-> Rs2Value,
                      rd |-> id_ex.instruction.rd, control |-> id_ex.control,
                      pcWriteEnable |-> redirect, nextPC |-> NextPC]
       /\ control' = IF redirect
                       THEN [control EXCEPT !.flushFetch = TRUE, !.flushDecode = TRUE]
                       ELSE control
  /\ EndPropagate
  /\ UNCHANGED <<architecture, pipelineRegisters, fetch, decode, memoryStage, writeBack,
                 dataMemory, statistics>>

ExecuteClockPulse ==
  /\ At("clockPulse", EX)
  /\ ex_m' = [PC |-> execute.PC, aluResult |-> execute.aluResult,
              writeData |-> execute.writeData, rd |-> execute.rd,
              control |-> execute.control]
  /\ PC' = IF execute.pcWriteEnable THEN execute.nextPC ELSE PC
  /\ execute' = [execute EXCEPT !.pcWriteEnable = FALSE]
  /\ EndClockPulse
  /\ UNCHANGED <<text, registers, memory, output, shouldHalt, if_id, id_ex, m_wb, control,
                 fetch, decode, memoryStage, writeBack, dataMemory, statistics>>

----------------------------------------------------------------------------
(* Memory.                                                                   *)

(* What passes through to MEM/WB, with the value read for a load. *)
PassThrough(memData) ==
  [PC |-> ex_m.PC, aluResult |-> ex_m.aluResult, memData |-> memData,
   rd |-> ex_m.rd, control |-> ex_m.control]

(* Mutant: the signals of an earlier store are not reset. *)
NoMemoryAccessStale ==
  /\ ~ex_m.control.memRead /\ ~ex_m.control.memWrite
  /\ memoryStage' = PassThrough(0)
  /\ UNCHANGED dataMemory
  /\ EndPropagate

NoMemoryAccess ==
  /\ ~ex_m.control.memRead /\ ~ex_m.control.memWrite
  /\ memoryStage' = PassThrough(0)
  /\ dataMemory' = [dataMemory EXCEPT !.writeEnable = FALSE]
  /\ EndPropagate

ReadAccess ==
  Access(ex_m.aluResult, ex_m.control.memSize, FALSE)

(* The signals of DataMemory are set; a read is done, a write is for the     *)
(* clock pulse.                                                              *)
MemoryAccess ==
  /\ ex_m.control.memRead \/ ex_m.control.memWrite
  /\ ex_m.control.memSize # 0
  /\ ex_m.control.memRead => ReadAccess # "illegal"
  /\ memoryStage' =
       PassThrough(IF ex_m.control.memRead
                     THEN Load(memory, ex_m.aluResult, ex_m.control.memSize,
                               ex_m.control.memSignExtend)
                     ELSE 0)
  /\ dataMemory' = [addr |-> ex_m.aluResult, size |-> ex_m.control.memSize,
                    dataIn |-> ex_m.writeData, writeEnable |-> ex_m.control.memWrite]
  /\ EndPropagate

(* setSize refuses the size, or the bus the read.  What the stage has        *)
(* buffered by then is not read any more.                                    *)
MemoryFault ==
  /\ \/ /\ ex_m.control.memRead \/ ex_m.control.memWrite
        /\ ex_m.control.memSize = 0
     \/ /\ ex_m.control.memRead
        /\ ex_m.control.memSize # 0
        /\ ReadAccess = "illegal"
  /\ UNCHANGED <<memoryStage, dataMemory>>
  /\ Throw("illegalAccess")

MemoryPropagate ==
  /\ At("propagate", MEM)
  /\ NoMemoryAccess \/ MemoryAccess \/ MemoryFault
  /\ UNCHANGED <<architecture, pipelineRegisters, control, fetch, decode, execute,
                 writeBack, statistics>>

(* Mutant: the bus is asked for a client that can be read. *)
WriteAccessAsRead == Access(dataMemory.addr, dataMemory.size, FALSE)

(* DataMemory::clockPulse, one action per client of the bus. *)
WriteAccess == Access(dataMemory.addr, dataMemory.size, TRUE)

WriteNothing ==
  /\ ~dataMemory.writeEnable
  /\ UNCHANGED <<memory, output, shouldHalt>>

WriteMemory ==
  /\ dataMemory.writeEnable /\ WriteAccess = "memory"
  /\ memory' = Store(memory, dataMemory.addr, dataMemory.size, dataMemory.dataIn)
  /\ UNCHANGED <<output, shouldHalt>>

WriteSerial ==
  /\ dataMemory.writeEnable /\ WriteAccess = "serial"
  /\ output' = Append(output, LowByte(dataMemory.dataIn))
  /\ UNCHANGED <<memory, shouldHalt>>

WriteSysStatus ==
  /\ dataMemory.writeEnable /\ WriteAccess = "sysStatus"
  /\ shouldHalt' = TRUE
  /\ UNCHANGED <<memory, output>>

MemoryClockPulse ==
  /\ At("clockPulse", MEM)
  /\ \/ /\ WriteNothing \/ WriteMemory \/ WriteSerial \/ WriteSysStatus
        /\ m_wb' = memoryStage
        /\ EndClockPulse
     \/ /\ dataMemory.writeEnable /\ WriteAccess = "illegal"
        /\ UNCHANGED <<memory, output, shouldHalt, m_wb>>
        /\ Throw("illegalAccess")
  /\ UNCHANGED <<text, PC, registers, if_id, id_ex, ex_m, control, buffers, statistics>>

----------------------------------------------------------------------------
(* Write back.                                                               *)

WriteBackPropagate ==
  /\ At("propagate", WB)
  /\ nInstrCompleted' =
       IF ~Pipelining \/ m_wb.PC # 0 THEN nInstrCompleted + 1 ELSE nInstrCompleted
  /\ writeBack' = [rd |-> m_wb.rd, writeData |-> WriteBackValue(m_wb),
                   writeEnable |-> m_wb.control.regWrite]
  /\ EndPropagate
  /\ UNCHANGED <<architecture, pipelineRegisters, control, fetch, decode, execute,
                 memoryStage, dataMemory, nInstrIssued, nStalls>>

WriteBackClockPulse ==
  /\ At("clockPulse", WB)
  /\ registers' = IF writeBack.writeEnable
                    THEN WriteRegister(registers, writeBack.rd, writeBack.writeData)
                    ELSE registers
  /\ EndClockPulse
  /\ UNCHANGED <<text, PC, memory, output, shouldHalt, pipelineRegisters, control, buffers,
                 statistics>>

----------------------------------------------------------------------------
Next ==
  \/ BeginCycle \/ Halt
  \/ FetchPropagate \/ DecodePropagate \/ ExecutePropagate
  \/ MemoryPropagate \/ WriteBackPropagate
  \/ FetchClockPulse \/ DecodeClockPulse \/ ExecuteClockPulse
  \/ MemoryClockPulse \/ WriteBackClockPulse

Spec == Init /\ [][Next]_vars

(* Nothing runs beside the loop of run(), which takes its next step as long  *)
(* as the operating system runs the process.                                 *)
FairSpec == Spec /\ WF_vars(Next)

----------------------------------------------------------------------------
(* What the pipeline must get right.                                         *)

(* The value of a register once the instructions in MEM and in EX/MEM have   *)
(* written theirs: what an instruction in EX has to work with.               *)
ArchitecturalValue(r) ==
  LET settled == IF Writes(m_wb)
                   THEN WriteRegister(registers, m_wb.rd, WriteBackValue(m_wb))
                   ELSE registers
  IN  IF Writes(ex_m) /\ ex_m.rd = r THEN ex_m.aluResult ELSE ReadRegister(settled, r)

OperandIsCurrent(r, value) ==
  /\ Writes(ex_m) /\ ex_m.rd = r => ~ex_m.control.memToReg
  /\ value = ArchitecturalValue(r)

(* Whatever the instructions in front of it do, EX computes with the value   *)
(* each source register has in program order, never with one that is out of  *)
(* date, and never with one a load in MEM has yet to read.  This is what     *)
(* the forwarding of ID and EX and the load-use stall of ID together have to *)
(* achieve, over instructions up to three apart.                             *)
OperandsAreCurrent ==
  Pipelining /\ phase \in {"loop", "propagate"} =>
    LET i == id_ex.instruction IN
      /\ OperandIsCurrent(i.rs1, Rs1Value)
      /\ InstructionUsesRS2(i.opcode) => OperandIsCurrent(i.rs2, Rs2Value)

(* Instructions that were counted as issued and not yet as completed.  While *)
(* the clock pulses go round, a stage that has not had its pulse holds its   *)
(* instruction in its buffer.                                                *)
Occupied(address) == IF address # 0 THEN 1 ELSE 0

Unpulsed(s) == phase = "clockPulse" /\ stage <= s

InFlight ==
  IF Pipelining
    THEN (IF Unpulsed(ID) THEN 0 ELSE Occupied(id_ex.PC))
       + Occupied(IF Unpulsed(EX) THEN execute.PC ELSE ex_m.PC)
       + Occupied(IF Unpulsed(MEM) THEN memoryStage.PC ELSE m_wb.PC)
    ELSE IF stage \in EX .. MEM \/ At("propagate", WB) \/ At("loop", WB) THEN 1 ELSE 0

(* No instruction is lost between ID and WB and none goes through twice: the *)
(* statistics of processor.cc differ by exactly what the stages hold, in     *)
(* every step of every cycle, through stalls, bubbles and flushes.           *)
InstructionsConserved ==
  phase # "stopped" => nInstrIssued = nInstrCompleted + InFlight

(* A run that ends at the end of the text and is reported as a success left  *)
(* nothing behind in the pipeline: every issued instruction has completed    *)
(* and no result waits for WB.  Processor::run returns true in test mode     *)
(* "to allow test programs without store instruction to run without error".  *)
CleanStopDrained ==
  phase = "stopped" /\ RunSucceeded /\ reason # "halt" =>
    /\ nInstrCompleted = nInstrIssued
    /\ Pipelining => m_wb.PC = 0

(* A program without backward jumps comes to its end: no stall repeats       *)
(* itself for ever and the end marker's countdown runs out.                  *)
Terminates == <>(phase = "stopped")
============================================================================
