--------------------------- MODULE PipelineProofs ---------------------------
(***************************************************************************)
(* What holds of the processor for every program, register width, number of *)
(* registers, ALU and memory; at the end, that without pipelining it        *)
(* implements the hart.                                                     *)
(***************************************************************************)
EXTENDS PipelineHart, TLAPS

----------------------------------------------------------------------------
(* Words, instructions and control signals.                                  *)

(* Wrapping any integer gives a word. *)
LEMMA WrapType == \A i \in Int : Wrap(i) \in Word
  BY ModulusAssumption DEF Wrap, Word

(* Zero is a word and x0 a register. *)
LEMMA ZeroType == 0 \in Word /\ 0 \in RegNumber /\ Word \subseteq Int /\ RegNumber \subseteq Int
  BY ModulusAssumption, NumRegsAssumption DEF Word, RegNumber

(* Reading a register of a register file gives a word. *)
LEMMA ReadRegisterType ==
  ASSUME NEW file \in RegisterArray, NEW r \in RegNumber
  PROVE  ReadRegister(file, r) \in Word
  BY ZeroType, NumRegsAssumption DEF ReadRegister, RegisterArray, RegNumber

(* Writing a word to a register of a register file gives a register file. *)
LEMMA WriteRegisterType ==
  ASSUME NEW file \in RegisterArray, NEW r \in RegNumber, NEW w \in Word
  PROVE  WriteRegister(file, r, w) \in RegisterArray
  BY NumRegsAssumption DEF WriteRegister, RegisterArray, RegNumber

(* The targets of branches and jumps are words. *)
LEMMA TargetType ==
  ASSUME NEW base \in Word, NEW offset \in Int
  PROVE  ComputePCRelativeTarget(base, offset) \in Word
         /\ JumpRegisterTarget(base, offset) \in Word
<1>1. Wrap(base + offset) \in Word
  BY WrapType, ZeroType
<1>2. \A w \in Word : w - (w % 2) \in Word
  BY ModulusAssumption DEF Word
<1> QED
  BY <1>1, <1>2 DEF ComputePCRelativeTarget, JumpRegisterTarget

(* The selected ALU operation is one of ALUOp. *)
LEMMA AluOperationType ==
  ASSUME NEW i \in Instruction
  PROVE  AluOperation(i) \in ALUOp
<1>1. \A operations : Selected(operations, i) \in ALUOp
  BY DEF Selected, ALUOp
<1> QED
  BY <1>1 DEF AluOperation, ALUOp

(* An access has one of the sizes the bus knows, or none. *)
LEMMA AccessSizeType ==
  ASSUME NEW i \in Instruction
  PROVE  AccessSize(i) \in {0, 1, 2, 4, 8}
<1>1. i.funct3 \in 0 .. 7
  BY DEF Instruction
<1>2. CASE i.opcode = "LOAD" /\ i.funct3 < 7
  <2>1. i.funct3 + 1 \in 1 .. 7
    BY <1>1, <1>2
  <2> QED
    BY <2>1, <1>2 DEF AccessSize
<1>3. CASE i.opcode = "STORE" /\ i.funct3 < 4
  <2>1. i.funct3 + 1 \in 1 .. 4
    BY <1>1, <1>3
  <2> QED
    BY <2>1, <1>3 DEF AccessSize
<1>4. CASE ~(i.opcode = "LOAD" /\ i.funct3 < 7) /\ ~(i.opcode = "STORE" /\ i.funct3 < 4)
  BY <1>4 DEF AccessSize
<1> QED
  BY <1>2, <1>3, <1>4

(* The control signals of an instruction are control signals. *)
LEMMA ControlType ==
  ASSUME NEW i \in Instruction
  PROVE  SetFromInstruction(i) \in ControlSignals
  BY AluOperationType, AccessSizeType DEF SetFromInstruction, ControlSignals

(* So are those of an empty stage. *)
LEMMA NoSignalsType == NoSignals \in ControlSignals
  BY DEF NoSignals, ControlSignals, ALUOp

(* The instructions the emulator makes up itself are instructions. *)
LEMMA NopType ==
  NopInstruction \in Instruction /\ [NopInstruction EXCEPT !.opcode = "OP"] \in Instruction
  BY ZeroType DEF NopInstruction, Instruction, Opcode, KnownOpcode

(* What WB writes is a word. *)
LEMMA WriteBackValueType ==
  ASSUME NEW w \in M_WBRegisters
  PROVE  WriteBackValue(w) \in Word
  BY DEF WriteBackValue, M_WBRegisters

----------------------------------------------------------------------------
(* Type correctness.                                                         *)

USE DEF IF_, ID, EX, MEM, WB

(* What a step leaves alone keeps its type. *)
LEMMA UnchangedType ==
  /\ ArchitectureType /\ UNCHANGED architecture => ArchitectureType'
  /\ PipelineRegistersType /\ UNCHANGED pipelineRegisters => PipelineRegistersType'
  /\ BuffersType /\ UNCHANGED buffers => BuffersType'
  /\ LoopType /\ UNCHANGED loop => LoopType'
  /\ StatisticsType /\ UNCHANGED statistics => StatisticsType'
  BY DEF ArchitectureType, architecture, PipelineRegistersType, pipelineRegisters,
         BuffersType, buffers, LoopType, loop, StatisticsType, statistics

(* The bookkeeping of the loop keeps its type, whichever way a handler ends. *)
LEMMA LoopSteps ==
  ASSUME LoopType, phase \in {"propagate", "clockPulse"}
  PROVE  /\ EndPropagate => LoopType'
         /\ EndClockPulse => LoopType'
         /\ \A why \in StopReason : Throw(why) => LoopType'
  BY ModeAssumption, MaxCyclesAssumption
     DEF LoopType, Stages, EndPropagate, EndClockPulse, Throw

(* The processor starts with values of the right types. *)
LEMMA InitType == Init => TypeOK
<1> SUFFICES ASSUME Init PROVE TypeOK
  OBVIOUS
<1>1. ArchitectureType
  <2>1. IsProgram(text)
    BY ProgramsAssumption DEF Init
  <2>2. registers \in RegisterArray /\ memory \in MemoryState
    BY InitialAssumption DEF Init
  <2>3. output \in Seq(Word)
    BY DEF Init
  <2> QED
    BY <2>1, <2>2, <2>3, EntryAssumption DEF Init, ArchitectureType
<1>2. PipelineRegistersType
  BY ZeroType, NopType, NoSignalsType
     DEF Init, PipelineRegistersType, EmptyFetch, EmptyDecode, EmptyExecute, EmptyMemory,
         IF_IDRegisters, ID_EXRegisters, EX_MRegisters, M_WBRegisters
<1>3. control \in PipelineControl
  BY DEF Init, NoControl, PipelineControl
<1>4. BuffersType
  BY ZeroType, NopType, NoSignalsType
     DEF Init, BuffersType, EmptyMemory, M_WBRegisters, EndMarkerCountdown
<1>5. LoopType /\ StatisticsType
  BY MaxCyclesAssumption DEF Init, LoopType, StatisticsType, Stages
<1> QED
  BY <1>1, <1>2, <1>3, <1>4, <1>5 DEF TypeOK

(* IF latches instructions, and no more than the countdown. *)
LEMMA FetchPropagateType == TypeOK /\ FetchPropagate => TypeOK'
<1> SUFFICES ASSUME TypeOK, FetchPropagate PROVE TypeOK'
  OBVIOUS
<1>1. PC \in DOMAIN text => text[PC] \in Instruction
  BY DEF TypeOK, ArchitectureType, IsProgram
<1>2. \A i \in Instruction :
        Fetched(i) \in [PC : Word, instruction : Instruction, endMarkerSeen : BOOLEAN,
                       endMarkerCountdown : 0 .. EndMarkerCountdown]
  BY DEF TypeOK, ArchitectureType, BuffersType, Fetched
<1>3. fetch' \in [PC : Word, instruction : Instruction, endMarkerSeen : BOOLEAN,
                 endMarkerCountdown : 0 .. EndMarkerCountdown]
  <2>1. CASE FetchNothing
    BY <2>1, <1>2, NopType DEF FetchNothing
  <2>2. CASE FetchFails
    BY <2>2 DEF FetchFails, TypeOK, BuffersType
  <2>3. CASE FetchEndMarker
    <3>1. EndMarkerCountdown \in 0 .. EndMarkerCountdown
      BY DEF EndMarkerCountdown
    <3>2. Fetched(NopInstruction) \in
            [PC : Word, instruction : Instruction, endMarkerSeen : BOOLEAN,
             endMarkerCountdown : 0 .. EndMarkerCountdown]
      BY <1>2, NopType
    <3>3. fetch \in [PC : Word, instruction : Instruction, endMarkerSeen : BOOLEAN,
                    endMarkerCountdown : 0 .. EndMarkerCountdown]
      BY DEF TypeOK, BuffersType
    <3> QED
      BY <2>3, <3>1, <3>2, <3>3 DEF FetchEndMarker
  <2>4. CASE FetchInstruction
    BY <2>4, <1>1, <1>2 DEF FetchInstruction
  <2> QED
    BY <2>1, <2>2, <2>3, <2>4 DEF FetchPropagate
<1>4. BuffersType'
  BY <1>3 DEF FetchPropagate, TypeOK, BuffersType
<1>5. control' \in PipelineControl
  BY DEF FetchPropagate, FetchNothing, FetchFails, FetchEndMarker, FetchInstruction,
         TypeOK, PipelineControl
<1>6. LoopType'
  BY LoopSteps DEF FetchPropagate, At, FetchNothing, FetchFails, FetchEndMarker,
         FetchInstruction, TypeOK, StopReason
<1> QED
  BY <1>4, <1>5, <1>6, UnchangedType DEF FetchPropagate, TypeOK

(* ID reads words. *)
LEMMA DecodePropagateType == TypeOK /\ DecodePropagate => TypeOK'
<1> SUFFICES ASSUME TypeOK, DecodePropagate PROVE TypeOK'
  OBVIOUS
<1> DEFINE i == if_id.instruction
<1>1. if_id.PC \in Word /\ i \in Instruction /\ i.rs1 \in RegNumber /\ i.rs2 \in RegNumber
  BY DEF TypeOK, PipelineRegistersType, IF_IDRegisters, Instruction
<1>2. \A r \in RegNumber : ReadRegister(registers, r) \in Word /\ FetchRegister(r) \in Word
  BY ReadRegisterType, WriteBackValueType
     DEF TypeOK, ArchitectureType, PipelineRegistersType, FetchRegister
<1>3. decode' \in [PC : Word, instruction : Instruction, readData1 : Word, readData2 : Word]
  BY <1>1, <1>2 DEF DecodePropagate
<1>4. BuffersType'
  BY <1>3 DEF DecodePropagate, TypeOK, BuffersType
<1>5. control' \in PipelineControl
  BY DEF DecodePropagate, TypeOK, PipelineControl
<1>6. LoopType'
  BY LoopSteps DEF DecodePropagate, At, TypeOK
<1> QED
  BY <1>4, <1>5, <1>6, UnchangedType DEF DecodePropagate, TypeOK

(* Operands of the instruction in EX are words. *)
LEMMA ForwardedType ==
  ASSUME TypeOK, NEW r, NEW v \in Word
  PROVE  Forwarded(r, v) \in Word
<1>1. ex_m.aluResult \in Word /\ WriteBackValue(m_wb) \in Word
  BY WriteBackValueType DEF TypeOK, PipelineRegistersType, EX_MRegisters
<1> QED
  BY <1>1 DEF Forwarded

(* EX computes words, as results and as targets. *)
LEMMA ExecutePropagateType == TypeOK /\ ExecutePropagate => TypeOK'
<1> SUFFICES ASSUME TypeOK, ExecutePropagate PROVE TypeOK'
  OBVIOUS
<1>1. /\ id_ex.PC \in Word /\ id_ex.readData1 \in Word /\ id_ex.readData2 \in Word
      /\ id_ex.instruction \in Instruction /\ id_ex.control \in ControlSignals
  BY DEF TypeOK, PipelineRegistersType, ID_EXRegisters
<1>2. id_ex.instruction.imm \in Int /\ id_ex.instruction.rd \in RegNumber
  BY <1>1 DEF Instruction
<1>3. Rs1Value \in Word /\ Rs2Value \in Word
  BY <1>1, ForwardedType DEF Rs1Value, Rs2Value
<1>4. AluResult \in Word
  <2>1. OperandA \in Word /\ OperandB \in Word
    BY <1>1, <1>2, <1>3, WrapType, ZeroType DEF OperandA, OperandB
  <2>2. ALU(id_ex.control.aluOp, OperandA, OperandB) \in Word
    <3>1. id_ex.control.aluOp \in ALUOp
      BY <1>1 DEF ControlSignals
    <3> QED
      BY <2>1, <3>1, ALUAssumption
  <2>3. Wrap(id_ex.PC + 4) \in Word
    BY <1>1, WrapType DEF Word
  <2>4. ComputePCRelativeTarget(id_ex.PC, id_ex.instruction.imm) \in Word
    BY <1>1, <1>2, TargetType
  <2> QED
    BY <2>2, <2>3, <2>4 DEF AluResult
<1>5. NextPC \in Word
  BY <1>1, <1>2, <1>3, TargetType, ZeroType DEF NextPC
<1>6. BranchTaken \/ id_ex.control.jump \in BOOLEAN
  BY <1>1 DEF ControlSignals
<1>7. execute' \in [PC : Word, aluResult : Word, writeData : Word, rd : RegNumber,
                   control : ControlSignals, pcWriteEnable : BOOLEAN, nextPC : Word]
  BY <1>1, <1>2, <1>3, <1>4, <1>5, <1>6 DEF ExecutePropagate, BranchTaken
<1>8. BuffersType'
  BY <1>7 DEF ExecutePropagate, TypeOK, BuffersType
<1>9. control' \in PipelineControl
  BY DEF ExecutePropagate, TypeOK, PipelineControl
<1>10. LoopType'
  BY LoopSteps DEF ExecutePropagate, At, TypeOK
<1> QED
  BY <1>8, <1>9, <1>10, UnchangedType DEF ExecutePropagate, TypeOK

(* MEM loads words, and asks for writes of a size the bus knows. *)
LEMMA MemoryPropagateType == TypeOK /\ MemoryPropagate => TypeOK'
<1> SUFFICES ASSUME TypeOK, MemoryPropagate PROVE TypeOK'
  OBVIOUS
<1>1. /\ ex_m.PC \in Word /\ ex_m.aluResult \in Word /\ ex_m.writeData \in Word
      /\ ex_m.rd \in RegNumber /\ ex_m.control \in ControlSignals
  BY DEF TypeOK, PipelineRegistersType, EX_MRegisters
<1>2. \A v \in Word : PassThrough(v) \in M_WBRegisters
  BY <1>1 DEF PassThrough, M_WBRegisters
<1>3. CASE NoMemoryAccess
  <2>1. memoryStage' \in M_WBRegisters
    BY <1>2, <1>3, ZeroType DEF NoMemoryAccess
  <2> QED
    BY <1>3, <2>1, LoopSteps, UnchangedType
       DEF NoMemoryAccess, MemoryPropagate, TypeOK, BuffersType, At
<1>4. CASE MemoryAccess
  <2>1. ex_m.control.memSize \in AccessSizes /\ ex_m.control.memSignExtend \in BOOLEAN
        /\ ex_m.control.memWrite \in BOOLEAN
    BY <1>1, <1>4 DEF MemoryAccess, ControlSignals, AccessSizes
  <2>2. ex_m.control.memRead =>
          Load(memory, ex_m.aluResult, ex_m.control.memSize, ex_m.control.memSignExtend) \in Word
    BY <1>1, <1>4, <2>1, AccessAssumption, LoadAssumption
       DEF MemoryAccess, ReadAccess, TypeOK, ArchitectureType
  <2>3. memoryStage' \in M_WBRegisters
    BY <1>2, <1>4, <2>2, ZeroType DEF MemoryAccess
  <2>4. BuffersType'
    BY <1>1, <1>4, <2>1, <2>3 DEF MemoryAccess, MemoryPropagate, TypeOK, BuffersType
  <2> QED
    BY <1>4, <2>4, LoopSteps, UnchangedType DEF MemoryAccess, MemoryPropagate, TypeOK, At
<1>5. CASE MemoryFault
  BY <1>5, LoopSteps, UnchangedType
     DEF MemoryFault, MemoryPropagate, TypeOK, BuffersType, At, StopReason
<1> QED
  BY <1>3, <1>4, <1>5 DEF MemoryPropagate

(* WB selects a word. *)
LEMMA WriteBackPropagateType == TypeOK /\ WriteBackPropagate => TypeOK'
<1> SUFFICES ASSUME TypeOK, WriteBackPropagate PROVE TypeOK'
  OBVIOUS
<1>1. m_wb.rd \in RegNumber /\ m_wb.control.regWrite \in BOOLEAN /\ m_wb \in M_WBRegisters
  BY DEF TypeOK, PipelineRegistersType, M_WBRegisters, ControlSignals
<1>2. writeBack' \in [rd : RegNumber, writeData : Word, writeEnable : BOOLEAN]
  BY <1>1, WriteBackValueType DEF WriteBackPropagate
<1>3. BuffersType'
  BY <1>2 DEF WriteBackPropagate, TypeOK, BuffersType
<1>4. StatisticsType' /\ LoopType'
  BY LoopSteps DEF WriteBackPropagate, TypeOK, StatisticsType, At
<1> QED
  BY <1>3, <1>4, UnchangedType DEF WriteBackPropagate, TypeOK

(* PC stays a word and IF/ID an instruction. *)
LEMMA FetchClockPulseType == TypeOK /\ FetchClockPulse => TypeOK'
<1> SUFFICES ASSUME TypeOK, FetchClockPulse PROVE TypeOK'
  OBVIOUS
<1>1. fetch.PC \in Word /\ fetch.instruction \in Instruction /\ PC \in Word
  BY DEF TypeOK, ArchitectureType, BuffersType
<1>2. Wrap(PC + 4) \in Word
  BY <1>1, WrapType DEF Word
<1>3. if_id' \in IF_IDRegisters /\ PC' \in Word
  <2>1. EmptyFetch \in IF_IDRegisters
    BY ZeroType, NopType DEF EmptyFetch, IF_IDRegisters
  <2> QED
    BY <1>1, <1>2, <2>1
       DEF FetchClockPulse, FetchAdvance, TypeOK, PipelineRegistersType, IF_IDRegisters
<1>4. ArchitectureType' /\ PipelineRegistersType'
  BY <1>3 DEF FetchClockPulse, TypeOK, ArchitectureType, PipelineRegistersType, IsProgram
<1>5. fetch' \in [PC : Word, instruction : Instruction, endMarkerSeen : BOOLEAN,
                 endMarkerCountdown : 0 .. EndMarkerCountdown]
  BY DEF FetchClockPulse, TypeOK, BuffersType, EndMarkerCountdown
<1>6. BuffersType'
  BY <1>5 DEF FetchClockPulse, TypeOK, BuffersType
<1>7. LoopType'
  BY LoopSteps DEF FetchClockPulse, At, TypeOK, StopReason
<1> QED
  BY <1>4, <1>6, <1>7, UnchangedType DEF FetchClockPulse, TypeOK

(* ID/EX takes control signals and operands, or a bubble. *)
LEMMA DecodeClockPulseType == TypeOK /\ DecodeClockPulse => TypeOK'
<1> SUFFICES ASSUME TypeOK, DecodeClockPulse PROVE TypeOK'
  OBVIOUS
<1>1. /\ decode.PC \in Word /\ decode.instruction \in Instruction
      /\ decode.readData1 \in Word /\ decode.readData2 \in Word
  BY DEF TypeOK, BuffersType
<1>2. id_ex' \in ID_EXRegisters
  <2>1. CASE DecodeSquash
    BY <2>1, ZeroType, NopType, NoSignalsType DEF DecodeSquash, EmptyDecode, ID_EXRegisters
  <2>2. CASE DecodeIssue
    BY <2>2, <1>1, ControlType DEF DecodeIssue, ID_EXRegisters
  <2>3. CASE DecodeIllegal
    BY <2>3, <1>1 DEF DecodeIllegal, TypeOK, PipelineRegistersType, ID_EXRegisters
  <2> QED
    BY <2>1, <2>2, <2>3 DEF DecodeClockPulse
<1>3. PipelineRegistersType'
  BY <1>2 DEF DecodeClockPulse, TypeOK, PipelineRegistersType
<1>4. StatisticsType'
  BY DEF DecodeClockPulse, DecodeSquash, DecodeIssue, DecodeIllegal, CountIssued, TypeOK,
         StatisticsType
<1>5. LoopType'
  BY LoopSteps DEF DecodeClockPulse, DecodeSquash, DecodeIssue, DecodeIllegal, At, TypeOK,
         StopReason
<1> QED
  BY <1>3, <1>4, <1>5, UnchangedType DEF DecodeClockPulse, TypeOK

(* EX/MEM and PC take what EX computed. *)
LEMMA ExecuteClockPulseType == TypeOK /\ ExecuteClockPulse => TypeOK'
<1> SUFFICES ASSUME TypeOK, ExecuteClockPulse PROVE TypeOK'
  OBVIOUS
<1>1. execute \in [PC : Word, aluResult : Word, writeData : Word, rd : RegNumber,
                  control : ControlSignals, pcWriteEnable : BOOLEAN, nextPC : Word]
  BY DEF TypeOK, BuffersType
<1>2. ex_m' \in EX_MRegisters
  BY <1>1 DEF ExecuteClockPulse, EX_MRegisters
<1>3. ArchitectureType'
  BY <1>1 DEF ExecuteClockPulse, TypeOK, ArchitectureType, IsProgram
<1>4. BuffersType'
  BY <1>1 DEF ExecuteClockPulse, TypeOK, BuffersType
<1>5. LoopType' /\ PipelineRegistersType'
  BY <1>2, LoopSteps DEF ExecuteClockPulse, At, TypeOK, PipelineRegistersType
<1> QED
  BY <1>3, <1>4, <1>5, UnchangedType DEF ExecuteClockPulse, TypeOK

(* Memory stays a memory whichever client takes the write. *)
LEMMA MemoryClockPulseType == TypeOK /\ MemoryClockPulse => TypeOK'
<1> SUFFICES ASSUME TypeOK, MemoryClockPulse PROVE TypeOK'
  OBVIOUS
<1>1. /\ dataMemory.addr \in Word /\ dataMemory.dataIn \in Word
      /\ dataMemory.writeEnable => dataMemory.size \in AccessSizes
      /\ memoryStage \in M_WBRegisters
      /\ memory \in MemoryState /\ output \in Seq(Word) /\ shouldHalt \in BOOLEAN
  BY DEF TypeOK, BuffersType, ArchitectureType
<1>2. memory' \in MemoryState
  BY <1>1, StoreAssumption
     DEF MemoryClockPulse, WriteNothing, WriteMemory, WriteSerial, WriteSysStatus,
         WriteAccess
<1>3. output' \in Seq(Word)
  <2>1. Append(output, LowByte(dataMemory.dataIn)) \in Seq(Word)
    BY <1>1, LowByteAssumption
  <2> QED
    BY <1>1, <2>1
       DEF MemoryClockPulse, WriteNothing, WriteMemory, WriteSerial, WriteSysStatus
<1>4. shouldHalt' \in BOOLEAN
  BY <1>1 DEF MemoryClockPulse, WriteNothing, WriteMemory, WriteSerial, WriteSysStatus
<1>5. ArchitectureType'
  BY <1>2, <1>3, <1>4 DEF MemoryClockPulse, TypeOK, ArchitectureType, IsProgram
<1>6. PipelineRegistersType'
  BY <1>1 DEF MemoryClockPulse, TypeOK, PipelineRegistersType
<1>7. LoopType'
  BY LoopSteps DEF MemoryClockPulse, At, TypeOK, StopReason
<1> QED
  BY <1>5, <1>6, <1>7, UnchangedType DEF MemoryClockPulse, TypeOK

(* The register file stays a register file. *)
LEMMA WriteBackClockPulseType == TypeOK /\ WriteBackClockPulse => TypeOK'
<1> SUFFICES ASSUME TypeOK, WriteBackClockPulse PROVE TypeOK'
  OBVIOUS
<1>1. registers' \in RegisterArray
  BY WriteRegisterType DEF WriteBackClockPulse, TypeOK, BuffersType, ArchitectureType
<1>2. ArchitectureType'
  BY <1>1 DEF WriteBackClockPulse, TypeOK, ArchitectureType, IsProgram
<1>3. LoopType'
  BY LoopSteps DEF WriteBackClockPulse, At, TypeOK
<1> QED
  BY <1>2, <1>3, UnchangedType DEF WriteBackClockPulse, TypeOK

(* Every step keeps the types. *)
LEMMA NextType == TypeOK /\ [Next]_vars => TypeOK'
<1> SUFFICES ASSUME TypeOK, [Next]_vars PROVE TypeOK'
  OBVIOUS
<1>1. CASE BeginCycle
  <2>1. LoopType'
    BY <1>1 DEF BeginCycle, TypeOK, LoopType
  <2>2. control' \in PipelineControl
    BY <1>1 DEF BeginCycle, NoControl, PipelineControl
  <2> QED
    BY <1>1, <2>1, <2>2, UnchangedType DEF BeginCycle, TypeOK
<1>2. CASE Halt
  <2>1. LoopType'
    BY <1>2 DEF Halt, Throw, TypeOK, LoopType, StopReason
  <2> QED
    BY <1>2, <2>1, UnchangedType DEF Halt, TypeOK
<1>3. CASE UNCHANGED vars
  BY <1>3, UnchangedType DEF vars, TypeOK
<1> QED
  BY <1>1, <1>2, <1>3, FetchPropagateType, DecodePropagateType, ExecutePropagateType,
     MemoryPropagateType, WriteBackPropagateType, FetchClockPulseType,
     DecodeClockPulseType, ExecuteClockPulseType, MemoryClockPulseType,
     WriteBackClockPulseType DEF Next

(* Every variable of the processor always has its type: no handler produces  *)
(* a value its consumers cannot take, whatever the program, and DataMemory   *)
(* is never asked to write a size the bus does not have.                     *)
THEOREM TypeCorrect == Spec => []TypeOK
  BY InitType, NextType, PTL DEF Spec

----------------------------------------------------------------------------
(* What the buffers hold in the course of a cycle.                           *)

(* Stage s has propagated, and stage t has not had its clock pulse. *)
Between(s, t) == (phase = "propagate" /\ stage > s) \/ (phase = "clockPulse" /\ stage <= t)

CycleStart == Pipelining /\ phase = "loop" => stage = IF_

(* EX, MEM and WB hold what was in their pipeline register until the stage   *)
(* in front of them overwrites it.                                           *)
ExecuteMatches ==
  Pipelining /\ Between(EX, ID) =>
    /\ execute.PC = id_ex.PC
    /\ execute.rd = id_ex.instruction.rd
    /\ execute.control = id_ex.control

MemoryMatches ==
  Pipelining /\ Between(MEM, EX) => memoryStage.PC = ex_m.PC

WriteBackMatches ==
  Pipelining /\ Between(WB, MEM) =>
    /\ writeBack.rd = m_wb.rd
    /\ writeBack.writeData = WriteBackValue(m_wb)
    /\ writeBack.writeEnable = m_wb.control.regWrite

(* ID holds the operands as WB leaves them, and has asked for a bubble when  *)
(* the load in ID/EX is in its way.                                          *)
DecodeMatches ==
  Pipelining /\ Between(ID, ID) =>
    /\ decode.readData1 = FetchRegister(decode.instruction.rs1)
    /\ InstructionUsesRS2(decode.instruction.opcode) =>
         decode.readData2 = FetchRegister(decode.instruction.rs2)
    /\ LoadUseHazard(decode.instruction) => control.insertDecodeBubble

BuffersMatch ==
  CycleStart /\ ExecuteMatches /\ MemoryMatches /\ WriteBackMatches /\ DecodeMatches

(* With pipelining the handlers of a cycle come one after the other. *)
LEMMA PipelinedMoves ==
  ASSUME Pipelining
  PROVE  /\ BeginCycle => phase = "loop" /\ phase' = "propagate" /\ stage' = stage
         /\ Halt => phase' = "stopped"
         /\ FetchPropagate =>
              At("propagate", IF_) /\ (At("propagate", ID)' \/ phase' = "stopped")
         /\ DecodePropagate => At("propagate", ID) /\ At("propagate", EX)'
         /\ ExecutePropagate => At("propagate", EX) /\ At("propagate", MEM)'
         /\ MemoryPropagate =>
              At("propagate", MEM) /\ (At("propagate", WB)' \/ phase' = "stopped")
         /\ WriteBackPropagate => At("propagate", WB) /\ At("clockPulse", IF_)'
         /\ FetchClockPulse =>
              At("clockPulse", IF_) /\ (At("clockPulse", ID)' \/ phase' = "stopped")
         /\ DecodeClockPulse =>
              At("clockPulse", ID) /\ (At("clockPulse", EX)' \/ phase' = "stopped")
         /\ ExecuteClockPulse => At("clockPulse", EX) /\ At("clockPulse", MEM)'
         /\ MemoryClockPulse =>
              At("clockPulse", MEM) /\ (At("clockPulse", WB)' \/ phase' = "stopped")
         /\ WriteBackClockPulse => At("clockPulse", WB) /\ At("loop", IF_)'
<1>1. \A s \in Stages :
        /\ At("propagate", s) /\ EndPropagate =>
             IF s < WB THEN At("propagate", s + 1)' ELSE At("clockPulse", IF_)'
        /\ At("clockPulse", s) /\ EndClockPulse =>
             IF s < WB THEN At("clockPulse", s + 1)' ELSE At("loop", IF_)'
  BY DEF At, Stages, EndPropagate, EndClockPulse
<1>2. \A why : Throw(why) => phase' = "stopped"
  BY DEF Throw
<1>3. BeginCycle => phase = "loop" /\ phase' = "propagate" /\ stage' = stage
  BY DEF BeginCycle
<1>4. Halt => phase' = "stopped"
  BY <1>2 DEF Halt
<1>5. FetchPropagate =>
        At("propagate", IF_) /\ (At("propagate", ID)' \/ phase' = "stopped")
  BY <1>1, <1>2 DEF Stages, FetchPropagate, FetchNothing, FetchFails, FetchEndMarker,
                    FetchInstruction
<1>6. DecodePropagate => At("propagate", ID) /\ At("propagate", EX)'
  BY <1>1 DEF Stages, DecodePropagate
<1>7. ExecutePropagate => At("propagate", EX) /\ At("propagate", MEM)'
  BY <1>1 DEF Stages, ExecutePropagate
<1>8. MemoryPropagate =>
        At("propagate", MEM) /\ (At("propagate", WB)' \/ phase' = "stopped")
  BY <1>1, <1>2 DEF Stages, MemoryPropagate, NoMemoryAccess, MemoryAccess, MemoryFault
<1>9. WriteBackPropagate => At("propagate", WB) /\ At("clockPulse", IF_)'
  BY <1>1 DEF Stages, WriteBackPropagate
<1>10. FetchClockPulse =>
         At("clockPulse", IF_) /\ (At("clockPulse", ID)' \/ phase' = "stopped")
  BY <1>1, <1>2 DEF Stages, FetchClockPulse
<1>11. DecodeClockPulse =>
         At("clockPulse", ID) /\ (At("clockPulse", EX)' \/ phase' = "stopped")
  BY <1>1, <1>2 DEF Stages, DecodeClockPulse, DecodeSquash, DecodeIssue, DecodeIllegal
<1>12. ExecuteClockPulse => At("clockPulse", EX) /\ At("clockPulse", MEM)'
  BY <1>1 DEF Stages, ExecuteClockPulse
<1>13. MemoryClockPulse =>
         At("clockPulse", MEM) /\ (At("clockPulse", WB)' \/ phase' = "stopped")
  BY <1>1, <1>2 DEF Stages, MemoryClockPulse
<1>14. WriteBackClockPulse => At("clockPulse", WB) /\ At("loop", IF_)'
  BY <1>1 DEF Stages, WriteBackClockPulse
<1> QED
  BY <1>3, <1>4, <1>5, <1>6, <1>7, <1>8, <1>9, <1>10, <1>11, <1>12, <1>13, <1>14

(* No stage has propagated when the processor starts. *)
LEMMA InitBuffersMatch == Init => BuffersMatch
  BY DEF Init, BuffersMatch, CycleStart, ExecuteMatches, MemoryMatches, WriteBackMatches,
         DecodeMatches, Between

(* A buffer is filled from its pipeline register, and nothing changes either before the pulse. *)
LEMMA NextBuffersMatch == BuffersMatch /\ [Next]_vars => BuffersMatch'
<1> SUFFICES ASSUME BuffersMatch, Next, Pipelining PROVE BuffersMatch'
  <2>1. ~Pipelining => BuffersMatch'
    BY DEF BuffersMatch, CycleStart, ExecuteMatches, MemoryMatches, WriteBackMatches,
           DecodeMatches
  <2>2. BuffersMatch /\ UNCHANGED vars => BuffersMatch'
    BY DEF BuffersMatch, CycleStart, ExecuteMatches, MemoryMatches, WriteBackMatches,
           DecodeMatches, Between, FetchRegister, Writes, WriteBackValue, LoadUseHazard,
           vars, architecture, pipelineRegisters, buffers, loop
  <2> QED
    BY <2>1, <2>2
<1>1. CASE BeginCycle
  <2>1. ~Between(EX, ID)' /\ ~Between(MEM, EX)' /\ ~Between(WB, MEM)' /\ ~Between(ID, ID)'
    BY <1>1, PipelinedMoves DEF Between, BuffersMatch, CycleStart
  <2> QED
    BY <1>1, <2>1, PipelinedMoves
       DEF BuffersMatch, CycleStart, ExecuteMatches, MemoryMatches, WriteBackMatches,
           DecodeMatches
<1>2. CASE Halt
  <2>1. /\ CycleStart' /\ ~Between(EX, ID)' /\ ~Between(MEM, EX)'
        /\ ~Between(WB, MEM)' /\ ~Between(ID, ID)'
    BY <1>2, PipelinedMoves DEF CycleStart, Between, At
  <2> QED
    BY <2>1 DEF BuffersMatch, ExecuteMatches, MemoryMatches, WriteBackMatches, DecodeMatches
<1>3. CASE FetchPropagate
  <2>1. /\ CycleStart' /\ ~Between(EX, ID)' /\ ~Between(MEM, EX)'
        /\ ~Between(WB, MEM)' /\ ~Between(ID, ID)'
    BY <1>3, PipelinedMoves DEF CycleStart, Between, At
  <2> QED
    BY <2>1 DEF BuffersMatch, ExecuteMatches, MemoryMatches, WriteBackMatches, DecodeMatches
<1>4. CASE DecodePropagate
  <2>1. CycleStart' /\ ~Between(EX, ID)' /\ ~Between(MEM, EX)' /\ ~Between(WB, MEM)'
    BY <1>4, PipelinedMoves DEF CycleStart, Between, At
  <2>2. DecodeMatches'
    BY <1>4
       DEF BuffersMatch, DecodeMatches, DecodePropagate, FetchRegister, Writes,
           WriteBackValue, LoadUseHazard, architecture, pipelineRegisters
  <2> QED
    BY <2>1, <2>2 DEF BuffersMatch, ExecuteMatches, MemoryMatches, WriteBackMatches
<1>5. CASE ExecutePropagate
  <2>1. CycleStart' /\ ~Between(MEM, EX)' /\ ~Between(WB, MEM)'
    BY <1>5, PipelinedMoves DEF CycleStart, Between, At
  <2>2. ExecuteMatches'
    BY <1>5
       DEF BuffersMatch, ExecuteMatches, ExecutePropagate, architecture,
           pipelineRegisters
  <2>3. DecodeMatches'
    <3>1. Between(ID, ID)' => Between(ID, ID)
      BY <1>5, PipelinedMoves DEF Between, At
    <3> QED
      BY <1>5, <3>1
         DEF BuffersMatch, DecodeMatches, ExecutePropagate, FetchRegister, Writes,
             WriteBackValue, LoadUseHazard, architecture, pipelineRegisters, buffers
  <2> QED
    BY <2>1, <2>2, <2>3 DEF BuffersMatch, MemoryMatches, WriteBackMatches
<1>6. CASE MemoryPropagate
  <2>1. CycleStart' /\ ~Between(WB, MEM)'
    BY <1>6, PipelinedMoves DEF CycleStart, Between, At
  <2>2. ExecuteMatches'
    <3>1. Between(EX, ID)' => Between(EX, ID)
      BY <1>6, PipelinedMoves DEF Between, At
    <3> QED
      BY <1>6, <3>1
         DEF BuffersMatch, ExecuteMatches, MemoryPropagate, NoMemoryAccess, MemoryAccess,
             MemoryFault, PassThrough, architecture, pipelineRegisters, buffers
  <2>3. MemoryMatches'
    BY <1>6 DEF MemoryMatches, Between, MemoryPropagate, NoMemoryAccess, MemoryAccess,
                MemoryFault, Throw, PassThrough, pipelineRegisters
  <2>4. DecodeMatches'
    <3>1. Between(ID, ID)' => Between(ID, ID)
      BY <1>6, PipelinedMoves DEF Between, At
    <3> QED
      BY <1>6, <3>1
         DEF BuffersMatch, DecodeMatches, MemoryPropagate, NoMemoryAccess, MemoryAccess,
             MemoryFault, PassThrough, FetchRegister, Writes, WriteBackValue,
             LoadUseHazard, architecture, pipelineRegisters, buffers
  <2> QED
    BY <2>1, <2>2, <2>3, <2>4 DEF BuffersMatch, WriteBackMatches
<1>7. CASE WriteBackPropagate
  <2>1. CycleStart'
    BY <1>7, PipelinedMoves DEF CycleStart, Between, At
  <2>2. ExecuteMatches'
    <3>1. Between(EX, ID)' => Between(EX, ID)
      BY <1>7, PipelinedMoves DEF Between, At
    <3> QED
      BY <1>7, <3>1 DEF BuffersMatch, ExecuteMatches, WriteBackPropagate, architecture,
                         pipelineRegisters, buffers
  <2>3. MemoryMatches'
    <3>1. Between(MEM, EX)' => Between(MEM, EX)
      BY <1>7, PipelinedMoves DEF Between, At
    <3> QED
      BY <1>7, <3>1 DEF BuffersMatch, MemoryMatches, WriteBackPropagate, architecture,
                         pipelineRegisters, buffers
  <2>4. WriteBackMatches'
    BY <1>7
       DEF BuffersMatch, WriteBackMatches, WriteBackPropagate, WriteBackValue,
           architecture, pipelineRegisters
  <2>5. DecodeMatches'
    <3>1. Between(ID, ID)' => Between(ID, ID)
      BY <1>7, PipelinedMoves DEF Between, At
    <3> QED
      BY <1>7, <3>1
         DEF BuffersMatch, DecodeMatches, WriteBackPropagate, FetchRegister, Writes,
             WriteBackValue, LoadUseHazard, architecture, pipelineRegisters, buffers
  <2> QED
    BY <2>1, <2>2, <2>3, <2>4, <2>5 DEF BuffersMatch
<1>8. CASE FetchClockPulse
  <2>1. CycleStart'
    BY <1>8, PipelinedMoves DEF CycleStart, Between, At
  <2>2. ExecuteMatches'
    <3>1. Between(EX, ID)' => Between(EX, ID)
      BY <1>8, PipelinedMoves DEF Between, At
    <3> QED
      BY <1>8, <3>1 DEF BuffersMatch, ExecuteMatches, FetchClockPulse, architecture,
                         pipelineRegisters, buffers
  <2>3. MemoryMatches'
    <3>1. Between(MEM, EX)' => Between(MEM, EX)
      BY <1>8, PipelinedMoves DEF Between, At
    <3> QED
      BY <1>8, <3>1 DEF BuffersMatch, MemoryMatches, FetchClockPulse, architecture,
                         pipelineRegisters, buffers
  <2>4. WriteBackMatches'
    <3>1. Between(WB, MEM)' => Between(WB, MEM)
      BY <1>8, PipelinedMoves DEF Between, At
    <3> QED
      BY <1>8, <3>1
         DEF BuffersMatch, WriteBackMatches, FetchClockPulse, WriteBackValue,
             architecture, pipelineRegisters, buffers
  <2>5. DecodeMatches'
    <3>1. Between(ID, ID)' => Between(ID, ID)
      BY <1>8, PipelinedMoves DEF Between, At
    <3> QED
      BY <1>8, <3>1
         DEF BuffersMatch, DecodeMatches, FetchClockPulse, FetchRegister, Writes,
             WriteBackValue, LoadUseHazard, architecture, pipelineRegisters, buffers
  <2> QED
    BY <2>1, <2>2, <2>3, <2>4, <2>5 DEF BuffersMatch
<1>9. CASE DecodeClockPulse
  <2>1. CycleStart' /\ ~Between(EX, ID)' /\ ~Between(ID, ID)'
    BY <1>9, PipelinedMoves DEF CycleStart, Between, At
  <2>2. MemoryMatches'
    <3>1. Between(MEM, EX)' => Between(MEM, EX)
      BY <1>9, PipelinedMoves DEF Between, At
    <3> QED
      BY <1>9, <3>1 DEF BuffersMatch, MemoryMatches, DecodeClockPulse, architecture,
                         pipelineRegisters, buffers
  <2>3. WriteBackMatches'
    <3>1. Between(WB, MEM)' => Between(WB, MEM)
      BY <1>9, PipelinedMoves DEF Between, At
    <3> QED
      BY <1>9, <3>1
         DEF BuffersMatch, WriteBackMatches, DecodeClockPulse, WriteBackValue,
             architecture, pipelineRegisters, buffers
  <2> QED
    BY <2>1, <2>2, <2>3 DEF BuffersMatch, ExecuteMatches, DecodeMatches
<1>10. CASE ExecuteClockPulse
  <2>1. CycleStart' /\ ~Between(EX, ID)' /\ ~Between(MEM, EX)' /\ ~Between(ID, ID)'
    BY <1>10, PipelinedMoves DEF CycleStart, Between, At
  <2>2. WriteBackMatches'
    <3>1. Between(WB, MEM)' => Between(WB, MEM)
      BY <1>10, PipelinedMoves DEF Between, At
    <3> QED
      BY <1>10, <3>1
         DEF BuffersMatch, WriteBackMatches, ExecuteClockPulse, WriteBackValue,
             architecture, pipelineRegisters, buffers
  <2> QED
    BY <2>1, <2>2 DEF BuffersMatch, ExecuteMatches, MemoryMatches, DecodeMatches
<1>11. CASE MemoryClockPulse
  <2>1. /\ CycleStart' /\ ~Between(EX, ID)' /\ ~Between(MEM, EX)'
        /\ ~Between(WB, MEM)' /\ ~Between(ID, ID)'
    BY <1>11, PipelinedMoves DEF CycleStart, Between, At
  <2> QED
    BY <2>1 DEF BuffersMatch, ExecuteMatches, MemoryMatches, WriteBackMatches, DecodeMatches
<1>12. CASE WriteBackClockPulse
  <2>1. /\ CycleStart' /\ ~Between(EX, ID)' /\ ~Between(MEM, EX)'
        /\ ~Between(WB, MEM)' /\ ~Between(ID, ID)'
    BY <1>12, PipelinedMoves DEF CycleStart, Between, At
  <2> QED
    BY <2>1 DEF BuffersMatch, ExecuteMatches, MemoryMatches, WriteBackMatches, DecodeMatches
<1> QED
  BY <1>1, <1>2, <1>3, <1>4, <1>5, <1>6, <1>7, <1>8, <1>9, <1>10, <1>11, <1>12 DEF Next

----------------------------------------------------------------------------
(* No instruction is lost or doubled.                                        *)

(* Nothing is issued and nothing is held when the processor starts. *)
LEMMA InitConserved == Init => InstructionsConserved
  BY ModeAssumption
     DEF Init, InstructionsConserved, InFlight, Unpulsed, Occupied, At, EmptyDecode,
         EmptyExecute, EmptyMemory

(* With pipelining ID counts what it issues and WB what MEM/WB holds. *)
LEMMA PipelinedConserved ==
  ASSUME TypeOK, BuffersMatch, InstructionsConserved, Next, Pipelining
  PROVE  InstructionsConserved'
<1>1. nInstrIssued \in Nat /\ nInstrCompleted \in Nat
  BY DEF TypeOK, StatisticsType
<1>2. \A a : Occupied(a) \in {0, 1}
  BY DEF Occupied
<1>3. SUFFICES ASSUME phase' # "stopped"
               PROVE  nInstrIssued' = nInstrCompleted' + InFlight'
  BY DEF InstructionsConserved
<1>4. phase # "stopped" => nInstrIssued = nInstrCompleted + InFlight
  BY DEF InstructionsConserved
<1> USE DEF InFlight, Unpulsed
<1>5. CASE BeginCycle
  BY <1>4, <1>5, PipelinedMoves DEF BeginCycle, pipelineRegisters, statistics
<1>6. CASE Halt
  BY <1>3, <1>6, PipelinedMoves
<1>7. CASE FetchPropagate \/ DecodePropagate \/ ExecutePropagate \/ MemoryPropagate
  <2>1. phase = "propagate" /\ phase' = "propagate"
    BY <1>3, <1>7, PipelinedMoves DEF At
  <2>2. UNCHANGED <<id_ex, ex_m, m_wb, nInstrIssued, nInstrCompleted>>
    BY <1>7 DEF FetchPropagate, DecodePropagate, ExecutePropagate, MemoryPropagate,
                pipelineRegisters, statistics
  <2> QED
    BY <1>4, <2>1, <2>2 DEF Occupied
<1>8. CASE WriteBackPropagate
  <2>1. At("propagate", WB) /\ At("clockPulse", IF_)'
    BY <1>8, PipelinedMoves
  <2>2. execute'.PC = id_ex.PC /\ memoryStage'.PC = ex_m.PC
    BY <1>8, <2>1 DEF WriteBackPropagate, BuffersMatch, ExecuteMatches, MemoryMatches,
                      Between, At
  <2>3. nInstrCompleted' = nInstrCompleted + Occupied(m_wb.PC) /\ nInstrIssued' = nInstrIssued
    BY <1>1, <1>8 DEF WriteBackPropagate, Occupied
  <2> QED
    BY <1>1, <1>2, <1>4, <2>1, <2>2, <2>3 DEF At
<1>9. CASE FetchClockPulse
  BY <1>3, <1>4, <1>9, PipelinedMoves DEF FetchClockPulse, At, statistics
<1>10. CASE DecodeClockPulse
  <2>1. At("clockPulse", ID) /\ At("clockPulse", EX)'
    BY <1>3, <1>10, PipelinedMoves
  <2>2. UNCHANGED <<execute, memoryStage, nInstrCompleted>>
    BY <1>10 DEF DecodeClockPulse, buffers
  <2>3. nInstrIssued' = nInstrIssued + Occupied(id_ex'.PC)
    BY <1>1, <1>3, <1>10
       DEF DecodeClockPulse, DecodeSquash, DecodeIssue, DecodeIllegal, CountIssued,
           EmptyDecode, Occupied, Throw
  <2> QED
    BY <1>1, <1>2, <1>4, <2>1, <2>2, <2>3 DEF At
<1>11. CASE ExecuteClockPulse
  <2>1. At("clockPulse", EX) /\ At("clockPulse", MEM)'
    BY <1>11, PipelinedMoves
  <2> QED
    BY <1>4, <1>11, <2>1 DEF ExecuteClockPulse, At, statistics, Occupied
<1>12. CASE MemoryClockPulse
  <2>1. At("clockPulse", MEM) /\ At("clockPulse", WB)'
    BY <1>3, <1>12, PipelinedMoves
  <2>2. m_wb' = memoryStage
    BY <1>3, <1>12 DEF MemoryClockPulse, Throw
  <2> QED
    BY <1>4, <1>12, <2>1, <2>2 DEF MemoryClockPulse, At, buffers, statistics, Occupied
<1>13. CASE WriteBackClockPulse
  <2>1. At("clockPulse", WB) /\ At("loop", IF_)'
    BY <1>13, PipelinedMoves
  <2> QED
    BY <1>4, <1>13, <2>1
       DEF WriteBackClockPulse, At, pipelineRegisters, statistics, Occupied
<1> QED
  BY <1>5, <1>6, <1>7, <1>8, <1>9, <1>10, <1>11, <1>12, <1>13 DEF Next

(* Without pipelining the one instruction in the processor counts as issued  *)
(* from its ID until its WB.                                                 *)
LEMMA SequentialConserved ==
  ASSUME TypeOK, InstructionsConserved, Next, ~Pipelining
  PROVE  InstructionsConserved'
<1>1. nInstrIssued \in Nat /\ nInstrCompleted \in Nat /\ stage \in Stages
  BY DEF TypeOK, StatisticsType, LoopType
<1>2. SUFFICES ASSUME phase' # "stopped"
               PROVE  nInstrIssued' = nInstrCompleted' + InFlight'
  BY DEF InstructionsConserved
<1>3. phase # "stopped" => nInstrIssued = nInstrCompleted + InFlight
  BY DEF InstructionsConserved
<1> USE <1>1, <1>2, <1>3 DEF InFlight, At, Stages, EndPropagate, EndClockPulse, Throw, statistics
<1>4. CASE BeginCycle
  BY <1>4 DEF BeginCycle
<1>5. CASE Halt
  BY <1>5 DEF Halt
<1>6. CASE FetchPropagate
  BY <1>6 DEF FetchPropagate, FetchNothing, FetchFails, FetchEndMarker, FetchInstruction
<1>7. CASE DecodePropagate
  BY <1>7 DEF DecodePropagate
<1>8. CASE ExecutePropagate
  BY <1>8 DEF ExecutePropagate
<1>9. CASE MemoryPropagate
  BY <1>9 DEF MemoryPropagate, NoMemoryAccess, MemoryAccess, MemoryFault
<1>10. CASE WriteBackPropagate
  BY <1>10 DEF WriteBackPropagate
<1>11. CASE FetchClockPulse
  BY <1>11 DEF FetchClockPulse
<1>12. CASE DecodeClockPulse
  BY <1>12
     DEF DecodeClockPulse, DecodeSquash, DecodeIssue, DecodeIllegal, CountIssued,
         Squashed
<1>13. CASE ExecuteClockPulse
  BY <1>13 DEF ExecuteClockPulse
<1>14. CASE MemoryClockPulse
  BY <1>14 DEF MemoryClockPulse
<1>15. CASE WriteBackClockPulse
  BY <1>15 DEF WriteBackClockPulse
<1> QED
  BY <1>4, <1>5, <1>6, <1>7, <1>8, <1>9, <1>10, <1>11, <1>12, <1>13, <1>14, <1>15 DEF Next

(* A stutter loses nothing. *)
LEMMA UnchangedConserved == InstructionsConserved /\ UNCHANGED vars => InstructionsConserved'
  BY DEF InstructionsConserved, InFlight, Unpulsed, Occupied, At, vars, pipelineRegisters,
         buffers, loop, statistics

(* In every step of every run, in both modes, the instructions counted as    *)
(* issued are those counted as completed and those the stages hold: stalls,  *)
(* bubbles and flushes neither lose an instruction past ID nor double one.   *)
THEOREM Conservation == Spec => []InstructionsConserved
<1> DEFINE Inv == TypeOK /\ BuffersMatch /\ InstructionsConserved
<1>1. Init => Inv
  BY InitType, InitBuffersMatch, InitConserved
<1>2. Inv /\ [Next]_vars => Inv'
  BY NextType, NextBuffersMatch, PipelinedConserved, SequentialConserved,
     UnchangedConserved, ModeAssumption
<1> QED
  BY <1>1, <1>2, PTL DEF Spec

----------------------------------------------------------------------------
(* EX computes with the values of program order.                             *)

(* A register as the instructions before MEM leave it: WB writes it late.    *)
SettledRegister(r) ==
  CASE phase = "clockPulse" /\ stage \in {EX, MEM} -> FetchRegister(r)
    [] At("clockPulse", WB) /\ writeBack.writeEnable /\ writeBack.rd # 0 /\ writeBack.rd = r ->
         writeBack.writeData
    [] OTHER -> ReadRegister(registers, r)

(* The operands in ID/EX are those, whichever stage has had its clock pulse. *)
OperandsRead ==
  phase # "stopped" =>
    /\ id_ex.readData1 = SettledRegister(id_ex.instruction.rs1)
    /\ InstructionUsesRS2(id_ex.instruction.opcode) =>
         id_ex.readData2 = SettledRegister(id_ex.instruction.rs2)

(* The instruction in ID/EX does not need what a load in front of it reads.  *)
LoadUseFree(signals, rd) ==
  signals.memRead /\ rd # 0 =>
    /\ rd # id_ex.instruction.rs1
    /\ InstructionUsesRS2(id_ex.instruction.opcode) => rd # id_ex.instruction.rs2

LoadsKeptAway ==
  /\ At("clockPulse", EX) => LoadUseFree(execute.control, execute.rd)
  /\ phase \in {"loop", "propagate"} \/ (phase = "clockPulse" /\ stage \in {MEM, WB}) =>
       LoadUseFree(ex_m.control, ex_m.rd)

(* Exactly the loads write what they read. *)
LoadSignals ==
  /\ id_ex.control.memToReg = id_ex.control.memRead
  /\ execute.control.memToReg = execute.control.memRead
  /\ ex_m.control.memToReg = ex_m.control.memRead

OperandsInv == Pipelining => OperandsRead /\ LoadsKeptAway /\ LoadSignals

(* The processor starts with three empty stages. *)
LEMMA InitOperands == Init => OperandsInv
<1> SUFFICES ASSUME Init PROVE OperandsInv
  OBVIOUS
<1>1. /\ id_ex.readData1 = 0 /\ id_ex.readData2 = 0
      /\ id_ex.instruction.rs1 = 0 /\ id_ex.instruction.rs2 = 0
      /\ id_ex.control = NoSignals /\ execute.control = NoSignals /\ ex_m.control = NoSignals
  BY DEF Init, EmptyDecode, EmptyExecute, NopInstruction
<1>2. phase = "loop"
  BY DEF Init
<1>3. OperandsRead
  BY <1>1, <1>2 DEF OperandsRead, SettledRegister, ReadRegister, At
<1>4. LoadsKeptAway /\ LoadSignals
  BY <1>1, <1>2 DEF LoadsKeptAway, LoadUseFree, LoadSignals, NoSignals, At
<1> QED
  BY <1>3, <1>4 DEF OperandsInv

(* Exactly the loads write what they read, as long as the code runs. *)
LEMMA NextLoadSignals == TypeOK /\ LoadSignals /\ [Next]_vars => LoadSignals'
<1> SUFFICES ASSUME TypeOK, LoadSignals, [Next]_vars PROVE LoadSignals'
  OBVIOUS
<1>1. UNCHANGED <<id_ex, execute, ex_m>> => LoadSignals'
  BY DEF LoadSignals
<1>2. CASE ExecutePropagate
  BY <1>2 DEF ExecutePropagate, LoadSignals, pipelineRegisters
<1>3. CASE DecodeClockPulse
  <2>1. CASE DecodeSquash
    BY <1>3, <2>1
       DEF DecodeClockPulse, DecodeSquash, LoadSignals, EmptyDecode, NoSignals, buffers
  <2>2. CASE DecodeIssue
    <3>1. SetFromInstruction(decode.instruction).memToReg
            = SetFromInstruction(decode.instruction).memRead
      BY DEF SetFromInstruction
    <3> QED
      BY <1>3, <2>2, <3>1 DEF DecodeClockPulse, DecodeIssue, LoadSignals, buffers
  <2>3. CASE DecodeIllegal
    BY <1>3, <2>3 DEF DecodeClockPulse, DecodeIllegal, LoadSignals, buffers, TypeOK,
                      PipelineRegistersType, ID_EXRegisters
  <2> QED
    BY <1>3, <2>1, <2>2, <2>3 DEF DecodeClockPulse
<1>4. CASE ExecuteClockPulse
  BY <1>4 DEF ExecuteClockPulse, LoadSignals
<1> QED
  BY <1>1, <1>2, <1>3, <1>4
     DEF Next, BeginCycle, Halt, FetchPropagate, DecodePropagate, MemoryPropagate,
         WriteBackPropagate, FetchClockPulse, MemoryClockPulse, WriteBackClockPulse, vars,
         pipelineRegisters, buffers

(* Between two clock pulses of WB and ID nothing touches the operands. *)
LEMMA OperandsUntouched ==
  ASSUME OperandsInv, Pipelining, UNCHANGED <<id_ex, ex_m, registers>>,
         phase \in {"loop", "propagate"} \/ At("clockPulse", IF_),
         \/ phase \in {"loop", "propagate"} /\ phase' = "propagate"
         \/ phase' = "stopped"
         \/ At("clockPulse", IF_)' \/ At("clockPulse", ID)',
         LoadSignals'
  PROVE  OperandsInv'
<1>1. SettledRegister(id_ex.instruction.rs1) = ReadRegister(registers, id_ex.instruction.rs1)
      /\ SettledRegister(id_ex.instruction.rs2) = ReadRegister(registers, id_ex.instruction.rs2)
  BY DEF SettledRegister, At
<1>2. phase' # "stopped" =>
        \A r : SettledRegister(r)' = ReadRegister(registers, r)'
  BY DEF SettledRegister, At
<1>3. OperandsRead'
  BY <1>1, <1>2 DEF OperandsInv, OperandsRead, At
<1>4. LoadsKeptAway'
  BY DEF OperandsInv, LoadsKeptAway, LoadUseFree, At
<1> QED
  BY <1>3, <1>4 DEF OperandsInv

(* Every handler keeps the operands right; ID, EX, MEM and WB have to work   *)
(* for it when they receive the clock pulse.                                 *)
LEMMA NextOperands == TypeOK /\ BuffersMatch /\ OperandsInv /\ [Next]_vars => OperandsInv'
<1> SUFFICES ASSUME TypeOK, BuffersMatch, OperandsInv, Next, Pipelining PROVE OperandsInv'
  <2>1. ~Pipelining => OperandsInv'
    BY DEF OperandsInv
  <2>2. OperandsInv /\ UNCHANGED vars => OperandsInv'
    BY DEF OperandsInv, OperandsRead, SettledRegister, FetchRegister, Writes,
           WriteBackValue, LoadsKeptAway, LoadUseFree, LoadSignals, At, vars, architecture,
           pipelineRegisters, buffers, loop
  <2> QED
    BY <2>1, <2>2
<1>1. LoadSignals'
  BY NextLoadSignals DEF OperandsInv
<1>2. CASE BeginCycle \/ FetchPropagate \/ DecodePropagate \/ ExecutePropagate
           \/ MemoryPropagate \/ WriteBackPropagate \/ FetchClockPulse
  <2>1. UNCHANGED <<id_ex, ex_m, registers>>
    BY <1>2 DEF BeginCycle, FetchPropagate, DecodePropagate, ExecutePropagate,
                MemoryPropagate, WriteBackPropagate, FetchClockPulse, architecture,
                pipelineRegisters
  <2> QED
    BY <1>1, <1>2, <2>1, PipelinedMoves, OperandsUntouched DEF At
<1>3. CASE phase' = "stopped"
  BY <1>1, <1>3 DEF OperandsInv, OperandsRead, LoadsKeptAway, At
<1>4. CASE DecodeClockPulse /\ phase' # "stopped"
  <2>1. At("clockPulse", ID) /\ At("clockPulse", EX)'
    BY <1>4, PipelinedMoves
  <2>2. UNCHANGED <<registers, m_wb, execute>>
    BY <1>4 DEF DecodeClockPulse, architecture, buffers
  <2>3. \A r : SettledRegister(r)' = FetchRegister(r)
    BY <2>1, <2>2 DEF SettledRegister, FetchRegister, Writes, WriteBackValue, At
  <2>4. CASE DecodeSquash
    <3>1. id_ex'.instruction.rs1 = 0 /\ id_ex'.instruction.rs2 = 0
          /\ id_ex'.readData1 = 0 /\ id_ex'.readData2 = 0
      BY <2>4 DEF DecodeSquash, EmptyDecode, NopInstruction
    <3>2. FetchRegister(0) = 0
      BY DEF FetchRegister, Writes, ReadRegister
    <3> QED
      BY <1>1, <2>1, <2>3, <3>1, <3>2
         DEF OperandsInv, OperandsRead, LoadsKeptAway, LoadUseFree, At
  <2>5. CASE DecodeIssue
    <3>1. id_ex'.instruction = decode.instruction /\ id_ex'.readData1 = decode.readData1
          /\ id_ex'.readData2 = decode.readData2
      BY <2>5 DEF DecodeIssue
    <3>2. ~LoadUseHazard(decode.instruction)
      BY <2>1, <2>5 DEF DecodeIssue, Squashed, BuffersMatch, DecodeMatches, Between, At
    <3>3. execute.control = id_ex.control /\ execute.rd = id_ex.instruction.rd
      BY <2>1 DEF BuffersMatch, ExecuteMatches, Between, At
    <3>4. LoadUseFree(execute.control, execute.rd)'
      BY <2>2, <3>1, <3>2, <3>3 DEF LoadUseFree, LoadUseHazard
    <3>5. OperandsRead'
      BY <2>1, <2>3, <3>1 DEF OperandsRead, BuffersMatch, DecodeMatches, Between, At
    <3> QED
      BY <1>1, <2>1, <3>4, <3>5 DEF OperandsInv, LoadsKeptAway, At
  <2>6. ~DecodeIllegal
    BY <1>4 DEF DecodeIllegal, Throw
  <2> QED
    BY <1>4, <2>4, <2>5, <2>6 DEF DecodeClockPulse
<1>5. CASE ExecuteClockPulse
  <2>1. At("clockPulse", EX) /\ At("clockPulse", MEM)'
    BY <1>5, PipelinedMoves
  <2>2. UNCHANGED <<registers, m_wb, id_ex>>
        /\ ex_m'.control = execute.control /\ ex_m'.rd = execute.rd
    BY <1>5 DEF ExecuteClockPulse
  <2>3. OperandsRead'
    BY <2>1, <2>2 DEF OperandsInv, OperandsRead, SettledRegister, FetchRegister, Writes,
                      WriteBackValue, At
  <2>4. LoadsKeptAway'
    BY <2>1, <2>2 DEF OperandsInv, LoadsKeptAway, LoadUseFree, At
  <2> QED
    BY <1>1, <2>3, <2>4 DEF OperandsInv
<1>6. CASE MemoryClockPulse /\ phase' # "stopped"
  <2>1. At("clockPulse", MEM) /\ At("clockPulse", WB)'
    BY <1>6, PipelinedMoves
  <2>2. UNCHANGED <<registers, writeBack, id_ex, ex_m>>
    BY <1>6 DEF MemoryClockPulse, buffers
  <2>3. \A r : SettledRegister(r)' = FetchRegister(r)
    BY <2>1, <2>2
       DEF SettledRegister, FetchRegister, Writes, BuffersMatch, WriteBackMatches,
           Between, At
  <2>4. \A r : SettledRegister(r) = FetchRegister(r)
    BY <2>1 DEF SettledRegister, At
  <2>5. OperandsRead'
    BY <2>1, <2>2, <2>3, <2>4 DEF OperandsInv, OperandsRead, At
  <2>6. LoadsKeptAway'
    BY <2>1, <2>2 DEF OperandsInv, LoadsKeptAway, LoadUseFree, At
  <2> QED
    BY <1>1, <2>5, <2>6 DEF OperandsInv
<1>7. CASE WriteBackClockPulse
  <2>1. At("clockPulse", WB) /\ At("loop", IF_)'
    BY <1>7, PipelinedMoves
  <2>2. UNCHANGED <<id_ex, ex_m>>
    BY <1>7 DEF WriteBackClockPulse, pipelineRegisters
  <2>3. \A r \in RegNumber : SettledRegister(r)' = SettledRegister(r)
    <3>1. TAKE r \in RegNumber
    <3>2. SettledRegister(r)' = ReadRegister(registers', r)
      BY <2>1 DEF SettledRegister, At
    <3>3. SettledRegister(r) =
            IF writeBack.writeEnable /\ writeBack.rd # 0 /\ writeBack.rd = r
              THEN writeBack.writeData ELSE ReadRegister(registers, r)
      BY <2>1 DEF SettledRegister, At
    <3>4. registers \in RegisterArray /\ r \in 0 .. NumRegs - 1
          /\ writeBack.rd \in 0 .. NumRegs - 1
      BY DEF TypeOK, ArchitectureType, BuffersType, RegNumber
    <3>5. CASE ~writeBack.writeEnable
      BY <1>7, <3>2, <3>3, <3>5 DEF WriteBackClockPulse
    <3>6. CASE writeBack.writeEnable
      <4>1. registers' = WriteRegister(registers, writeBack.rd, writeBack.writeData)
        BY <1>7, <3>6 DEF WriteBackClockPulse
      <4> QED
        BY <3>2, <3>3, <3>4, <3>6, <4>1, NumRegsAssumption
           DEF WriteRegister, ReadRegister, RegisterArray
    <3> QED
      BY <3>5, <3>6
  <2>4. id_ex.instruction.rs1 \in RegNumber /\ id_ex.instruction.rs2 \in RegNumber
    BY DEF TypeOK, PipelineRegistersType, ID_EXRegisters, Instruction
  <2>5. OperandsRead'
    BY <2>1, <2>2, <2>3, <2>4 DEF OperandsInv, OperandsRead, At
  <2>6. LoadsKeptAway'
    BY <2>1, <2>2 DEF OperandsInv, LoadsKeptAway, LoadUseFree, At
  <2> QED
    BY <1>1, <2>5, <2>6 DEF OperandsInv
<1> QED
  BY <1>2, <1>3, <1>4, <1>5, <1>6, <1>7, PipelinedMoves DEF Next

(* Reading a register after a write gives the value or what was there. *)
LEMMA ReadAfterWrite ==
  ASSUME NEW file \in RegisterArray, NEW r \in RegNumber, NEW rd \in RegNumber, NEW w
  PROVE  ReadRegister(WriteRegister(file, rd, w), r) =
           IF r = rd /\ r # 0 THEN w ELSE ReadRegister(file, r)
  BY NumRegsAssumption DEF ReadRegister, WriteRegister, RegisterArray, RegNumber

(* The operands in ID/EX and the two forwarding paths give the value of      *)
(* program order.                                                            *)
LEMMA OperandsInvSuffices == TypeOK /\ OperandsInv => OperandsAreCurrent
<1> SUFFICES ASSUME TypeOK, OperandsInv, Pipelining, phase \in {"loop", "propagate"}
             PROVE  LET i == id_ex.instruction IN
                      /\ OperandIsCurrent(i.rs1, Rs1Value)
                      /\ InstructionUsesRS2(i.opcode) => OperandIsCurrent(i.rs2, Rs2Value)
  BY DEF OperandsAreCurrent
<1> DEFINE i == id_ex.instruction
<1>1. \A r : SettledRegister(r) = ReadRegister(registers, r)
  BY DEF SettledRegister, At
<1>2. id_ex.readData1 = ReadRegister(registers, i.rs1)
      /\ (InstructionUsesRS2(i.opcode) => id_ex.readData2 = ReadRegister(registers, i.rs2))
  BY <1>1 DEF OperandsInv, OperandsRead
<1>3. ASSUME NEW r \in RegNumber, Writes(ex_m) /\ ex_m.rd = r => ~ex_m.control.memToReg
      PROVE  OperandIsCurrent(r, Forwarded(r, ReadRegister(registers, r)))
  <2>1. m_wb.rd \in RegNumber /\ registers \in RegisterArray
    BY DEF TypeOK, PipelineRegistersType, M_WBRegisters, ArchitectureType
  <2>2. ReadRegister(WriteRegister(registers, m_wb.rd, WriteBackValue(m_wb)), r) =
          IF r = m_wb.rd /\ r # 0 THEN WriteBackValue(m_wb) ELSE ReadRegister(registers, r)
    BY <2>1, ReadAfterWrite
  <2> QED
    BY <1>3, <2>2 DEF OperandIsCurrent, ArchitecturalValue, Forwarded, Writes
<1>4. i.rs1 \in RegNumber /\ i.rs2 \in RegNumber
  BY DEF TypeOK, PipelineRegistersType, ID_EXRegisters, Instruction
<1>5. LoadUseFree(ex_m.control, ex_m.rd) /\ ex_m.control.memToReg = ex_m.control.memRead
  BY DEF OperandsInv, LoadsKeptAway, LoadSignals
<1>6. OperandIsCurrent(i.rs1, Rs1Value)
  BY <1>2, <1>3, <1>4, <1>5 DEF LoadUseFree, Writes, Rs1Value
<1>7. InstructionUsesRS2(i.opcode) => OperandIsCurrent(i.rs2, Rs2Value)
  BY <1>2, <1>3, <1>4, <1>5 DEF LoadUseFree, Writes, Rs2Value
<1> QED
  BY <1>6, <1>7

(* With pipelining EX computes with the value every source register has in   *)
(* program order: the forwarding paths of ID and EX and the load-use stall   *)
(* together cover every distance and every combination of instructions.      *)
THEOREM OperandsCorrect == Spec => []OperandsAreCurrent
<1> DEFINE Inv == TypeOK /\ BuffersMatch /\ OperandsInv
<1>1. Init => Inv
  BY InitType, InitBuffersMatch, InitOperands
<1>2. Inv /\ [Next]_vars => Inv'
  BY NextType, NextBuffersMatch, NextOperands
<1>3. Inv => OperandsAreCurrent
  BY OperandsInvSuffices
<1> QED
  BY <1>1, <1>2, <1>3, PTL DEF Spec

----------------------------------------------------------------------------
(* What the proofs of both modes share: what an instruction computes, where  *)
(* it goes on and what it changes, as functions of the operands, and that    *)
(* EX computes the former and the hart of module Hart does the latter.       *)

(* What an instruction at a, with the values u and v of its source           *)
(* registers, leaves in EX/MEM. *)
Computed(i, a, u, v) ==
  CASE i.opcode \in {"JAL", "JALR"}           -> Wrap(a + 4)
    [] i.opcode = "AUIPC"                     -> Wrap(a + i.imm)
    [] i.opcode = "LUI"                       -> Wrap(i.imm)
    [] i.opcode \in {"LOAD", "STORE"}         -> Wrap(u + i.imm)
    [] i.opcode \in {"OP_IMM", "OP_IMM_32"}   -> ALU(AluOperation(i), u, Wrap(i.imm))
    [] i.opcode \in {"OP", "OP_32", "BRANCH"} -> ALU(AluOperation(i), u, v)

Redirects(i, u, v) ==
  \/ i.opcode \in {"JAL", "JALR"}
  \/ i.opcode = "BRANCH" /\ EvaluateBranch(i.funct3, u, v)

(* The address of the instruction the program executes after it. *)
NextAddress(i, a, u, v) ==
  IF Redirects(i, u, v)
    THEN IF i.opcode = "JALR" THEN JumpRegisterTarget(u, i.imm)
         ELSE ComputePCRelativeTarget(a, i.imm)
    ELSE Wrap(a + 4)

(* What it writes to rd, if it writes it. *)
Result(i, a, u, v, mem) ==
  IF i.opcode = "LOAD" THEN Load(mem, Wrap(u + i.imm), AccessSize(i), i.funct3 < 3)
  ELSE Computed(i, a, u, v)

ChangesRegister(i) == i.opcode \notin {"STORE", "BRANCH"}

(* The step of the hart: instruction i at a takes it from registers, memory  *)
(* and output to others, at the address a2, and halts the machine or not.    *)
Executes(i, a, regs, mem, out, a2, regs2, mem2, out2, halts) ==
  LET u == ReadRegister(regs, i.rs1)
      v == ReadRegister(regs, i.rs2)
      size == AccessSize(i)
      address == Wrap(u + i.imm)
      client == Access(address, size, TRUE)
  IN
    /\ a2 = NextAddress(i, a, u, v)
    /\ regs2 = IF ChangesRegister(i) THEN WriteRegister(regs, i.rd, Result(i, a, u, v, mem))
               ELSE regs
    /\ i.opcode = "LOAD" => size # 0 /\ Access(address, size, FALSE) # "illegal"
    /\ IF i.opcode = "STORE"
         THEN /\ size # 0 /\ client # "illegal"
              /\ mem2 = IF client = "memory" THEN Store(mem, address, size, v) ELSE mem
              /\ out2 = IF client = "serial" THEN Append(out, LowByte(v)) ELSE out
              /\ halts = (client = "sysStatus")
         ELSE mem2 = mem /\ out2 = out /\ halts = FALSE

----------------------------------------------------------------------------
(* Arithmetic of words.                                                      *)

(* There is one remainder. *)
LEMMA RemainderUnique ==
  ASSUME NEW x \in Int, NEW q \in Int, NEW r \in Word, x = Modulus * q + r
  PROVE  Wrap(x) = r
<1> DEFINE p == x \div Modulus
           s == x % Modulus
<1>1. p \in Int /\ s \in Int /\ 0 <= s /\ s < Modulus /\ x = Modulus * p + s
  BY ModulusAssumption
<1>2. r \in Int /\ 0 <= r /\ r < Modulus
  BY ModulusAssumption DEF Word
<1> HIDE DEF p, s
<1>3. Modulus * (p - q) = r - s
  BY <1>1, <1>2, ModulusAssumption
<1>4. \A d \in Int : d >= 1 => Modulus * d >= Modulus
  BY ModulusAssumption
<1>5. ~(p - q >= 1)
  BY <1>1, <1>2, <1>3, <1>4, ModulusAssumption
<1>6. ~(q - p >= 1)
  <2>1. Modulus * (q - p) = s - r
    BY <1>1, <1>2, ModulusAssumption
  <2> QED
    BY <2>1, <1>1, <1>2, <1>4, ModulusAssumption
<1>7. p = q
  BY <1>1, <1>5, <1>6
<1> QED
  BY <1>1, <1>2, <1>7, ModulusAssumption DEF s, Wrap

(* A word is its own remainder. *)
LEMMA WrapWord == \A w \in Word : Wrap(w) = w
<1> SUFFICES ASSUME NEW w \in Word PROVE Wrap(w) = w
  OBVIOUS
<1>1. w \in Int /\ 0 \in Int /\ w = Modulus * 0 + w
  BY ModulusAssumption DEF Word
<1> QED
  BY <1>1, RemainderUnique

(* Wrapping a summand first does not change the wrapped sum. *)
LEMMA WrapSum == \A u \in Word, k \in Int : (u + Wrap(k)) % Modulus = Wrap(u + k)
<1> SUFFICES ASSUME NEW u \in Word, NEW k \in Int
             PROVE  (u + Wrap(k)) % Modulus = Wrap(u + k)
  OBVIOUS
<1> DEFINE q == k \div Modulus
           x == u + Wrap(k)
           p == x \div Modulus
<1>1. q \in Int /\ Wrap(k) \in Int /\ u \in Int /\ k = Modulus * q + Wrap(k)
  BY ModulusAssumption DEF Wrap, Word
<1> HIDE DEF q
<1>2. x \in Int
  BY <1>1
<1> HIDE DEF x
<1>3. p \in Int /\ Wrap(x) \in Word /\ x = Modulus * p + Wrap(x)
  BY <1>2, ModulusAssumption DEF Wrap, Word
<1> HIDE DEF p
<1>4. u + k = Modulus * (p + q) + Wrap(x) /\ u + k \in Int /\ p + q \in Int
  <2>1. u + k = x + Modulus * q
    BY <1>1, ModulusAssumption DEF x
  <2>2. Wrap(x) \in Int
    BY <1>3, ZeroType
  <2>3. Modulus * (p + q) = Modulus * p + Modulus * q
    BY <1>1, <1>3, ModulusAssumption
  <2> QED
    BY <2>1, <2>2, <2>3, <1>1, <1>2, <1>3, ModulusAssumption
<1>5. Wrap(u + k) = Wrap(x)
  BY <1>3, <1>4, RemainderUnique
<1> QED
  BY <1>5 DEF x, Wrap

----------------------------------------------------------------------------
(* EX.                                                                       *)

(* What the control signals of an instruction say of MEM. *)
LEMMA MemorySignals ==
  ASSUME NEW i \in Instruction
  PROVE  /\ SetFromInstruction(i).memRead = (i.opcode = "LOAD")
         /\ SetFromInstruction(i).memWrite = (i.opcode = "STORE")
         /\ SetFromInstruction(i).memToReg = (i.opcode = "LOAD")
         /\ SetFromInstruction(i).memSize = AccessSize(i)
         /\ SetFromInstruction(i).memSignExtend = (i.opcode = "LOAD" /\ i.funct3 < 3)
         /\ SetFromInstruction(i).regWrite = (ChangesRegister(i) /\ i.opcode # "UNKNOWN")
  BY DEF SetFromInstruction, ChangesRegister

(* EX computes what the instruction computes, with the operands it gets, and *)
(* finds where the program goes on.                                          *)
LEMMA ExecuteComputes ==
  ASSUME TypeOK, NEW i \in Instruction, i = id_ex.instruction, IsLegal(i),
         id_ex.control = SetFromInstruction(i),
         NEW u \in Word, u = Rs1Value,
         NEW v \in Word, InstructionUsesRS2(i.opcode) => v = Rs2Value
  PROVE  /\ AluResult = Computed(i, id_ex.PC, u, v)
         /\ (BranchTaken \/ id_ex.control.jump) = Redirects(i, u, v)
         /\ Redirects(i, u, v) => NextPC = NextAddress(i, id_ex.PC, u, v)
<1> DEFINE a == id_ex.PC
<1>1. a \in Word /\ i.imm \in Int /\ Wrap(i.imm) \in Word
  BY WrapType DEF TypeOK, PipelineRegistersType, ID_EXRegisters, Instruction
<1>2. i.opcode \in KnownOpcode
  BY DEF IsLegal
<1>3. /\ id_ex.control.jump = (i.opcode \in {"JAL", "JALR"})
      /\ id_ex.control.branch = (i.opcode = "BRANCH")
      /\ id_ex.control.aluSrc = (i.opcode \notin {"OP", "OP_32", "BRANCH", "UNKNOWN"})
      /\ id_ex.control.aluOp = AluOperation(i)
  BY DEF SetFromInstruction
<1>4. (BranchTaken \/ id_ex.control.jump) = Redirects(i, u, v)
  BY <1>3 DEF BranchTaken, Redirects, InstructionUsesRS2
<1>5. ASSUME Redirects(i, u, v) PROVE NextPC = NextAddress(i, a, u, v)
  <2>1. CASE i.opcode = "JALR"
    BY <2>1, <1>3, <1>5 DEF NextPC, NextAddress, BranchTaken
  <2>2. CASE i.opcode # "JALR"
    <3>1. BranchTaken \/ (id_ex.control.jump /\ i.opcode = "JAL")
      BY <2>2, <1>3, <1>4, <1>5
    <3> QED
      BY <2>2, <3>1, <1>5 DEF NextPC, NextAddress
  <2> QED
    BY <2>1, <2>2
<1>6. AluResult = Computed(i, a, u, v)
  <2>1. CASE i.opcode \in {"JAL", "JALR"}
    BY <2>1, <1>3 DEF AluResult, Computed
  <2>2. CASE i.opcode = "AUIPC"
    BY <2>2, <1>3 DEF AluResult, Computed, ComputePCRelativeTarget
  <2>3. ASSUME i.opcode \notin {"JAL", "JALR", "AUIPC"}
        PROVE  AluResult = ALU(AluOperation(i), OperandA, OperandB)
    BY <2>3, <1>3 DEF AluResult
  <2>4. CASE i.opcode = "LUI"
    <3>1. OperandA = 0 /\ OperandB = Wrap(i.imm) /\ AluOperation(i) = "ADD"
      BY <2>4, <1>3 DEF OperandA, OperandB, AluOperation
    <3>2. ALU("ADD", 0, Wrap(i.imm)) = (0 + Wrap(i.imm)) % Modulus
      BY <1>1, ZeroType, AdditionAssumption
    <3>3. (0 + Wrap(i.imm)) % Modulus = Wrap(0 + i.imm)
      BY <1>1, ZeroType, WrapSum
    <3>4. 0 + i.imm = i.imm
      BY <1>1
    <3> QED
      BY <2>3, <2>4, <3>1, <3>2, <3>3, <3>4 DEF Computed
  <2>5. CASE i.opcode \in {"LOAD", "STORE"}
    <3>1. OperandA = u /\ OperandB = Wrap(i.imm) /\ AluOperation(i) = "ADD"
      BY <2>5, <1>3 DEF OperandA, OperandB, AluOperation
    <3>2. ALU("ADD", u, Wrap(i.imm)) = Wrap(u + i.imm)
      BY <1>1, AdditionAssumption, WrapSum
    <3> QED
      BY <2>3, <2>5, <3>1, <3>2 DEF Computed
  <2>6. CASE i.opcode \in {"OP_IMM", "OP_IMM_32"}
    <3>1. OperandA = u /\ OperandB = Wrap(i.imm)
      BY <2>6, <1>3 DEF OperandA, OperandB
    <3> QED
      BY <2>3, <2>6, <3>1 DEF Computed
  <2>7. CASE i.opcode \in {"OP", "OP_32", "BRANCH"}
    <3>1. OperandA = u /\ OperandB = v
      BY <2>7, <1>3 DEF OperandA, OperandB, InstructionUsesRS2
    <3> QED
      BY <2>3, <2>7, <3>1 DEF Computed
  <2> QED
    BY <1>2, <2>1, <2>2, <2>4, <2>5, <2>6, <2>7 DEF KnownOpcode
<1> QED
  BY <1>4, <1>5, <1>6

----------------------------------------------------------------------------
(* The operators of module Hart are those of module Pipeline. *)
LEMMA HartWords ==
  /\ \A i : H!Wrap(i) = Wrap(i)
  /\ \A r, f : H!ReadRegister(f, r) = ReadRegister(f, r)
  /\ \A r, f, w : H!WriteRegister(f, r, w) = WriteRegister(f, r, w)
  /\ \A b, o : H!ComputePCRelativeTarget(b, o) = ComputePCRelativeTarget(b, o)
  /\ \A b, o : H!JumpRegisterTarget(b, o) = JumpRegisterTarget(b, o)
  /\ \A f, u, v : H!EvaluateBranch(f, u, v) = EvaluateBranch(f, u, v)
  /\ \A i : H!AccessSize(i) = AccessSize(i)
  /\ \A i : H!AluOperation(i) = AluOperation(i)
  /\ H!TestEndMarker = TestEndMarker
<1>1. H!OpOperations = OpOperations /\ H!Op32Operations = Op32Operations /\ H!ALUOp = ALUOp
  BY DEF H!OpOperations, OpOperations, H!Op32Operations, Op32Operations, H!ALUOp, ALUOp
<1>2. H!OpImmOperations = OpImmOperations /\ H!OpImm32Operations = OpImm32Operations
  BY <1>1 DEF H!OpImmOperations, OpImmOperations, H!OpImm32Operations, OpImm32Operations
<1>3. \A i, t : H!Selected(t, i) = Selected(t, i)
  BY <1>1, Zenon DEF H!Selected, Selected
<1>4. \A i : H!AluOperation(i) = AluOperation(i)
  BY <1>1, <1>2, <1>3, Zenon DEF H!AluOperation, AluOperation
<1>5. \A i : H!AccessSize(i) = AccessSize(i)
  BY Zenon DEF H!AccessSize, AccessSize
<1>6. \A f, u, v : H!EvaluateBranch(f, u, v) = EvaluateBranch(f, u, v)
  BY DEF H!EvaluateBranch, EvaluateBranch, H!Signed, Signed
<1> QED
  BY <1>4, <1>5, <1>6
     DEF H!Wrap, Wrap, H!ReadRegister, ReadRegister, H!WriteRegister, WriteRegister,
         H!ComputePCRelativeTarget, ComputePCRelativeTarget, H!JumpRegisterTarget,
         JumpRegisterTarget, H!TestEndMarker, TestEndMarker

(* An instruction that executes is a step of the hart. *)
LEMMA HartExecutes ==
  ASSUME NEW a, a = OldestPending, NEW i, a \in DOMAIN text, i = text[a],
         IsLegal(i), HartStatus = "running", text' = text,
         NEW halts \in BOOLEAN, HartStatus' = (IF halts THEN "halt" ELSE "running"),
         Executes(i, a, SettledRegisters, memory, output,
                  OldestPending', SettledRegisters', memory', output', halts)
  PROVE  H!Next
<1> DEFINE u == ReadRegister(SettledRegisters, i.rs1)
           v == ReadRegister(SettledRegisters, i.rs2)
<1>1. H!Rs1 = u /\ H!Rs2 = v /\ H!Instr = i /\ H!EffectiveAddress = Wrap(u + i.imm)
  BY HartWords DEF H!Rs1, H!Rs2, H!Instr, H!EffectiveAddress
<1>2. i # TestEndMarker
  BY DEF IsLegal, KnownOpcode, TestEndMarker
<1>3. \A S : i.opcode \in S => H!Executing(S)
  BY <1>1, <1>2, HartWords DEF H!Executing
<1>4. /\ OldestPending' = NextAddress(i, a, u, v)
      /\ SettledRegisters' = IF ChangesRegister(i)
                               THEN WriteRegister(SettledRegisters, i.rd,
                                                  Result(i, a, u, v, memory))
                               ELSE SettledRegisters
      /\ i.opcode = "LOAD" => AccessSize(i) # 0
                              /\ Access(Wrap(u + i.imm), AccessSize(i), FALSE) # "illegal"
      /\ i.opcode # "STORE" => memory' = memory /\ output' = output /\ ~halts
  BY DEF Executes
<1>5. i.opcode = "STORE" =>
        LET client == Access(Wrap(u + i.imm), AccessSize(i), TRUE) IN
          /\ AccessSize(i) # 0 /\ client # "illegal"
          /\ memory' = IF client = "memory"
                         THEN Store(memory, Wrap(u + i.imm), AccessSize(i), v) ELSE memory
          /\ output' = IF client = "serial" THEN Append(output, LowByte(v)) ELSE output
          /\ halts = (client = "sysStatus")
  BY DEF Executes
<1> HIDE DEF u, v
<1>6. ASSUME i.opcode \notin {"STORE", "BRANCH", "JAL", "JALR"}
      PROVE  H!Retire(Result(i, a, u, v, memory))
  <2>1. OldestPending' = Wrap(a + 4)
    BY <1>4, <1>6 DEF NextAddress, Redirects
  <2>2. SettledRegisters' = WriteRegister(SettledRegisters, i.rd, Result(i, a, u, v, memory))
    BY <1>4, <1>6 DEF ChangesRegister
  <2> QED
    BY <1>1, <1>4, <1>6, <2>1, <2>2, HartWords, Zenon DEF H!Retire
<1>7. CASE i.opcode \in {"OP", "OP_32"}
  <2>1. H!RegisterRegister
    BY <1>1, <1>3, <1>6, <1>7, HartWords, Zenon DEF Result, Computed, H!RegisterRegister
  <2> QED
    BY <2>1 DEF H!Next
<1>8. CASE i.opcode \in {"OP_IMM", "OP_IMM_32"}
  <2>1. H!RegisterImmediate
    BY <1>1, <1>3, <1>6, <1>8, HartWords, Zenon DEF Result, Computed, H!RegisterImmediate
  <2> QED
    BY <2>1 DEF H!Next
<1>9. CASE i.opcode = "LUI"
  <2>1. H!LoadUpper
    BY <1>1, <1>3, <1>6, <1>9, HartWords, Zenon DEF Result, Computed, H!LoadUpper
  <2> QED
    BY <2>1 DEF H!Next
<1>10. CASE i.opcode = "AUIPC"
  <2>1. H!AddUpperToPC
    BY <1>1, <1>3, <1>6, <1>10, HartWords, Zenon DEF Result, Computed, H!AddUpperToPC
  <2> QED
    BY <2>1 DEF H!Next
<1>11. CASE i.opcode = "LOAD"
  <2>1. H!MayAccess(FALSE)
    BY <1>1, <1>4, <1>11, HartWords DEF H!MayAccess
  <2>2. H!ReadMemory
    BY <1>1, <1>3, <1>6, <1>11, <2>1, HartWords, Zenon DEF Result, H!ReadMemory
  <2> QED
    BY <2>2 DEF H!Next
<1>12. CASE i.opcode = "STORE"
  <2>1. H!MayAccess(TRUE)
    BY <1>1, <1>5, <1>12, HartWords DEF H!MayAccess
  <2>2. OldestPending' = Wrap(a + 4) /\ SettledRegisters' = SettledRegisters
    BY <1>4, <1>12 DEF NextAddress, Redirects, ChangesRegister
  <2>3. H!WriteMemory
    BY <1>1, <1>3, <1>5, <1>12, <2>1, <2>2, HartWords DEF H!WriteMemory
  <2> QED
    BY <2>3 DEF H!Next
<1>13. CASE i.opcode = "BRANCH"
  <2>1. OldestPending' = IF EvaluateBranch(i.funct3, u, v)
                           THEN ComputePCRelativeTarget(a, i.imm) ELSE Wrap(a + 4)
    BY <1>4, <1>13 DEF NextAddress, Redirects
  <2>2. SettledRegisters' = SettledRegisters
    BY <1>4, <1>13 DEF ChangesRegister
  <2>3. H!Branch
    BY <1>1, <1>3, <1>4, <1>13, <2>1, <2>2, HartWords DEF H!Branch
  <2> QED
    BY <2>3 DEF H!Next
<1>14. CASE i.opcode \in {"JAL", "JALR"}
  <2>1. OldestPending' = IF i.opcode = "JAL" THEN ComputePCRelativeTarget(a, i.imm)
                         ELSE JumpRegisterTarget(u, i.imm)
    BY <1>4, <1>14 DEF NextAddress, Redirects
  <2>2. SettledRegisters' = WriteRegister(SettledRegisters, i.rd, Wrap(a + 4))
    BY <1>4, <1>14, Zenon DEF ChangesRegister, Result, Computed
  <2>3. H!Jump
    BY <1>1, <1>3, <1>4, <1>14, <2>1, <2>2, HartWords DEF H!Jump
  <2> QED
    BY <2>3 DEF H!Next
<1> QED
  BY <1>7, <1>8, <1>9, <1>10, <1>11, <1>12, <1>13, <1>14 DEF IsLegal, KnownOpcode

(* Why the hart cannot go on with the instruction at a. *)
Refused(i, u, write) ==
  AccessSize(i) = 0 \/ Access(Wrap(u + i.imm), AccessSize(i), write) = "illegal"

StopsAt(a, regs, why) ==
  LET i == text[a]
      u == ReadRegister(regs, i.rs1)
  IN
    \/ why = "fetchFailure" /\ a \notin DOMAIN text
    \/ why = "endMarker" /\ a \in DOMAIN text /\ i = TestEndMarker
    \/ why = "illegalInstruction" /\ a \in DOMAIN text /\ i # TestEndMarker
         /\ i.opcode = "UNKNOWN"
    \/ why = "illegalAccess" /\ a \in DOMAIN text
         /\ \/ i.opcode = "LOAD" /\ Refused(i, u, FALSE)
            \/ i.opcode = "STORE" /\ Refused(i, u, TRUE)

(* An instruction that cannot be executed stops the hart where it is. *)
LEMMA HartStops ==
  ASSUME HartStatus = "running",
         UNCHANGED <<text, OldestPending, SettledRegisters, memory, output>>,
         StopsAt(OldestPending, SettledRegisters, HartStatus')
  PROVE  H!Next
<1> DEFINE a == OldestPending
           i == text[a]
           u == ReadRegister(SettledRegisters, i.rs1)
<1>1. H!Rs1 = u /\ H!Instr = i /\ H!EffectiveAddress = Wrap(u + i.imm)
  BY HartWords DEF H!Rs1, H!Instr, H!EffectiveAddress
<1>2. \A why : HartStatus' = why => H!Stop(why)
  BY DEF H!Stop
<1>3. \A S : a \in DOMAIN text /\ i # TestEndMarker /\ i.opcode \in S => H!Executing(S)
  BY <1>1, HartWords DEF H!Executing
<1>4. \A write : Refused(i, u, write) => ~H!MayAccess(write)
  BY <1>1, HartWords DEF Refused, H!MayAccess
<1>5. i.opcode \in {"LOAD", "STORE"} => i # TestEndMarker
  BY DEF TestEndMarker
<1>6. CASE HartStatus' = "fetchFailure" /\ a \notin DOMAIN text
  BY <1>2, <1>6 DEF H!Next, H!FetchFailure
<1>7. CASE HartStatus' = "endMarker" /\ a \in DOMAIN text /\ i = TestEndMarker
  BY <1>1, <1>2, <1>7, HartWords DEF H!Next, H!EndMarker
<1>8. CASE /\ HartStatus' = "illegalInstruction" /\ a \in DOMAIN text
           /\ i # TestEndMarker /\ i.opcode = "UNKNOWN"
  BY <1>2, <1>3, <1>8 DEF H!Next, H!Illegal
<1>9. CASE HartStatus' = "illegalAccess" /\ a \in DOMAIN text
           /\ i.opcode = "LOAD" /\ Refused(i, u, FALSE)
  <2>1. H!BadRead
    BY <1>2, <1>3, <1>4, <1>5, <1>9 DEF H!BadRead
  <2> QED
    BY <2>1 DEF H!Next
<1>10. CASE HartStatus' = "illegalAccess" /\ a \in DOMAIN text
           /\ i.opcode = "STORE" /\ Refused(i, u, TRUE)
  <2>1. H!BadWrite
    BY <1>2, <1>3, <1>4, <1>5, <1>10 DEF H!BadWrite
  <2> QED
    BY <2>1 DEF H!Next
<1> QED
  BY <1>6, <1>7, <1>8, <1>9, <1>10 DEF StopsAt

----------------------------------------------------------------------------
(* Without pipelining the processor implements the hart, for every program,   *)
(* register width, number of registers, ALU and memory.  One instruction is   *)
(* under way at a time; what each stage has done with it is in SeqInv.        *)

(* The instruction under way, its address, and its operands. *)
Current == if_id.instruction
Address == if_id.PC
Value1 == ReadRegister(registers, Current.rs1)
Value2 == ReadRegister(registers, Current.rs2)

(* IF has an instruction of the program. *)
FetchDone ==
  At("clockPulse", IF_) =>
    /\ PC \in DOMAIN text /\ text[PC] # TestEndMarker
    /\ fetch.PC = PC /\ fetch.instruction = text[PC]

(* ID has it with its operands. *)
DecodeDone ==
  At("clockPulse", ID) =>
    /\ decode.PC = Address /\ decode.instruction = Current
    /\ decode.readData1 = Value1 /\ decode.readData2 = Value2

(* EX has what it computes and where it goes on. *)
ExecuteDone ==
  At("clockPulse", EX) =>
    /\ execute.PC = Address /\ execute.rd = Current.rd /\ execute.control = SetFromInstruction(Current)
    /\ execute.aluResult = Computed(Current, Address, Value1, Value2)
    /\ execute.writeData = Value2
    /\ (IF execute.pcWriteEnable THEN execute.nextPC ELSE PC) = NextAddress(Current, Address, Value1, Value2)

(* MEM has what it loads, or asks for its store. *)
MemoryDone ==
  At("clockPulse", MEM) =>
    /\ memoryStage.rd = Current.rd /\ memoryStage.control = SetFromInstruction(Current)
    /\ memoryStage.aluResult = Computed(Current, Address, Value1, Value2)
    /\ Current.opcode = "LOAD" =>
         /\ ~Refused(Current, Value1, FALSE)
         /\ memoryStage.memData = Result(Current, Address, Value1, Value2, memory)
    /\ dataMemory.writeEnable <=> Current.opcode = "STORE"
    /\ Current.opcode = "STORE" =>
         /\ AccessSize(Current) # 0
         /\ dataMemory.addr = Wrap(Value1 + Current.imm) /\ dataMemory.size = AccessSize(Current)
         /\ dataMemory.dataIn = Value2

BuffersDone == FetchDone /\ DecodeDone /\ ExecuteDone /\ MemoryDone

(* The pipeline registers the instruction has reached. *)
RegistersDone ==
  /\ stage \in {ID, EX, MEM} => Address \in DOMAIN text /\ Current = text[Address] /\ Current # TestEndMarker
  /\ stage \in {EX, MEM} => IsLegal(Current)
  /\ stage \in {ID, EX} => PC = Wrap(Address + 4)
  /\ stage = EX =>
       /\ id_ex.PC = Address /\ id_ex.instruction = Current /\ id_ex.control = SetFromInstruction(Current)
       /\ id_ex.readData1 = Value1 /\ id_ex.readData2 = Value2
  /\ stage = MEM =>
       /\ PC = NextAddress(Current, Address, Value1, Value2)
       /\ ex_m.PC = Address /\ ex_m.rd = Current.rd /\ ex_m.control = SetFromInstruction(Current)
       /\ ex_m.aluResult = Computed(Current, Address, Value1, Value2) /\ ex_m.writeData = Value2

(* Nothing waits for WB but in WB itself, and nothing at all after a halt. *)
ResultsSettled ==
  /\ stage # WB /\ Writes(m_wb) => ReadRegister(registers, m_wb.rd) = WriteBackValue(m_wb)
  /\ At("clockPulse", WB) =>
       /\ writeBack.rd = m_wb.rd /\ writeBack.writeData = WriteBackValue(m_wb)
       /\ writeBack.writeEnable = m_wb.control.regWrite
  /\ shouldHalt => phase = "loop" /\ stage = WB /\ ~Writes(m_wb)

SeqInv ==
  phase # "stopped" =>
    /\ reason = "running"
    /\ ~fetch.endMarkerSeen
    /\ BuffersDone
    /\ RegistersDone
    /\ ResultsSettled

----------------------------------------------------------------------------
(* One stage propagates and receives the clock pulse, then the next one. *)
LEMMA SequentialMoves ==
  ASSUME ~Pipelining, LoopType
  PROVE  /\ EndPropagate => phase' = "clockPulse" /\ stage' = stage
         /\ EndClockPulse =>
              phase' = "loop" /\ stage' = IF stage = WB THEN IF_ ELSE stage + 1
         /\ EndPropagate \/ EndClockPulse => reason' = reason
         /\ \A why : Throw(why) => phase' = "stopped"
  BY DEF EndPropagate, EndClockPulse, Throw, LoopType, Stages

(* The program begins with nothing under way. *)
LEMMA InitSeqInv == Init => SeqInv
  BY DEF Init, SeqInv, BuffersDone, FetchDone, DecodeDone, ExecuteDone, MemoryDone,
         RegistersDone, ResultsSettled, At, EmptyMemory, NoSignals, Writes

(* What a propagate leaves of it, and a step that stops the run. *)
LEMMA SeqInvStopped == phase' = "stopped" => SeqInv'
  BY DEF SeqInv

(* Only the buffer of the stage that propagates is new. *)
LEMMA PropagateKeeps ==
  ASSUME SeqInv, ~Pipelining, LoopType, phase = "propagate", EndPropagate,
         UNCHANGED <<architecture, pipelineRegisters>>, ~fetch'.endMarkerSeen,
         BuffersDone', stage # WB
  PROVE  SeqInv'
<1>1. phase' = "clockPulse" /\ stage' = stage /\ reason' = reason
  BY SequentialMoves
<1>2. RegistersDone'
  BY <1>1 DEF SeqInv, RegistersDone, architecture, pipelineRegisters, Current, Address, Value1, Value2
<1>3. ResultsSettled'
  BY <1>1 DEF SeqInv, ResultsSettled, At, architecture, pipelineRegisters, Writes, WriteBackValue
<1> QED
  BY <1>1, <1>2, <1>3 DEF SeqInv

(* IF fetches an instruction of the program or stops the run. *)
LEMMA FetchPropagateSeq ==
  ASSUME TypeOK, SeqInv, ~Pipelining, FetchPropagate PROVE SeqInv'
<1>1. CASE FetchFails \/ FetchEndMarker
  BY <1>1, SeqInvStopped DEF FetchFails, FetchEndMarker, Throw
<1>2. CASE FetchInstruction
  <2>1. fetch' = Fetched(text[PC]) /\ PC \in DOMAIN text /\ text[PC] # TestEndMarker
    BY <1>2 DEF FetchInstruction
  <2>2. fetch'.PC = PC /\ fetch'.instruction = text[PC]
        /\ fetch'.endMarkerSeen = fetch.endMarkerSeen
    BY <2>1 DEF Fetched, TypeOK, BuffersType
  <2>3. At("propagate", IF_) /\ EndPropagate /\ UNCHANGED <<architecture, pipelineRegisters>>
    BY <1>2 DEF FetchPropagate, FetchInstruction
  <2>4. BuffersDone'
    BY <2>1, <2>2, <2>3, SequentialMoves
       DEF TypeOK, At, BuffersDone, FetchDone, DecodeDone, ExecuteDone, MemoryDone, architecture
  <2> QED
    BY <2>2, <2>3, <2>4, PropagateKeeps DEF SeqInv, At, TypeOK, BuffersType
<1> QED
  BY <1>1, <1>2 DEF FetchPropagate, FetchNothing, SeqInv, At

(* ID reads its operands. *)
LEMMA DecodePropagateSeq ==
  ASSUME TypeOK, SeqInv, ~Pipelining, DecodePropagate PROVE SeqInv'
<1>1. /\ At("propagate", ID) /\ EndPropagate /\ UNCHANGED <<architecture, pipelineRegisters>>
      /\ fetch' = fetch
  BY DEF DecodePropagate
<1>2. /\ decode'.PC = Address /\ decode'.instruction = Current
      /\ decode'.readData1 = Value1 /\ decode'.readData2 = Value2
  BY DEF DecodePropagate, FetchRegister, Current, Address, Value1, Value2
<1>3. BuffersDone'
  BY <1>1, <1>2, SequentialMoves
     DEF TypeOK, At, BuffersDone, FetchDone, DecodeDone, ExecuteDone, MemoryDone,
         architecture, pipelineRegisters, Current, Address, Value1, Value2
<1> QED
  BY <1>1, <1>3, PropagateKeeps DEF SeqInv, At, TypeOK

(* EX computes, and finds where the program goes on. *)
LEMMA ExecutePropagateSeq ==
  ASSUME TypeOK, SeqInv, ~Pipelining, ExecutePropagate PROVE SeqInv'
<1>1. /\ At("propagate", EX) /\ EndPropagate /\ UNCHANGED <<architecture, pipelineRegisters>>
      /\ fetch' = fetch
  BY DEF ExecutePropagate
<1>2. /\ IsLegal(Current) /\ PC = Wrap(Address + 4)
      /\ id_ex.PC = Address /\ id_ex.instruction = Current
      /\ id_ex.control = SetFromInstruction(Current)
      /\ id_ex.readData1 = Value1 /\ id_ex.readData2 = Value2
  BY <1>1 DEF At, SeqInv, RegistersDone
<1>3. Rs1Value = Value1 /\ Rs2Value = Value2
  BY <1>2 DEF Rs1Value, Rs2Value, Forwarded
<1>4. Current \in Instruction /\ Value1 \in Word /\ Value2 \in Word
  BY <1>2 DEF TypeOK, PipelineRegistersType, ID_EXRegisters
<1>5. /\ AluResult = Computed(Current, Address, Value1, Value2)
      /\ (BranchTaken \/ id_ex.control.jump) = Redirects(Current, Value1, Value2)
      /\ Redirects(Current, Value1, Value2) => NextPC = NextAddress(Current, Address, Value1, Value2)
  BY <1>2, <1>3, <1>4, ExecuteComputes
<1>6. /\ execute'.PC = Address /\ execute'.rd = Current.rd
      /\ execute'.control = SetFromInstruction(Current)
      /\ execute'.aluResult = AluResult /\ execute'.writeData = Value2
      /\ execute'.pcWriteEnable = (BranchTaken \/ id_ex.control.jump)
      /\ execute'.nextPC = NextPC
  BY <1>2, <1>3 DEF ExecutePropagate
<1>7. ~Redirects(Current, Value1, Value2) => PC = NextAddress(Current, Address, Value1, Value2)
  BY <1>2 DEF NextAddress
<1>8. UNCHANGED <<PC, Current, Address, Value1, Value2>>
  BY <1>1 DEF architecture, pipelineRegisters, Current, Address, Value1, Value2
<1>9. BuffersDone'
  BY <1>1, <1>5, <1>6, <1>7, <1>8, SequentialMoves
     DEF TypeOK, At, BuffersDone, FetchDone, DecodeDone, ExecuteDone, MemoryDone
<1> QED
  BY <1>1, <1>9, PropagateKeeps DEF SeqInv, At, TypeOK

(* MEM reads, prepares the write or stops the run. *)
LEMMA MemoryPropagateSeq ==
  ASSUME TypeOK, SeqInv, ~Pipelining, MemoryPropagate PROVE SeqInv'
<1>1. CASE MemoryFault
  BY <1>1, SeqInvStopped DEF MemoryFault, Throw
<1>2. CASE NoMemoryAccess \/ MemoryAccess
  <2>1. /\ At("propagate", MEM) /\ EndPropagate /\ UNCHANGED <<architecture, pipelineRegisters>>
        /\ fetch' = fetch
    BY <1>2 DEF MemoryPropagate, NoMemoryAccess, MemoryAccess
  <2>2. /\ IsLegal(Current)
        /\ ex_m.PC = Address /\ ex_m.rd = Current.rd
        /\ ex_m.control = SetFromInstruction(Current)
        /\ ex_m.aluResult = Computed(Current, Address, Value1, Value2)
        /\ ex_m.writeData = Value2
    BY <2>1 DEF At, SeqInv, RegistersDone
  <2>3. Current \in Instruction
    BY DEF Current, TypeOK, PipelineRegistersType, IF_IDRegisters
  <2>4. /\ ex_m.control.memRead = (Current.opcode = "LOAD")
        /\ ex_m.control.memWrite = (Current.opcode = "STORE")
        /\ ex_m.control.memSize = AccessSize(Current)
        /\ Current.opcode = "LOAD" => ex_m.control.memSignExtend = (Current.funct3 < 3)
    BY <2>2, <2>3, MemorySignals
  <2>5. Current.opcode \in {"LOAD", "STORE"} => ex_m.aluResult = Wrap(Value1 + Current.imm)
    BY <2>2 DEF Computed
  <2>6. /\ memoryStage'.rd = ex_m.rd /\ memoryStage'.control = ex_m.control
        /\ memoryStage'.aluResult = ex_m.aluResult
    BY <1>2 DEF NoMemoryAccess, MemoryAccess, PassThrough
  <2>7. ASSUME Current.opcode = "LOAD"
        PROVE  /\ ~Refused(Current, Value1, FALSE)
               /\ memoryStage'.memData = Result(Current, Address, Value1, Value2, memory)
    <3>1. MemoryAccess /\ ex_m.control.memRead
      BY <1>2, <2>4, <2>7 DEF NoMemoryAccess
    <3> QED
      BY <2>4, <2>5, <2>7, <3>1 DEF MemoryAccess, PassThrough, ReadAccess, Refused, Result
  <2>8. ASSUME Current.opcode = "STORE"
        PROVE  /\ dataMemory'.writeEnable /\ AccessSize(Current) # 0
               /\ dataMemory'.addr = Wrap(Value1 + Current.imm)
               /\ dataMemory'.size = AccessSize(Current)
               /\ dataMemory'.dataIn = Value2
    <3>1. MemoryAccess /\ ex_m.control.memWrite
      BY <1>2, <2>4, <2>8 DEF NoMemoryAccess
    <3> QED
      BY <2>2, <2>4, <2>5, <2>8, <3>1 DEF MemoryAccess
  <2>9. UNCHANGED <<memory, Current, Address, Value1, Value2>>
    BY <2>1 DEF architecture, pipelineRegisters, Current, Address, Value1, Value2
  <2>10. Current.opcode # "STORE" => ~dataMemory'.writeEnable
    <3>1. NoMemoryAccess => ~dataMemory'.writeEnable
      BY DEF NoMemoryAccess, TypeOK, BuffersType
    <3>2. MemoryAccess => dataMemory'.writeEnable = ex_m.control.memWrite
      BY DEF MemoryAccess
    <3> QED
      BY <1>2, <2>4, <3>1, <3>2
  <2>11. MemoryDone'
    BY <2>2, <2>6, <2>7, <2>8, <2>9, <2>10 DEF MemoryDone
  <2>12. BuffersDone'
    BY <2>1, <2>11, SequentialMoves
       DEF TypeOK, At, BuffersDone, FetchDone, DecodeDone, ExecuteDone
  <2> QED
    BY <2>1, <2>12, PropagateKeeps DEF SeqInv, At, TypeOK
<1> QED
  BY <1>1, <1>2 DEF MemoryPropagate

(* WB selects the result. *)
LEMMA WriteBackPropagateSeq ==
  ASSUME TypeOK, SeqInv, ~Pipelining, WriteBackPropagate PROVE SeqInv'
<1>1. /\ At("propagate", WB) /\ EndPropagate /\ UNCHANGED <<architecture, pipelineRegisters>>
      /\ fetch' = fetch
  BY DEF WriteBackPropagate
<1>2. phase' = "clockPulse" /\ stage' = WB /\ reason' = reason
  BY <1>1, SequentialMoves DEF At, TypeOK
<1>3. BuffersDone'
  BY <1>2 DEF At, BuffersDone, FetchDone, DecodeDone, ExecuteDone, MemoryDone
<1>4. RegistersDone'
  BY <1>2 DEF RegistersDone
<1>5. ResultsSettled'
  BY <1>1, <1>2
     DEF WriteBackPropagate, At, SeqInv, ResultsSettled, architecture, pipelineRegisters,
         WriteBackValue
<1> QED
  BY <1>1, <1>2, <1>3, <1>4, <1>5 DEF SeqInv, At

(* IF/ID takes the instruction, and PC goes one further. *)
LEMMA FetchClockPulseSeq ==
  ASSUME TypeOK, SeqInv, ~Pipelining, FetchClockPulse PROVE SeqInv'
<1>1. /\ At("clockPulse", IF_) /\ EndClockPulse /\ fetch' = fetch
      /\ UNCHANGED <<registers, m_wb, shouldHalt, text>>
  BY DEF FetchClockPulse, SeqInv, At
<1>2. phase' = "loop" /\ stage' = ID /\ reason' = reason
  BY <1>1, SequentialMoves DEF At, TypeOK
<1>3. if_id' = [PC |-> fetch.PC, instruction |-> fetch.instruction] /\ PC' = Wrap(PC + 4)
  BY DEF FetchClockPulse, FetchAdvance
<1>4. /\ PC \in DOMAIN text /\ text[PC] # TestEndMarker
      /\ fetch.PC = PC /\ fetch.instruction = text[PC]
  BY <1>1 DEF SeqInv, BuffersDone, FetchDone, At
<1>5. RegistersDone'
  BY <1>1, <1>2, <1>3, <1>4 DEF RegistersDone, Current, Address
<1>6. BuffersDone'
  BY <1>2 DEF At, BuffersDone, FetchDone, DecodeDone, ExecuteDone, MemoryDone
<1>7. ResultsSettled'
  BY <1>1, <1>2 DEF SeqInv, ResultsSettled, At, Writes, WriteBackValue
<1> QED
  BY <1>1, <1>2, <1>5, <1>6, <1>7 DEF SeqInv, At

(* ID/EX takes it, with its operands and its control signals. *)
LEMMA DecodeClockPulseSeq ==
  ASSUME TypeOK, SeqInv, ~Pipelining, DecodeClockPulse PROVE SeqInv'
<1>1. CASE DecodeIllegal
  BY <1>1, SeqInvStopped DEF DecodeIllegal, Throw
<1>2. CASE DecodeIssue
  <2>1. /\ At("clockPulse", ID) /\ EndClockPulse
        /\ UNCHANGED <<fetch, if_id, registers, m_wb, shouldHalt, text, PC>>
    BY <1>2 DEF DecodeClockPulse, DecodeIssue, architecture, buffers
  <2>2. phase' = "loop" /\ stage' = EX /\ reason' = reason
    BY <2>1, SequentialMoves DEF At, TypeOK
  <2>3. /\ decode.PC = Address /\ decode.instruction = Current
        /\ decode.readData1 = Value1 /\ decode.readData2 = Value2
    BY <2>1 DEF SeqInv, BuffersDone, DecodeDone, At
  <2>4. RegistersDone'
    BY <1>2, <2>1, <2>2, <2>3
       DEF DecodeIssue, SeqInv, At, RegistersDone, Current, Address, Value1, Value2
  <2>5. BuffersDone'
    BY <2>2 DEF At, BuffersDone, FetchDone, DecodeDone, ExecuteDone, MemoryDone
  <2>6. ResultsSettled'
    BY <2>1, <2>2 DEF SeqInv, ResultsSettled, At, Writes, WriteBackValue
  <2> QED
    BY <2>1, <2>2, <2>4, <2>5, <2>6 DEF SeqInv, At
<1> QED
  BY <1>1, <1>2 DEF DecodeClockPulse, DecodeSquash, Squashed

(* EX/MEM takes what was computed, and PC where the program goes on. *)
LEMMA ExecuteClockPulseSeq ==
  ASSUME TypeOK, SeqInv, ~Pipelining, ExecuteClockPulse PROVE SeqInv'
<1>1. /\ At("clockPulse", EX) /\ EndClockPulse
      /\ UNCHANGED <<fetch, if_id, registers, m_wb, shouldHalt, text>>
  BY DEF ExecuteClockPulse
<1>2. phase' = "loop" /\ stage' = MEM /\ reason' = reason
  BY <1>1, SequentialMoves DEF At, TypeOK
<1>3. RegistersDone'
  BY <1>1, <1>2
     DEF ExecuteClockPulse, SeqInv, BuffersDone, ExecuteDone, At, RegistersDone, Current,
         Address, Value1, Value2
<1>4. BuffersDone'
  BY <1>2 DEF At, BuffersDone, FetchDone, DecodeDone, ExecuteDone, MemoryDone
<1>5. ResultsSettled'
  BY <1>1, <1>2 DEF SeqInv, ResultsSettled, At, Writes, WriteBackValue
<1> QED
  BY <1>1, <1>2, <1>3, <1>4, <1>5 DEF SeqInv, At

(* MEM/WB takes the result; only a store can halt the machine, and it has    *)
(* none. *)
LEMMA MemoryClockPulseSeq ==
  ASSUME TypeOK, SeqInv, ~Pipelining, MemoryClockPulse PROVE SeqInv'
<1> USE DEF MemoryClockPulse
<1>1. CASE Throw("illegalAccess")
  BY <1>1, SeqInvStopped DEF Throw
<1>2. ASSUME WriteNothing \/ WriteMemory \/ WriteSerial \/ WriteSysStatus,
             m_wb' = memoryStage, EndClockPulse
      PROVE  SeqInv'
  <2>1. At("clockPulse", MEM) /\ UNCHANGED <<fetch, if_id, registers, text>>
    BY DEF buffers
  <2>2. phase' = "loop" /\ stage' = WB /\ reason' = reason
    BY <1>2, <2>1, SequentialMoves DEF At, TypeOK
  <2>3. /\ ~shouldHalt
        /\ dataMemory.writeEnable <=> Current.opcode = "STORE"
        /\ memoryStage.control = SetFromInstruction(Current)
    BY <2>1 DEF SeqInv, ResultsSettled, BuffersDone, MemoryDone, At
  <2>4. shouldHalt' => Current.opcode = "STORE"
    BY <1>2, <2>3 DEF WriteNothing, WriteMemory, WriteSerial, WriteSysStatus
  <2>5. shouldHalt' => ~Writes(m_wb)'
    <3>1. Current.opcode = "STORE" => ~SetFromInstruction(Current).regWrite
      BY MemorySignals DEF ChangesRegister, Current, TypeOK, PipelineRegistersType, IF_IDRegisters
    <3> QED
      BY <1>2, <2>3, <2>4, <3>1 DEF Writes
  <2>6. ResultsSettled'
    BY <2>2, <2>5 DEF ResultsSettled, At
  <2>7. BuffersDone' /\ RegistersDone'
    BY <2>2 DEF At, BuffersDone, FetchDone, DecodeDone, ExecuteDone, MemoryDone, RegistersDone
  <2> QED
    BY <2>1, <2>2, <2>6, <2>7 DEF SeqInv, At
<1> QED
  BY <1>1, <1>2

(* The register has the result. *)
LEMMA WriteBackClockPulseSeq ==
  ASSUME TypeOK, SeqInv, ~Pipelining, WriteBackClockPulse PROVE SeqInv'
<1>1. /\ At("clockPulse", WB) /\ EndClockPulse
      /\ UNCHANGED <<fetch, m_wb, shouldHalt>>
  BY DEF WriteBackClockPulse, pipelineRegisters, buffers
<1>2. phase' = "loop" /\ stage' = IF_ /\ reason' = reason
  BY <1>1, SequentialMoves DEF At, TypeOK
<1>3. ~shouldHalt
  BY <1>1 DEF SeqInv, ResultsSettled, At
<1>4. /\ writeBack.rd = m_wb.rd /\ writeBack.writeData = WriteBackValue(m_wb)
      /\ writeBack.writeEnable = m_wb.control.regWrite
  BY <1>1 DEF SeqInv, ResultsSettled, At
<1>5. Writes(m_wb) => ReadRegister(registers', m_wb.rd) = WriteBackValue(m_wb)
  <2> SUFFICES ASSUME Writes(m_wb) PROVE ReadRegister(registers', m_wb.rd) = WriteBackValue(m_wb)
    OBVIOUS
  <2>1. registers' = WriteRegister(registers, m_wb.rd, WriteBackValue(m_wb))
    BY <1>4 DEF WriteBackClockPulse, Writes
  <2>2. m_wb.rd \in RegNumber /\ m_wb.rd # 0 /\ registers \in RegisterArray
    BY DEF Writes, TypeOK, ArchitectureType, PipelineRegistersType, M_WBRegisters
  <2> QED
    BY <2>1, <2>2, ReadAfterWrite
<1>6. ResultsSettled'
  BY <1>1, <1>2, <1>3, <1>5 DEF ResultsSettled, At, Writes, WriteBackValue
<1>7. BuffersDone' /\ RegistersDone'
  BY <1>2 DEF At, BuffersDone, FetchDone, DecodeDone, ExecuteDone, MemoryDone, RegistersDone
<1> QED
  BY <1>1, <1>2, <1>6, <1>7 DEF SeqInv, At

(* Every step keeps track of the instruction under way. *)
LEMMA NextSeqInv == ~Pipelining /\ TypeOK /\ SeqInv /\ [Next]_vars => SeqInv'
<1> SUFFICES ASSUME ~Pipelining, TypeOK, SeqInv, [Next]_vars PROVE SeqInv'
  OBVIOUS
<1>1. CASE BeginCycle
  <2>1. /\ phase = "loop" /\ phase' = "propagate" /\ ~shouldHalt
        /\ UNCHANGED <<stage, reason, architecture, pipelineRegisters, fetch>>
    BY <1>1 DEF BeginCycle, buffers
  <2>2. BuffersDone'
    BY <2>1 DEF At, BuffersDone, FetchDone, DecodeDone, ExecuteDone, MemoryDone
  <2>3. RegistersDone' /\ ResultsSettled'
    BY <2>1
       DEF SeqInv, RegistersDone, ResultsSettled, At, architecture, pipelineRegisters, Writes,
           WriteBackValue, Current, Address, Value1, Value2
  <2> QED
    BY <2>1, <2>2, <2>3 DEF SeqInv
<1>2. CASE Halt
  BY <1>2, SeqInvStopped DEF Halt, Throw
<1>3. CASE UNCHANGED vars
  <2>1. BuffersDone' = BuffersDone
    BY <1>3
       DEF BuffersDone, FetchDone, DecodeDone, ExecuteDone, MemoryDone, At, Current, Address,
           Value1, Value2, vars, architecture, pipelineRegisters, buffers, loop
  <2>2. RegistersDone' = RegistersDone /\ ResultsSettled' = ResultsSettled
    BY <1>3
       DEF RegistersDone, ResultsSettled, At, Current, Address, Value1, Value2, Writes,
           WriteBackValue, vars, architecture, pipelineRegisters, buffers, loop
  <2> QED
    BY <1>3, <2>1, <2>2 DEF SeqInv, vars, loop, buffers
<1> QED
  BY <1>1, <1>2, <1>3, FetchPropagateSeq, DecodePropagateSeq, ExecutePropagateSeq,
     MemoryPropagateSeq, WriteBackPropagateSeq, FetchClockPulseSeq, DecodeClockPulseSeq,
     ExecuteClockPulseSeq, MemoryClockPulseSeq, WriteBackClockPulseSeq DEF Next
----------------------------------------------------------------------------
(* The hart.                                                                 *)

(* The oldest of one instruction. *)
LEMMA FirstOfOne == \A a : FirstNonzero(<<a>>) = a
  BY DEF FirstNonzero

(* What the hart sees of a state. *)
LEMMA SequentialView ==
  ~Pipelining =>
    /\ OldestPending = IF stage \in ID .. MEM THEN Address ELSE PC
    /\ SettledRegisters = IF phase # "stopped" /\ Writes(m_wb)
                            THEN WriteRegister(registers, m_wb.rd, WriteBackValue(m_wb))
                            ELSE registers
<1> SUFFICES ASSUME ~Pipelining
             PROVE  /\ OldestPending = IF stage \in ID .. MEM THEN Address ELSE PC
                    /\ SettledRegisters =
                         IF phase # "stopped" /\ Writes(m_wb)
                           THEN WriteRegister(registers, m_wb.rd, WriteBackValue(m_wb))
                           ELSE registers
  OBVIOUS
<1>1. Pending = IF stage \in ID .. MEM THEN <<Address>> ELSE <<PC>>
  BY DEF Pending, Address
<1>2. OldestPending = IF stage \in ID .. MEM THEN Address ELSE PC
  BY <1>1, FirstOfOne DEF OldestPending
<1> QED
  BY <1>2 DEF SettledRegisters, WrittenBack

(* And of the next one. *)
LEMMA SequentialViewNext ==
  ~Pipelining =>
    /\ OldestPending' = IF stage' \in ID .. MEM THEN if_id'.PC ELSE PC'
    /\ SettledRegisters' = IF phase' # "stopped" /\ Writes(m_wb)'
                             THEN WriteRegister(registers', m_wb'.rd, WriteBackValue(m_wb)')
                             ELSE registers'
<1>1. (~Pipelining =>
         /\ OldestPending = IF stage \in ID .. MEM THEN Address ELSE PC
         /\ SettledRegisters = IF phase # "stopped" /\ Writes(m_wb)
                                 THEN WriteRegister(registers, m_wb.rd, WriteBackValue(m_wb))
                                 ELSE registers)'
  BY SequentialView, PTL
<1> QED
  BY <1>1 DEF Address

(* Writing what a register has already changes nothing. *)
LEMMA WriteAgain ==
  ASSUME NEW file \in RegisterArray, NEW r \in RegNumber
  PROVE  WriteRegister(file, r, ReadRegister(file, r)) = file
  BY NumRegsAssumption DEF WriteRegister, ReadRegister, RegisterArray, RegNumber

(* Before WB the register file is up to date. *)
LEMMA RegistersCurrent ==
  ASSUME TypeOK, SeqInv, ~Pipelining, phase # "stopped", stage # WB
  PROVE  SettledRegisters = registers
<1>1. Writes(m_wb) => WriteBackValue(m_wb) = ReadRegister(registers, m_wb.rd)
  BY DEF SeqInv, ResultsSettled
<1>2. registers \in RegisterArray /\ m_wb.rd \in RegNumber
  BY DEF TypeOK, ArchitectureType, PipelineRegistersType, M_WBRegisters
<1> QED
  BY <1>1, <1>2, WriteAgain, SequentialView

(* A step inside a cycle shows nothing of itself. *)
LEMMA QuietStep ==
  ASSUME ~Pipelining, phase # "stopped", phase' # "stopped",
         UNCHANGED <<architecture, pipelineRegisters, stage, reason>>
  PROVE  UNCHANGED H!vars
<1>1. UNCHANGED <<Address, PC, registers, m_wb, text, memory, output, shouldHalt>>
      /\ Writes(m_wb)' = Writes(m_wb) /\ WriteBackValue(m_wb)' = WriteBackValue(m_wb)
  BY DEF architecture, pipelineRegisters, Address, Writes, WriteBackValue
<1>2. OldestPending' = OldestPending /\ SettledRegisters' = SettledRegisters
  BY <1>1, SequentialView, SequentialViewNext DEF Address
<1>3. HartStatus' = HartStatus
  BY <1>1 DEF HartStatus
<1> QED
  BY <1>1, <1>2, <1>3 DEF H!vars

(* Nor does the clock pulse of a stage before MEM, as long as the hart is at *)
(* the same instruction. *)
LEMMA EarlyPulse ==
  ASSUME ~Pipelining, phase # "stopped", phase' # "stopped",
         UNCHANGED <<text, registers, memory, output, shouldHalt, m_wb, reason>>,
         stage \in {IF_, ID, EX}, stage' \in ID .. MEM,
         if_id'.PC = (IF stage = IF_ THEN PC ELSE Address)
  PROVE  UNCHANGED H!vars
<1>1. Writes(m_wb)' = Writes(m_wb) /\ WriteBackValue(m_wb)' = WriteBackValue(m_wb)
  BY DEF Writes, WriteBackValue
<1>2. OldestPending' = OldestPending
  BY SequentialView, SequentialViewNext
<1>3. SettledRegisters' = SettledRegisters
  BY <1>1, SequentialView, SequentialViewNext
<1>4. HartStatus' = HartStatus
  BY DEF HartStatus
<1> QED
  BY <1>2, <1>3, <1>4 DEF H!vars

(* An exception before WB is where the hart stops, and for the same reason.  *)
LEMMA ThrowStops ==
  ASSUME TypeOK, SeqInv, ~Pipelining, NEW why \in StopReason, Throw(why),
         phase # "stopped", stage # WB,
         UNCHANGED architecture, if_id' = if_id,
         StopsAt(IF stage = IF_ THEN PC ELSE Address, registers, why)
  PROVE  H!Next
<1>1. phase' = "stopped" /\ stage' = stage /\ reason' = why
  BY DEF Throw
<1>2. ~shouldHalt /\ reason = "running"
  BY DEF SeqInv, ResultsSettled
<1>3. HartStatus = "running" /\ HartStatus' = why
  BY <1>1, <1>2 DEF HartStatus, architecture
<1>4. stage \in Stages
  BY DEF TypeOK, LoopType
<1>5. OldestPending = (IF stage = IF_ THEN PC ELSE Address) /\ OldestPending' = OldestPending
  BY <1>1, <1>4, SequentialView, SequentialViewNext DEF Stages, architecture, Address
<1>6. SettledRegisters = registers /\ SettledRegisters' = registers
  BY <1>1, RegistersCurrent, SequentialViewNext DEF architecture
<1> QED
  BY <1>3, <1>5, <1>6, HartStops DEF architecture

(* IF stops where the hart does. *)
LEMMA FetchThrows ==
  ASSUME TypeOK, SeqInv, ~Pipelining, At("propagate", IF_), FetchFails \/ FetchEndMarker,
         UNCHANGED <<architecture, pipelineRegisters>>
  PROVE  H!Next
<1>1. UNCHANGED if_id /\ stage = IF_ /\ phase # "stopped"
  BY DEF pipelineRegisters, At
<1>2. CASE FetchFails
  BY <1>1, <1>2, ThrowStops DEF FetchFails, StopsAt, StopReason
<1>3. CASE FetchEndMarker
  BY <1>1, <1>3, ThrowStops DEF FetchEndMarker, StopsAt, StopReason
<1> QED
  BY <1>2, <1>3

(* ID stops at an instruction the hart does not know. *)
LEMMA DecodeThrows ==
  ASSUME TypeOK, SeqInv, ~Pipelining, DecodeClockPulse, DecodeIllegal
  PROVE  H!Next
<1>1. /\ phase = "clockPulse" /\ stage = ID
      /\ UNCHANGED <<architecture, if_id>> /\ Throw("illegalInstruction")
  BY DEF DecodeClockPulse, DecodeIllegal, At
<1>2. Address \in DOMAIN text /\ Current = text[Address] /\ Current # TestEndMarker
      /\ decode.instruction = Current
  BY <1>1 DEF SeqInv, RegistersDone, BuffersDone, DecodeDone, At
<1>3. Current.opcode = "UNKNOWN"
  <2>1. Current \in Instruction /\ ~IsLegal(Current)
    BY <1>2 DEF DecodeIllegal, Current, TypeOK, PipelineRegistersType, IF_IDRegisters
  <2> QED
    BY <2>1 DEF Instruction, IsLegal, Opcode
<1> QED
  BY <1>1, <1>2, <1>3, ThrowStops DEF StopsAt, StopReason

(* MEM's propagate stops at an access the hart cannot do. *)
LEMMA MemoryThrows ==
  ASSUME TypeOK, SeqInv, ~Pipelining, MemoryPropagate, MemoryFault
  PROVE  H!Next
<1>1. /\ phase = "propagate" /\ stage = MEM /\ phase # "stopped"
      /\ UNCHANGED <<architecture, if_id>> /\ Throw("illegalAccess")
  BY DEF MemoryPropagate, MemoryFault, At, pipelineRegisters
<1>2. /\ Address \in DOMAIN text /\ Current = text[Address]
      /\ ex_m.control = SetFromInstruction(Current)
      /\ ex_m.aluResult = Computed(Current, Address, Value1, Value2)
  BY <1>1 DEF SeqInv, RegistersDone
<1>3. Current \in Instruction
  BY DEF Current, TypeOK, PipelineRegistersType, IF_IDRegisters
<1>4. /\ ex_m.control.memRead = (Current.opcode = "LOAD")
      /\ ex_m.control.memWrite = (Current.opcode = "STORE")
      /\ ex_m.control.memSize = AccessSize(Current)
  BY <1>2, <1>3, MemorySignals
<1>5. Current.opcode \in {"LOAD", "STORE"} => ex_m.aluResult = Wrap(Value1 + Current.imm)
  BY <1>2 DEF Computed
<1>6. \/ Current.opcode = "LOAD" /\ Refused(Current, Value1, FALSE)
      \/ Current.opcode = "STORE" /\ Refused(Current, Value1, TRUE)
  BY <1>4, <1>5 DEF MemoryFault, ReadAccess, Refused
<1>7. StopsAt(Address, registers, "illegalAccess")
  BY <1>2, <1>6 DEF StopsAt, Value1
<1>8. stage # IF_ /\ stage # WB
  BY <1>1
<1> QED
  BY <1>1, <1>7, <1>8, ThrowStops DEF StopReason

(* The clock pulse of MEM is the step of the hart. *)
LEMMA MemoryPulseExecutes ==
  ASSUME TypeOK, SeqInv, ~Pipelining, MemoryClockPulse
  PROVE  H!Next
<1> DEFINE i == Current
           u == Value1
           v == Value2
           client == Access(Wrap(u + i.imm), AccessSize(i), TRUE)
<1>1. /\ phase = "clockPulse" /\ stage = MEM /\ phase # "stopped"
      /\ UNCHANGED <<text, PC, registers, if_id>>
  BY DEF MemoryClockPulse, At
<1>2. /\ Address \in DOMAIN text /\ i = text[Address] /\ IsLegal(i)
      /\ PC = NextAddress(i, Address, u, v)
      /\ ~shouldHalt /\ reason = "running"
  BY <1>1 DEF SeqInv, RegistersDone, ResultsSettled, At
<1>3. /\ memoryStage.rd = i.rd /\ memoryStage.control = SetFromInstruction(i)
      /\ memoryStage.aluResult = Computed(i, Address, u, v)
      /\ i.opcode = "LOAD" =>
           ~Refused(i, u, FALSE) /\ memoryStage.memData = Result(i, Address, u, v, memory)
      /\ dataMemory.writeEnable <=> i.opcode = "STORE"
      /\ i.opcode = "STORE" =>
           /\ AccessSize(i) # 0 /\ WriteAccess = client
           /\ dataMemory.addr = Wrap(u + i.imm) /\ dataMemory.size = AccessSize(i)
           /\ dataMemory.dataIn = v
  BY <1>1 DEF SeqInv, BuffersDone, MemoryDone, At, WriteAccess
<1>4. i \in Instruction
  BY DEF Current, TypeOK, PipelineRegistersType, IF_IDRegisters
<1>5. /\ memoryStage.control.memToReg = (i.opcode = "LOAD")
      /\ memoryStage.control.regWrite = ChangesRegister(i)
  BY <1>2, <1>3, <1>4, MemorySignals DEF IsLegal, KnownOpcode, ChangesRegister
<1>6. OldestPending = Address /\ SettledRegisters = registers
  BY <1>1, RegistersCurrent, SequentialView
<1>7. CASE Throw("illegalAccess") /\ dataMemory.writeEnable /\ WriteAccess = "illegal"
           /\ UNCHANGED <<memory, output, shouldHalt>>
  <2>1. Refused(i, u, TRUE) /\ i.opcode = "STORE"
    BY <1>3, <1>7 DEF Refused
  <2>2. StopsAt(Address, registers, "illegalAccess")
    BY <1>2, <2>1 DEF StopsAt, Value1
  <2>3. stage # IF_ /\ stage # WB /\ UNCHANGED architecture
    BY <1>1, <1>7 DEF architecture
  <2> QED
    BY <1>1, <1>7, <2>2, <2>3, ThrowStops DEF StopReason
<1>8. ASSUME WriteNothing \/ WriteMemory \/ WriteSerial \/ WriteSysStatus,
             m_wb' = memoryStage, EndClockPulse
      PROVE  H!Next
  <2>1. phase' = "loop" /\ stage' = WB /\ reason' = reason
    BY <1>1, <1>8, SequentialMoves DEF TypeOK
  <2>2. OldestPending' = PC
    BY <1>1, <2>1, SequentialViewNext
  <2>3. WriteBackValue(memoryStage) = Result(i, Address, u, v, memory)
    BY <1>3, <1>5 DEF WriteBackValue, Result
  <2>4. Writes(m_wb)' = (ChangesRegister(i) /\ i.rd # 0)
        /\ WriteBackValue(m_wb)' = WriteBackValue(memoryStage) /\ m_wb'.rd = i.rd
    BY <1>3, <1>5, <1>8 DEF Writes, WriteBackValue
  <2>5. SettledRegisters' =
          IF ChangesRegister(i) THEN WriteRegister(registers, i.rd, Result(i, Address, u, v, memory))
          ELSE registers
    BY <1>1, <2>1, <2>3, <2>4, SequentialViewNext DEF WriteRegister
  <2>6. i.opcode # "STORE" => memory' = memory /\ output' = output /\ ~shouldHalt'
    BY <1>2, <1>3, <1>8 DEF WriteNothing, WriteMemory, WriteSerial, WriteSysStatus
  <2>7. ASSUME i.opcode = "STORE"
        PROVE  /\ AccessSize(i) # 0 /\ client # "illegal"
               /\ memory' = IF client = "memory"
                              THEN Store(memory, Wrap(u + i.imm), AccessSize(i), v) ELSE memory
               /\ output' = IF client = "serial" THEN Append(output, LowByte(v)) ELSE output
               /\ shouldHalt' <=> client = "sysStatus"
    <3>1. /\ dataMemory.writeEnable /\ AccessSize(i) # 0 /\ WriteAccess = client /\ ~shouldHalt
          /\ dataMemory.addr = Wrap(u + i.imm) /\ dataMemory.size = AccessSize(i)
          /\ dataMemory.dataIn = v
      BY <1>2, <1>3, <2>7
    <3> HIDE DEF i, u, v, client
    <3>2. CASE WriteMemory
      BY <3>1, <3>2 DEF WriteMemory
    <3>3. CASE WriteSerial
      BY <3>1, <3>3 DEF WriteSerial
    <3>4. CASE WriteSysStatus
      BY <3>1, <3>4 DEF WriteSysStatus
    <3> QED
      BY <1>8, <3>1, <3>2, <3>3, <3>4 DEF WriteNothing
  <2> DEFINE halts == client = "sysStatus" /\ i.opcode = "STORE"
  <2>8. halts \in BOOLEAN /\ HartStatus = "running"
        /\ HartStatus' = (IF halts THEN "halt" ELSE "running")
    BY <1>2, <2>1, <2>6, <2>7 DEF HartStatus
  <2>9. Executes(i, Address, SettledRegisters, memory, output, OldestPending',
                 SettledRegisters', memory', output', halts)
    BY <1>2, <1>3, <1>6, <2>2, <2>5, <2>6, <2>7 DEF Executes, Refused, Value1, Value2
  <2> QED
    BY <1>1, <1>2, <1>6, <2>8, <2>9, HartExecutes
<1> QED
  BY <1>7, <1>8 DEF MemoryClockPulse

(* WB does what the hart has already seen. *)
LEMMA WriteBackQuiet ==
  ASSUME TypeOK, SeqInv, ~Pipelining, WriteBackClockPulse
  PROVE  UNCHANGED H!vars
<1>1. /\ At("clockPulse", WB) /\ EndClockPulse
      /\ UNCHANGED <<text, PC, memory, output, shouldHalt, m_wb>>
  BY DEF WriteBackClockPulse, pipelineRegisters
<1>2. phase' = "loop" /\ stage' = IF_ /\ reason' = reason
  BY <1>1, SequentialMoves DEF At, TypeOK
<1>3. /\ writeBack.rd = m_wb.rd /\ writeBack.writeData = WriteBackValue(m_wb)
      /\ writeBack.writeEnable = m_wb.control.regWrite
  BY <1>1 DEF SeqInv, ResultsSettled, At
<1>4. registers' = IF Writes(m_wb) THEN WriteRegister(registers, m_wb.rd, WriteBackValue(m_wb))
                   ELSE registers
  BY <1>3 DEF WriteBackClockPulse, Writes, WriteRegister
<1>5. TypeOK' /\ SeqInv'
  BY NextType, WriteBackClockPulseSeq DEF Next
<1>6. SettledRegisters' = registers'
  <2>1. (TypeOK /\ SeqInv /\ ~Pipelining /\ phase # "stopped" /\ stage # WB =>
           SettledRegisters = registers)'
    BY RegistersCurrent, PTL
  <2> QED
    BY <1>2, <1>5, <2>1
<1>7. SettledRegisters = registers'
  BY <1>1, <1>4, SequentialView DEF At
<1>8. OldestPending = PC /\ OldestPending' = PC
  BY <1>1, <1>2, SequentialView, SequentialViewNext DEF At
<1> QED
  BY <1>1, <1>2, <1>6, <1>7, <1>8 DEF H!vars, HartStatus

(* The loop runs only with nothing to stop for. *)
LEMMA HaltQuiet == ASSUME SeqInv, ~Pipelining, Halt PROVE UNCHANGED H!vars
<1>1. /\ phase = "loop" /\ shouldHalt /\ UNCHANGED <<architecture, pipelineRegisters>>
      /\ phase' = "stopped" /\ stage' = stage
  BY DEF Halt, Throw
<1>2. ~Writes(m_wb)
  BY <1>1 DEF SeqInv, ResultsSettled
<1>3. OldestPending' = OldestPending /\ SettledRegisters' = SettledRegisters
  BY <1>1, <1>2, SequentialView, SequentialViewNext DEF architecture, pipelineRegisters, Address
<1> QED
  BY <1>1, <1>3 DEF H!vars, HartStatus, architecture

(* Every step of the processor is one of the hart or shows nothing. *)
LEMMA SequentialStep ==
  ASSUME TypeOK, SeqInv, ~Pipelining, Next
  PROVE  H!Next \/ UNCHANGED H!vars
<1>1. CASE BeginCycle
  BY <1>1, QuietStep DEF BeginCycle
<1>2. CASE Halt
  BY <1>2, HaltQuiet
<1>3. CASE FetchPropagate
  <2>1. FetchFails \/ FetchEndMarker \/ FetchInstruction
    BY <1>3 DEF FetchPropagate, FetchNothing, SeqInv, At
  <2>2. CASE FetchInstruction
    <3>1. EndPropagate
      BY <2>2 DEF FetchInstruction
    <3> QED
      BY <1>3, <3>1, SequentialMoves, QuietStep DEF FetchPropagate, At, TypeOK
  <2> QED
    BY <1>3, <2>1, <2>2, FetchThrows DEF FetchPropagate
<1>4. CASE DecodePropagate \/ ExecutePropagate \/ WriteBackPropagate
  <2>1. /\ EndPropagate /\ phase = "propagate"
        /\ UNCHANGED <<architecture, pipelineRegisters>>
    BY <1>4 DEF DecodePropagate, ExecutePropagate, WriteBackPropagate, At
  <2> QED
    BY <2>1, SequentialMoves, QuietStep DEF TypeOK
<1>5. CASE MemoryPropagate
  <2>1. CASE MemoryFault
    BY <1>5, <2>1, MemoryThrows
  <2>2. CASE NoMemoryAccess \/ MemoryAccess
    <3>1. EndPropagate
      BY <2>2 DEF NoMemoryAccess, MemoryAccess
    <3> QED
      BY <1>5, <3>1, SequentialMoves, QuietStep DEF MemoryPropagate, At, TypeOK
  <2> QED
    BY <1>5, <2>1, <2>2 DEF MemoryPropagate
<1>6. CASE FetchClockPulse
  <2>1. /\ At("clockPulse", IF_) /\ EndClockPulse /\ FetchAdvance
        /\ UNCHANGED <<text, registers, memory, output, shouldHalt, m_wb>>
    BY <1>6 DEF FetchClockPulse, SeqInv, At
  <2>2. if_id'.PC = PC
    BY <2>1 DEF FetchAdvance, SeqInv, BuffersDone, FetchDone, At
  <2> QED
    BY <2>1, <2>2, SequentialMoves, EarlyPulse DEF At, TypeOK
<1>7. CASE DecodeClockPulse
  <2>1. CASE DecodeIssue
    <3>1. /\ At("clockPulse", ID) /\ EndClockPulse
          /\ UNCHANGED <<architecture, if_id, m_wb>>
      BY <1>7, <2>1 DEF DecodeClockPulse, DecodeIssue
    <3> QED
      BY <3>1, SequentialMoves, EarlyPulse DEF At, TypeOK, architecture, Address
  <2> QED
    BY <1>7, <2>1, DecodeThrows DEF DecodeClockPulse, DecodeSquash, Squashed
<1>8. CASE ExecuteClockPulse
  <2>1. /\ At("clockPulse", EX) /\ EndClockPulse
        /\ UNCHANGED <<text, registers, memory, output, shouldHalt, if_id, m_wb>>
    BY <1>8 DEF ExecuteClockPulse
  <2> QED
    BY <2>1, SequentialMoves, EarlyPulse DEF At, TypeOK, Address
<1> QED
  BY <1>1, <1>2, <1>3, <1>4, <1>5, <1>6, <1>7, <1>8, MemoryPulseExecutes, WriteBackQuiet
     DEF Next

(* And it begins as the hart does. *)
LEMMA SequentialInit == ASSUME ~Pipelining, Init PROVE H!Init
<1>1. TypeOK /\ stage = IF_ /\ PC = Entry /\ ~Writes(m_wb)
  BY InitType DEF Init, Writes, EmptyMemory, NoSignals
<1>2. OldestPending = Entry /\ SettledRegisters = registers
  BY <1>1, SequentialView
<1>3. H!IsProgram(text) /\ registers \in H!RegisterArray
  BY <1>1 DEF TypeOK, ArchitectureType, IsProgram, H!IsProgram, RegisterArray, H!RegisterArray,
              Word, H!Word, Instruction, H!Instruction, RegNumber, H!RegNumber,
              Opcode, H!Opcode, KnownOpcode, H!KnownOpcode
<1> QED
  BY <1>1, <1>2, <1>3 DEF H!Init, Init, HartStatus, TypeOK, ArchitectureType

(* Without pipelining every run of the processor is a run of the hart: each  *)
(* instruction has its whole effect on pc, registers, memory and serial      *)
(* output, in program order and once, and the run stops where and why the    *)
(* hart does, be it at a halt, the end of the text or a fault.               *)
THEOREM SequentialImplementsHart ==
  ASSUME ~Pipelining PROVE Spec => ImplementsHart
<1>1. Init => H!Init
  BY SequentialInit
<1>2. Init => TypeOK /\ SeqInv
  BY InitType, InitSeqInv
<1>3. TypeOK /\ SeqInv /\ [Next]_vars => TypeOK' /\ SeqInv'
  BY NextType, NextSeqInv
<1>4. TypeOK /\ SeqInv /\ [Next]_vars => [H!Next]_(H!vars)
  <2> SUFFICES ASSUME TypeOK, SeqInv, [Next]_vars PROVE H!Next \/ UNCHANGED H!vars
    OBVIOUS
  <2>1. CASE UNCHANGED vars
    <3>1. UNCHANGED <<architecture, pipelineRegisters, phase, stage, reason>>
      BY <2>1 DEF vars, loop
    <3>2. /\ UNCHANGED <<text, PC, registers, memory, output, shouldHalt, if_id, m_wb>>
      BY <3>1 DEF architecture, pipelineRegisters
    <3>3. OldestPending' = OldestPending /\ SettledRegisters' = SettledRegisters
      BY <3>1, <3>2, SequentialView, SequentialViewNext DEF Address, Writes, WriteBackValue
    <3> QED
      BY <3>1, <3>2, <3>3 DEF H!vars, HartStatus
  <2> QED
    BY <2>1, SequentialStep
<1> QED
  BY <1>1, <1>2, <1>3, <1>4, PTL DEF Spec, ImplementsHart, H!Spec
=============================================================================
