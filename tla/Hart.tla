-------------------------------- MODULE Hart --------------------------------
(***************************************************************************)
(* What the emulator promises: a hardware thread that executes one          *)
(* instruction at a time, in program order, each one completely before the  *)
(* next.  It says what an instruction does, and nothing of stages, control  *)
(* signals, forwarding or stalls; Pipeline is shown to implement it.        *)
(*                                                                          *)
(* The meaning of an instruction is the one the code gives it, so that an   *)
(* unassigned funct7 still computes ALUOp::NOP.                             *)
(***************************************************************************)
EXTENDS RV64I, Sequences

CONSTANT Entry   \* ELFFile::getEntrypoint

VARIABLES
  text,       \* the program
  pc,         \* address of the next instruction
  registers,
  memory,
  output,     \* what the serial port printed
  status      \* "running", or why the thread stopped

vars == <<text, pc, registers, memory, output, status>>

(* Any program, in any memory, with any registers. *)
Init ==
  /\ IsProgram(text)
  /\ pc = Entry
  /\ registers \in RegisterArray
  /\ memory \in MemoryState
  /\ output = <<>>
  /\ status = "running"

----------------------------------------------------------------------------
Instr == text[pc]
Rs1 == ReadRegister(registers, Instr.rs1)
Rs2 == ReadRegister(registers, Instr.rs2)
EffectiveAddress == Wrap(Rs1 + Instr.imm)

(* The thread stops where it is, with nothing changed. *)
Stop(reason) ==
  /\ status' = reason
  /\ UNCHANGED <<text, pc, registers, memory, output>>

FetchFailure == pc \notin DOMAIN text /\ Stop("fetchFailure")

EndMarker == pc \in DOMAIN text /\ Instr = TestEndMarker /\ Stop("endMarker")

(* An instruction of one of some opcodes is executed. *)
Executing(opcodes) ==
  /\ pc \in DOMAIN text
  /\ Instr # TestEndMarker
  /\ Instr.opcode \in opcodes

Illegal == Executing({"UNKNOWN"}) /\ Stop("illegalInstruction")

(* A result for rd, and on to the next instruction. *)
Retire(value) ==
  /\ registers' = WriteRegister(registers, Instr.rd, value)
  /\ pc' = Wrap(pc + 4)
  /\ UNCHANGED <<text, memory, output, status>>

RegisterRegister ==
  Executing({"OP", "OP_32"}) /\ Retire(ALU(AluOperation(Instr), Rs1, Rs2))

RegisterImmediate ==
  Executing({"OP_IMM", "OP_IMM_32"}) /\ Retire(ALU(AluOperation(Instr), Rs1, Wrap(Instr.imm)))

LoadUpper == Executing({"LUI"}) /\ Retire(Wrap(Instr.imm))

AddUpperToPC == Executing({"AUIPC"}) /\ Retire(Wrap(pc + Instr.imm))

MayAccess(write) ==
  AccessSize(Instr) # 0 /\ Access(EffectiveAddress, AccessSize(Instr), write) # "illegal"

ReadMemory ==
  /\ Executing({"LOAD"})
  /\ MayAccess(FALSE)
  /\ Retire(Load(memory, EffectiveAddress, AccessSize(Instr), Instr.funct3 < 3))

BadRead == Executing({"LOAD"}) /\ ~MayAccess(FALSE) /\ Stop("illegalAccess")

WriteMemory ==
  /\ Executing({"STORE"})
  /\ MayAccess(TRUE)
  /\ LET client == Access(EffectiveAddress, AccessSize(Instr), TRUE) IN
       /\ memory' = IF client = "memory"
                      THEN Store(memory, EffectiveAddress, AccessSize(Instr), Rs2)
                      ELSE memory
       /\ output' = IF client = "serial" THEN Append(output, LowByte(Rs2)) ELSE output
       /\ status' = IF client = "sysStatus" THEN "halt" ELSE status
  /\ pc' = Wrap(pc + 4)
  /\ UNCHANGED <<text, registers>>

BadWrite == Executing({"STORE"}) /\ ~MayAccess(TRUE) /\ Stop("illegalAccess")

Branch ==
  /\ Executing({"BRANCH"})
  /\ pc' = IF EvaluateBranch(Instr.funct3, Rs1, Rs2)
             THEN ComputePCRelativeTarget(pc, Instr.imm)
             ELSE Wrap(pc + 4)
  /\ UNCHANGED <<text, registers, memory, output, status>>

Jump ==
  /\ Executing({"JAL", "JALR"})
  /\ registers' = WriteRegister(registers, Instr.rd, Wrap(pc + 4))
  /\ pc' = IF Instr.opcode = "JAL"
             THEN ComputePCRelativeTarget(pc, Instr.imm)
             ELSE JumpRegisterTarget(Rs1, Instr.imm)
  /\ UNCHANGED <<text, memory, output, status>>

Next ==
  /\ status = "running"
  /\ \/ FetchFailure \/ EndMarker \/ Illegal
     \/ RegisterRegister \/ RegisterImmediate \/ LoadUpper \/ AddUpperToPC
     \/ ReadMemory \/ BadRead \/ WriteMemory \/ BadWrite
     \/ Branch \/ Jump

Spec == Init /\ [][Next]_vars
============================================================================
