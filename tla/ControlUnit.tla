---------------------------- MODULE ControlUnit ----------------------------
(***************************************************************************)
(* The control signals of an instruction (ControlSignals in stages.cc): a   *)
(* function of its opcode, funct3 and funct7.                               *)
(***************************************************************************)
EXTENDS Integers

KnownOpcode == {"OP", "OP_IMM", "OP_32", "OP_IMM_32", "LOAD", "STORE",
                "BRANCH", "JALR", "JAL", "LUI", "AUIPC"}
Opcode == KnownOpcode \cup {"UNKNOWN"}

(* getImmediate throws IllegalInstruction when the opcode has no type. *)
IsLegal(i) == i.opcode \in KnownOpcode

InstructionUsesRS2(opcode) == opcode \in {"OP", "OP_32", "STORE", "BRANCH"}

ALUOp == {"NOP", "ADD", "SUB", "SLL", "SLT", "SLTU", "XOR", "SRL", "SRA",
          "OR", "AND", "ADDW", "SUBW", "SLLW", "SRLW", "SRAW"}

----------------------------------------------------------------------------
(* The control signals of ControlSignals::setFromInstruction.               *)

ControlSignals == [regWrite : BOOLEAN, aluSrc : BOOLEAN, memRead : BOOLEAN,
                   memWrite : BOOLEAN, memToReg : BOOLEAN, branch : BOOLEAN,
                   jump : BOOLEAN, aluOp : ALUOp, memSize : {0, 1, 2, 4, 8},
                   memSignExtend : BOOLEAN]

NoSignals == [regWrite |-> FALSE, aluSrc |-> FALSE, memRead |-> FALSE,
              memWrite |-> FALSE, memToReg |-> FALSE, branch |-> FALSE,
              jump |-> FALSE, aluOp |-> "NOP", memSize |-> 0,
              memSignExtend |-> FALSE]

(* funct3, funct7 and the operation they select; any other pair leaves NOP. *)
OpOperations ==
  {<<0, 0, "ADD">>, <<0, 32, "SUB">>, <<1, 0, "SLL">>, <<2, 0, "SLT">>,
   <<3, 0, "SLTU">>, <<4, 0, "XOR">>, <<5, 0, "SRL">>, <<5, 32, "SRA">>,
   <<6, 0, "OR">>, <<7, 0, "AND">>}
Op32Operations ==
  {<<0, 0, "ADDW">>, <<0, 32, "SUBW">>, <<1, 0, "SLLW">>, <<5, 0, "SRLW">>,
   <<5, 32, "SRAW">>}

(* Mutant: one table for both forms. *)
OpImmOperationsOfRegisters == OpOperations

(* The immediate forms ignore funct7 (it holds immediate bits) except for   *)
(* the shifts; there is no subtract immediate.                              *)
OpImmOperations ==
  {e \in OpOperations : e[1] \in {1, 5}} \cup
  {<<e[1], f7, e[3]>> : e \in {o \in OpOperations : o[1] \notin {1, 5} /\ o[2] = 0},
                        f7 \in 0 .. 127}
OpImm32Operations ==
  {e \in Op32Operations : e[1] \in {1, 5}} \cup {<<0, f7, "ADDW">> : f7 \in 0 .. 127}

Selected(operations, i) ==
  IF \E op \in ALUOp : <<i.funct3, i.funct7, op>> \in operations
  THEN CHOOSE op \in ALUOp : <<i.funct3, i.funct7, op>> \in operations
  ELSE "NOP"

AluOperation(i) ==
  CASE i.opcode = "OP"        -> Selected(OpOperations, i)
    [] i.opcode = "OP_IMM"    -> Selected(OpImmOperations, i)
    [] i.opcode = "OP_32"     -> Selected(Op32Operations, i)
    [] i.opcode = "OP_IMM_32" -> Selected(OpImm32Operations, i)
    [] i.opcode = "BRANCH"    -> "SUB"
    [] i.opcode = "UNKNOWN"   -> "NOP"
    [] OTHER                  -> "ADD"

(* Bytes a load or a store moves, 0 when funct3 names no access. *)
AccessSize(i) ==
  CASE i.opcode = "LOAD"  /\ i.funct3 < 7 -> <<1, 2, 4, 8, 1, 2, 4>>[i.funct3 + 1]
    [] i.opcode = "STORE" /\ i.funct3 < 4 -> <<1, 2, 4, 8>>[i.funct3 + 1]
    [] OTHER                              -> 0

SetFromInstruction(i) ==
  [regWrite      |-> i.opcode \notin {"STORE", "BRANCH", "UNKNOWN"},
   aluSrc        |-> i.opcode \notin {"OP", "OP_32", "BRANCH", "UNKNOWN"},
   memRead       |-> i.opcode = "LOAD",
   memWrite      |-> i.opcode = "STORE",
   memToReg      |-> i.opcode = "LOAD",
   branch        |-> i.opcode = "BRANCH",
   jump          |-> i.opcode \in {"JAL", "JALR"},
   aluOp         |-> AluOperation(i),
   memSize       |-> AccessSize(i),
   memSignExtend |-> i.opcode = "LOAD" /\ i.funct3 < 3]
============================================================================
