--------------------------- MODULE InstFormatter ---------------------------
(***************************************************************************)
(* The instruction printer (inst-formatter.cc), which -x, -X and the debug  *)
(* output use: it takes the same word apart as the control unit, with       *)
(* tables of its own, and takes apart compressed instructions, which the    *)
(* pipeline does not execute.  A line is a mnemonic, registers in the order *)
(* they are printed, and an immediate; the punctuation is left out.         *)
(***************************************************************************)
EXTENDS InstDecoder

Line(mnemonic, registers, imm) ==
  [mnemonic |-> mnemonic, registers |-> registers, imm |-> imm, wraps |-> 0]

(* What the catch of IllegalInstruction prints. *)
Illegal == Line("illegal instruction", <<>>, 0)

(* funct3, funct7 and the mnemonic they select. *)
AnyFunct7(funct3, mnemonic) == {<<funct3, funct7, mnemonic>> : funct7 \in 0 .. 127}

OpMnemonics ==
  {<<0, 0, "add">>, <<0, 32, "sub">>, <<1, 0, "sll">>, <<2, 0, "slt">>, <<3, 0, "sltu">>,
   <<4, 0, "xor">>, <<5, 0, "srl">>, <<5, 32, "sra">>, <<6, 0, "or">>, <<7, 0, "and">>}

Op32Mnemonics ==
  {<<0, 0, "addw">>, <<0, 32, "subw">>, <<1, 0, "sllw">>, <<5, 0, "srlw">>, <<5, 32, "sraw">>}

OpImmMnemonics ==
  AnyFunct7(0, "addi") \cup AnyFunct7(2, "slti") \cup AnyFunct7(3, "sltiu") \cup
  AnyFunct7(4, "xori") \cup AnyFunct7(6, "ori") \cup AnyFunct7(7, "andi") \cup
  {<<1, 0, "slli">>, <<5, 0, "srli">>, <<5, 32, "srai">>}

(* Mutant: the arithmetic shift of words is printed as the logical one. *)
OpImm32MnemonicsUnsigned ==
  AnyFunct7(0, "addiw") \cup {<<1, 0, "slliw">>, <<5, 0, "srliw">>, <<5, 32, "srliw">>}

OpImm32Mnemonics ==
  AnyFunct7(0, "addiw") \cup {<<1, 0, "slliw">>, <<5, 0, "srliw">>, <<5, 32, "sraiw">>}

LoadMnemonics == <<"lb", "lh", "lw", "ld", "lbu", "lhu", "lwu">>

StoreMnemonics == <<"sb", "sh", "sw", "sd">>

BranchMnemonics ==
  {<<0, "beq">>, <<1, "bne">>, <<4, "blt">>, <<5, "bge">>, <<6, "bltu">>, <<7, "bgeu">>}

(* The line of the mnemonic a table gives, or the throw of IllegalInstruction. *)
Select(mnemonics, registers, imm) ==
  IF mnemonics = {} THEN Illegal ELSE Line(CHOOSE m \in mnemonics : TRUE, registers, imm)

ByFunct(table) == {e[3] : e \in {o \in table : o[1] = GetFunct3 /\ o[2] = GetFunct7}}

ByFunct3(mnemonics) ==
  {mnemonics[k] : k \in {GetFunct3 + 1} \cap DOMAIN mnemonics}

FormatOpType == Select(ByFunct(OpMnemonics), <<GetRD, GetRS1, GetRS2>>, 0)

FormatOp32Type == Select(ByFunct(Op32Mnemonics), <<GetRD, GetRS1, GetRS2>>, 0)

(* A shift prints imm & 0x3F, imm & 0x1F for the shifts of words. *)
ShiftOr(places) == IF GetFunct3 \in {1, 5} THEN GetImmediateI % places ELSE GetImmediateI

FormatOpImm == Select(ByFunct(OpImmMnemonics), <<GetRD, GetRS1>>, ShiftOr(64))

FormatOpImm32 == Select(ByFunct(OpImm32Mnemonics), <<GetRD, GetRS1>>, ShiftOr(32))

FormatBranch ==
  Select({e[2] : e \in {b \in BranchMnemonics : b[1] = GetFunct3}},
         <<GetRS1, GetRS2>>, GetImmediateB)

(* signExtend of the formatter works on 32 bits and is widened without the   *)
(* sign: a negative value v is printed as v + wraps * 2^32, wraps = 1.        *)
SignExtended(line, bits) ==
  LET value == SignExtend(line.imm, bits)
  IN  [line EXCEPT !.imm = value, !.wraps = IF value < 0 THEN 1 ELSE 0]

SplitImmediate == Bits(12, 1) * TwoTo[5] + Bits(2, 5)

(* Mutant: bits 2 and 3 of the immediate are taken for each other. *)
StackImmediateSwapped ==
  Bits(11, 2) * TwoTo[4] + Bits(7, 4) * TwoTo[6] + Bits(6, 1) * TwoTo[3] + Bits(5, 1) * TwoTo[2]

(* nzuimm of C.ADDI4SPN. *)
StackImmediate ==
  Bits(11, 2) * TwoTo[4] + Bits(7, 4) * TwoTo[6] + Bits(6, 1) * TwoTo[2] + Bits(5, 1) * TwoTo[3]

FormatCompressed ==
  LET quadrant == Bits(0, 2)
      funct3   == Bits(13, 3)
  IN CASE quadrant = 0 /\ funct3 = 0 ->
            Line("addi", <<Bits(2, 3) + 8, 2>>, StackImmediate)
       [] quadrant = 1 /\ funct3 = 1 ->
            SignExtended(Line("addiw", <<Bits(7, 5), Bits(7, 5)>>, SplitImmediate), 6)
       [] quadrant = 2 /\ funct3 = 0 ->
            Line("slli", <<Bits(7, 5), Bits(7, 5)>>, SplitImmediate)
       [] OTHER -> Illegal

(* The output operator. *)
Printed ==
  CASE Bits(0, 2) # 3          -> FormatCompressed
    [] GetOpcode = "OP"        -> FormatOpType
    [] GetOpcode = "OP_IMM"    -> FormatOpImm
    [] GetOpcode = "OP_32"     -> FormatOp32Type
    [] GetOpcode = "OP_IMM_32" -> FormatOpImm32
    [] GetOpcode = "LOAD"      -> Select(ByFunct3(LoadMnemonics), <<GetRD, GetRS1>>, GetImmediateI)
    [] GetOpcode = "STORE"     -> Select(ByFunct3(StoreMnemonics), <<GetRS2, GetRS1>>, GetImmediateS)
    [] GetOpcode = "BRANCH"    -> FormatBranch
    [] GetOpcode = "JALR"      -> Line("jalr", <<GetRD, GetRS1>>, GetImmediateI)
    [] GetOpcode = "JAL"       -> Line("jal", <<GetRD>>, GetImmediateJ)
    [] GetOpcode = "LUI"       -> Line("lui", <<GetRD>>, GetImmediateU)
    [] GetOpcode = "AUIPC"     -> Line("auipc", <<GetRD>>, GetImmediateU)
    [] OTHER                   -> Illegal

----------------------------------------------------------------------------
(* What the mnemonics of the instruction set stand for.                      *)

RegisterForm ==
  [ADD |-> "add", SUB |-> "sub", SLL |-> "sll", SLT |-> "slt", SLTU |-> "sltu",
   XOR |-> "xor", SRL |-> "srl", SRA |-> "sra", OR |-> "or", AND |-> "and",
   ADDW |-> "addw", SUBW |-> "subw", SLLW |-> "sllw", SRLW |-> "srlw", SRAW |-> "sraw"]

ImmediateForm ==
  [ADD |-> "addi", SLL |-> "slli", SLT |-> "slti", SLTU |-> "sltiu", XOR |-> "xori",
   SRL |-> "srli", SRA |-> "srai", OR |-> "ori", AND |-> "andi",
   ADDW |-> "addiw", SLLW |-> "slliw", SRLW |-> "srliw", SRAW |-> "sraiw"]

Loads == [lb |-> <<1, TRUE>>, lh |-> <<2, TRUE>>, lw |-> <<4, TRUE>>, ld |-> <<8, FALSE>>,
          lbu |-> <<1, FALSE>>, lhu |-> <<2, FALSE>>, lwu |-> <<4, FALSE>>]

Stores == [sb |-> 1, sh |-> 2, sw |-> 4, sd |-> 8]

(* The operations an opcode alone selects. *)
OpcodeForm == [JALR |-> "jalr", JAL |-> "jal", LUI |-> "lui", AUIPC |-> "auipc"]

(* Branches on small registers: those of 2^4 values show every relation of   *)
(* two operands as signed and as unsigned numbers.                           *)
Small == INSTANCE RV64I WITH
  Modulus <- 16, NumRegs <- 32, MemoryState <- {},
  ALU <- LAMBDA op, a, b : 0, Access <- LAMBDA a, size, write : "illegal",
  Load <- LAMBDA m, a, size, signExtend : 0, Store <- LAMBDA m, a, size, value : m,
  LowByte <- LAMBDA value : value

Condition(mnemonic, a, b) ==
  CASE mnemonic = "beq"  -> a = b
    [] mnemonic = "bne"  -> a # b
    [] mnemonic = "blt"  -> Small!Signed(a) < Small!Signed(b)
    [] mnemonic = "bge"  -> Small!Signed(a) >= Small!Signed(b)
    [] mnemonic = "bltu" -> a < b
    [] mnemonic = "bgeu" -> a >= b
    [] OTHER             -> FALSE

(* The places a shift moves by, of the ALU's operand B: alu.cc. *)
Places(op, b) == IF op \in {"SLLW", "SRLW", "SRAW"} THEN b % 32 ELSE b % 64

(* The line printed for a word names the operation the control unit and the  *)
(* stages carry out for it, with the place count the ALU will use and the    *)
(* condition the branch will evaluate, and a word printed as illegal is one  *)
(* the pipeline refuses, or that reads and writes no memory, leaves the ALU  *)
(* at NOP and never branches.                                                *)
PrintsWhatRuns ==
  isSet /\ GetOpcode \in KnownOpcode =>
    LET p     == Printed
        i     == Decoded
        s     == SetFromInstruction(i)
        named == IF p = Illegal THEN {} ELSE {p.mnemonic}
        Forms(form) == IF s.aluOp \in DOMAIN form THEN {form[s.aluOp]} ELSE {}
    IN CASE i.opcode \in {"OP", "OP_32"} -> named = Forms(RegisterForm)
         [] i.opcode \in {"OP_IMM", "OP_IMM_32"} ->
              /\ named = Forms(ImmediateForm)
              /\ named # {} => p.imm = IF IsShift(i) THEN Places(s.aluOp, i.imm) ELSE i.imm
         [] i.opcode = "LOAD" ->
              named = {m \in DOMAIN Loads : Loads[m][1] = s.memSize
                                             /\ (s.memSize # 8 => Loads[m][2] = s.memSignExtend)}
         [] i.opcode = "STORE" -> named = {m \in DOMAIN Stores : Stores[m] = s.memSize}
         [] i.opcode = "BRANCH" ->
              \A a, b \in Small!Word :
                Condition(p.mnemonic, a, b) = Small!EvaluateBranch(i.funct3, a, b)
         [] OTHER ->
              /\ named = {OpcodeForm[i.opcode]} /\ p.imm = i.imm
              /\ s.jump = (p.mnemonic \in {"jal", "jalr"})

(* The formatter gives back the register and the immediate of a compressed   *)
(* instruction whatever parcel follows it, a negative immediate up to a      *)
(* multiple of 2^32, and knows no other word of 16 bits.                     *)
CompressedAsEncoded ==
  isSet /\ Bits(0, 2) # 3 =>
    LET p == Printed IN
      IF source.opcode \in DOMAIN CompressedForm
        THEN p.registers[1] = source.rd /\ p.imm = source.imm
        ELSE p = Illegal
============================================================================
