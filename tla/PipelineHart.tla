---------------------------- MODULE PipelineHart ----------------------------
(***************************************************************************)
(* The processor implements the hart of module Hart.  An instruction is     *)
(* executed, as far as the hart is concerned, when MEM/WB takes it: that is *)
(* when a store changes memory, and when what it writes to its register is  *)
(* settled although WB has yet to do so.                                    *)
(***************************************************************************)
EXTENDS Pipeline

(* The run ended in the middle of the clock pulses: ID found an illegal      *)
(* instruction, or the bus refused the write that MEM had prepared.          *)
ThrownInClockPulse ==
  \/ reason = "illegalInstruction"
  \/ reason = "illegalAccess" /\ dataMemory.writeEnable /\ WriteAccess = "illegal"

(* MEM has not had this cycle's clock pulse: the stages whose register was   *)
(* already overwritten are known from their buffers.                         *)
BeforeMemoryPulse ==
  stage <= MEM /\ (phase = "clockPulse" \/ (phase = "stopped" /\ ThrownInClockPulse))

(* The addresses of the instructions MEM/WB has yet to take, oldest first,   *)
(* 0 for an empty stage; the instruction to be fetched comes last.           *)
Pending ==
  CASE Pipelining /\ BeforeMemoryPulse ->
         <<memoryStage.PC, execute.PC, decode.PC, fetch.PC>>
    [] Pipelining /\ ~BeforeMemoryPulse ->
         <<ex_m.PC, id_ex.PC, if_id.PC, PC>>
    [] ~Pipelining ->
         IF stage \in ID .. MEM THEN <<if_id.PC>> ELSE <<PC>>

FirstNonzero(s) ==
  IF \E k \in DOMAIN s : s[k] # 0
    THEN s[CHOOSE k \in DOMAIN s : s[k] # 0 /\ \A j \in 1 .. k - 1 : s[j] = 0]
    ELSE 0

OldestPending == FirstNonzero(Pending)

(* The register file with the writes WB has yet to do. *)
WrittenBack ==
  LET WithLatched ==
        IF Pipelining /\ phase = "clockPulse" /\ stage = WB /\ writeBack.writeEnable
          THEN WriteRegister(registers, writeBack.rd, writeBack.writeData)
          ELSE registers
  IN  IF Writes(m_wb)
        THEN WriteRegister(WithLatched, m_wb.rd, WriteBackValue(m_wb))
        ELSE WithLatched

(* Once the run has ended WB does no more writes. *)
SettledRegisters == IF phase = "stopped" THEN registers ELSE WrittenBack

HartStatus == IF shouldHalt THEN "halt" ELSE reason

H == INSTANCE Hart WITH pc <- OldestPending, registers <- SettledRegisters,
                        status <- HartStatus

(* Every run of the emulator, whatever overlaps in it, is a run of the hart: *)
(* each instruction of the program has its whole effect on pc, registers,    *)
(* memory and serial output, in program order, exactly once, none from a     *)
(* path not taken has any, and the run stops where and why the hart does.    *)
ImplementsHart == H!Spec

----------------------------------------------------------------------------
(* With pipelining a run that ends on a fault is not such a run: the         *)
(* exception leaves the cycle before the older instructions are through.     *)

(* IF and ID look ahead of the instructions being executed: the hart has yet *)
(* to come to what stopped them, and may never fetch what IF could not.      *)
StatusAtTheFault ==
  IF reason \in {"fetchFailure", "illegalInstruction"} THEN "running" ELSE HartStatus

Ahead == INSTANCE Hart WITH pc <- OldestPending, registers <- WrittenBack,
                            status <- StatusAtTheFault

(* What such a run leaves out is bounded.  A refused access stops it exactly *)
(* at the load or store the hart stops at, with every older instruction      *)
(* executed and no younger one, and all that can be missing is the register  *)
(* write of the one instruction in WB.  A failed fetch or an illegal         *)
(* instruction leaves it at a state the hart goes through, with at most the  *)
(* instructions in ID, EX and MEM not executed.                              *)
FollowsHartToTheFault == Ahead!Spec

(* Where EX's instruction is followed, whatever else may have been fetched.  *)
Successor ==
  IF execute.pcWriteEnable THEN execute.nextPC ELSE Wrap(execute.PC + 4)

(* An illegal instruction that ends the run is one the program comes to: the *)
(* one after the instruction in EX, or with a bubble in EX the one after the *)
(* load in MEM.  What was fetched behind a taken branch or jump, be it data  *)
(* or the end of a function, never ends the run although ID has decoded it.  *)
FaultIsOnPath ==
  reason = "illegalInstruction" =>
    /\ decode.PC \in DOMAIN text
    /\ ~IsLegal(text[decode.PC])
    /\ execute.PC # 0 => decode.PC = Successor
    /\ execute.PC = 0 /\ memoryStage.PC # 0 => decode.PC = Wrap(memoryStage.PC + 4)
============================================================================
