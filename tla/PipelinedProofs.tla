--------------------------- MODULE PipelinedProofs --------------------------
(***************************************************************************)
(* With pipelining five instructions are under way.  What the clock pulses  *)
(* of a cycle leave in the pipeline registers is known when the last stage  *)
(* has propagated; the proofs follow those registers, which no handler but  *)
(* that one changes.  They end in the hart: the processor follows it.       *)
(***************************************************************************)
EXTENDS PipelineProofs

(* The pipeline registers, and PC, as this cycle's clock pulses leave them:  *)
(* a stage that has yet to receive its pulse is known by its buffer.         *)
ToDecode ==
  IF ~Unpulsed(IF_) THEN if_id
  ELSE IF control.flushFetch THEN EmptyFetch
  ELSE IF control.stallFetch \/ fetch.endMarkerSeen THEN if_id
  ELSE [PC |-> fetch.PC, instruction |-> fetch.instruction]

ToExecute ==
  IF ~Unpulsed(ID) THEN id_ex
  ELSE IF Squashed THEN EmptyDecode
  ELSE [PC |-> decode.PC, instruction |-> decode.instruction,
        readData1 |-> decode.readData1, readData2 |-> decode.readData2,
        control |-> SetFromInstruction(decode.instruction)]

ToMemory ==
  IF ~Unpulsed(EX) THEN ex_m
  ELSE [PC |-> execute.PC, aluResult |-> execute.aluResult, writeData |-> execute.writeData,
        rd |-> execute.rd, control |-> execute.control]

ToWriteBack == IF ~Unpulsed(MEM) THEN m_wb ELSE memoryStage

ToFetch ==
  IF Unpulsed(EX) /\ execute.pcWriteEnable THEN execute.nextPC
  ELSE IF Unpulsed(IF_)
            /\ ~(control.flushFetch \/ control.stallFetch \/ fetch.endMarkerSeen)
         THEN Wrap(PC + 4)
  ELSE PC

(* The countdown after the pulse of IF; 5 means that the end marker has just *)
(* been fetched. *)
Countdown ==
  IF Unpulsed(IF_) THEN fetch.endMarkerCountdown - 1 ELSE fetch.endMarkerCountdown

Ended == fetch.endMarkerSeen /\ Countdown < EndMarkerCountdown

(* The stages run empty one after the other once the marker was fetched. *)
Drained ==
  Ended =>
    /\ ToDecode.PC = 0
    /\ Countdown <= 3 => ToExecute.PC = 0
    /\ Countdown <= 2 => ToMemory.PC = 0
    /\ Countdown <= 1 => ToWriteBack.PC = 0
    /\ Countdown <= 0 => m_wb.PC = 0

(* What the stages that have propagated found. *)
FetchRead ==
  phase = "propagate" /\ stage > IF_ =>
    /\ fetch.PC = PC
    /\ ~fetch.endMarkerSeen =>
         PC \in DOMAIN text /\ text[PC] # TestEndMarker /\ fetch.instruction = text[PC]
    /\ fetch.endMarkerSeen /\ fetch.endMarkerCountdown = EndMarkerCountdown =>
         control.flushFetch /\ PC \in DOMAIN text /\ text[PC] = TestEndMarker

DecodeRead ==
  phase = "propagate" /\ stage > ID =>
    /\ decode.PC = if_id.PC /\ decode.instruction = if_id.instruction
    /\ control.insertDecodeBubble <=> LoadUseHazard(if_id.instruction)
    /\ control.stallFetch <=> LoadUseHazard(if_id.instruction)

ExecuteRead ==
  /\ phase = "propagate" /\ stage > EX =>
       /\ execute.aluResult = AluResult /\ execute.writeData = Rs2Value
       /\ execute.pcWriteEnable <=> BranchTaken \/ id_ex.control.jump
       /\ execute.pcWriteEnable => execute.nextPC = NextPC
  /\ phase = "propagate" =>
       /\ control.flushDecode <=> stage > EX /\ execute.pcWriteEnable
       /\ control.flushFetch <=>
            \/ stage > EX /\ execute.pcWriteEnable
            \/ fetch.endMarkerSeen /\ fetch.endMarkerCountdown = EndMarkerCountdown
       /\ stage <= ID => ~control.insertDecodeBubble /\ ~control.stallFetch

(* The countdown starts in a cycle of its own. *)
MarkerCounted ==
  phase # "propagate" \/ stage = IF_ =>
     ~(fetch.endMarkerSeen /\ Countdown = EndMarkerCountdown)

(* What was fetched one after the other stays in order. *)
Order ==
  LET w == ToWriteBack.PC
      m == ToMemory.PC
      x == ToExecute.PC
      d == ToDecode.PC
      f == ToFetch
  IN
    /\ d # 0 => d \in DOMAIN text /\ ToDecode.instruction = text[d] /\ f = Wrap(d + 4)
    /\ d = 0 => ToDecode.instruction = NopInstruction
    /\ x # 0 => x \in DOMAIN text /\ ToExecute.instruction = text[x]
                /\ ToExecute.control = SetFromInstruction(text[x])
    /\ x = 0 => ToExecute.instruction.rd = 0 /\ ~ToExecute.control.jump /\ ~ToExecute.control.branch
                 /\ ~ToExecute.control.memRead /\ ~ToExecute.control.memWrite
                 /\ IsLegal(ToExecute.instruction)
    /\ x # 0 /\ d # 0 => d = Wrap(x + 4)
    /\ x # 0 /\ d = 0 => fetch.endMarkerSeen /\ f = Wrap(x + 4)
    /\ m # 0 /\ x # 0 => x = Wrap(m + 4)
    /\ m # 0 /\ x = 0 /\ d # 0 => d = Wrap(m + 4)
    /\ w # 0 /\ m = 0 /\ x # 0 => x = Wrap(w + 4)
    /\ Unpulsed(EX) /\ execute.pcWriteEnable => control.flushDecode

PipeInv ==
  Pipelining /\ phase # "stopped" =>
    FetchRead /\ DecodeRead /\ ExecuteRead /\ MarkerCounted /\ Drained 

OrderInv == Pipelining /\ phase # "stopped" => Order

----------------------------------------------------------------------------
(* The view moves once in a cycle.                                           *)

USE DEF IF_, ID, EX, MEM, WB

view == <<ToFetch, ToDecode, ToExecute, ToMemory, ToWriteBack>>

(* Outside the clock pulses it is what the registers hold. *)
LEMMA ViewOutside ==
  phase # "clockPulse" =>
    /\ ToFetch = PC /\ ToDecode = if_id /\ ToExecute = id_ex /\ ToMemory = ex_m
    /\ ToWriteBack = m_wb /\ Countdown = fetch.endMarkerCountdown
  BY DEF ToFetch, ToDecode, ToExecute, ToMemory, ToWriteBack, Countdown, Unpulsed

(* And also before the pulse of WB. *)
LEMMA ViewLast ==
  At("clockPulse", WB) =>
    /\ ToFetch = PC /\ ToDecode = if_id /\ ToExecute = id_ex /\ ToMemory = ex_m
    /\ ToWriteBack = m_wb /\ Countdown = fetch.endMarkerCountdown
  BY DEF ToFetch, ToDecode, ToExecute, ToMemory, ToWriteBack, Countdown, Unpulsed, At

(* So it is after a step inside or at the end of the cycle. *)
LEMMA ViewOutsideNext ==
  phase' # "clockPulse" =>
    /\ ToFetch' = PC' /\ ToDecode' = if_id' /\ ToExecute' = id_ex' /\ ToMemory' = ex_m'
    /\ ToWriteBack' = m_wb' /\ Countdown' = fetch'.endMarkerCountdown
<1>1. (phase # "clockPulse" =>
         /\ ToFetch = PC /\ ToDecode = if_id /\ ToExecute = id_ex /\ ToMemory = ex_m
         /\ ToWriteBack = m_wb /\ Countdown = fetch.endMarkerCountdown)'
  BY ViewOutside, PTL
<1> QED
  BY <1>1

(* The clock pulses put into the registers what was on its way to them. *)
LEMMA ViewKept ==
  ASSUME TypeOK, Pipelining, Next, ~WriteBackPropagate, phase' # "stopped"
  PROVE  /\ UNCHANGED <<view, text>>
         /\ fetch'.endMarkerSeen = fetch.endMarkerSeen \/ (FetchPropagate /\ FetchEndMarker)
<1> USE DEF At
<1>1. CASE BeginCycle
  BY <1>1, PipelinedMoves, ViewOutside, ViewOutsideNext
     DEF BeginCycle, view, architecture, pipelineRegisters, buffers
<1>2. CASE FetchPropagate \/ DecodePropagate \/ ExecutePropagate \/ MemoryPropagate
  <2>1. /\ phase = "propagate" /\ phase' = "propagate"
        /\ UNCHANGED <<architecture, pipelineRegisters>>
    BY <1>2, PipelinedMoves
       DEF FetchPropagate, DecodePropagate, ExecutePropagate, MemoryPropagate
  <2>2. UNCHANGED <<view, text>>
    BY <2>1, ViewOutside, ViewOutsideNext DEF view, architecture, pipelineRegisters
  <2>3. fetch'.endMarkerSeen = fetch.endMarkerSeen \/ (FetchPropagate /\ FetchEndMarker)
    BY <1>2 DEF FetchPropagate, DecodePropagate, ExecutePropagate, MemoryPropagate,
                FetchNothing, FetchFails, FetchInstruction, Fetched, TypeOK, BuffersType
  <2> QED
    BY <2>2, <2>3
<1>3. CASE FetchClockPulse
  <2>1. At("clockPulse", IF_) /\ At("clockPulse", ID)'
    BY <1>3, PipelinedMoves
  <2>2. /\ fetch'.PC = fetch.PC /\ fetch'.instruction = fetch.instruction
        /\ fetch'.endMarkerSeen = fetch.endMarkerSeen
    BY <1>3 DEF FetchClockPulse, TypeOK, BuffersType
  <2>3. ToDecode' = ToDecode /\ ToFetch' = ToFetch
    BY <1>3, <2>1 DEF FetchClockPulse, FetchAdvance, ToDecode, ToFetch, Unpulsed
  <2>4. ToExecute' = ToExecute /\ ToMemory' = ToMemory /\ ToWriteBack' = ToWriteBack
    BY <1>3, <2>1 DEF FetchClockPulse, ToExecute, ToMemory, ToWriteBack, Unpulsed, Squashed
  <2> QED
    BY <1>3, <2>2, <2>3, <2>4 DEF view, FetchClockPulse
<1>4. CASE DecodeClockPulse
  <2>1. At("clockPulse", ID) /\ At("clockPulse", EX)'
    BY <1>4, PipelinedMoves
  <2>2. DecodeSquash \/ DecodeIssue
    BY <1>4 DEF DecodeClockPulse, DecodeIllegal, Throw
  <2>3. UNCHANGED <<architecture, if_id, ex_m, m_wb, control, buffers>>
    BY <1>4 DEF DecodeClockPulse
  <2>4. ToExecute' = ToExecute
    BY <2>1, <2>2 DEF DecodeSquash, DecodeIssue, ToExecute, Unpulsed
  <2>5. ToDecode' = ToDecode /\ ToFetch' = ToFetch
    BY <2>1, <2>3 DEF ToDecode, ToFetch, Unpulsed, architecture, buffers
  <2>6. ToMemory' = ToMemory /\ ToWriteBack' = ToWriteBack
    BY <2>1, <2>3 DEF ToMemory, ToWriteBack, Unpulsed, buffers
  <2> QED
    BY <2>3, <2>4, <2>5, <2>6 DEF view, architecture, buffers
<1>5. CASE ExecuteClockPulse
  <2>1. At("clockPulse", EX) /\ At("clockPulse", MEM)'
    BY <1>5, PipelinedMoves
  <2>2. ToMemory' = ToMemory /\ ToFetch' = ToFetch
    BY <1>5, <2>1 DEF ExecuteClockPulse, ToMemory, ToFetch, Unpulsed
  <2>3. ToDecode' = ToDecode /\ ToExecute' = ToExecute /\ ToWriteBack' = ToWriteBack
    BY <1>5, <2>1 DEF ExecuteClockPulse, ToDecode, ToExecute, ToWriteBack, Unpulsed
  <2> QED
    BY <1>5, <2>2, <2>3 DEF view, ExecuteClockPulse
<1>6. CASE MemoryClockPulse
  <2>1. At("clockPulse", MEM) /\ At("clockPulse", WB)' /\ m_wb' = memoryStage
        /\ UNCHANGED <<text, PC, if_id, id_ex, ex_m, control, buffers>>
    BY <1>6, PipelinedMoves DEF MemoryClockPulse, Throw
  <2> QED
    BY <2>1 DEF view, ToDecode, ToExecute, ToMemory, ToWriteBack, ToFetch, Unpulsed, buffers
<1>7. CASE WriteBackClockPulse
  <2>1. At("clockPulse", WB) /\ At("loop", IF_)'
    BY <1>7, PipelinedMoves
  <2> QED
    BY <1>7, <2>1, ViewLast, ViewOutsideNext
       DEF WriteBackClockPulse, view, pipelineRegisters, buffers
<1> QED
  BY <1>1, <1>2, <1>3, <1>4, <1>5, <1>6, <1>7, PipelinedMoves DEF Next

(* What a cycle does to the instructions behind the one in EX. *)
Redirect == BranchTaken \/ id_ex.control.jump
Stall == LoadUseHazard(if_id.instruction)
MarkerRead == fetch.endMarkerSeen /\ fetch.endMarkerCountdown = EndMarkerCountdown

(* What is on its way to the registers when the last stage has propagated.   *)
LEMMA PulseBegins ==
  ASSUME TypeOK, BuffersMatch, PipeInv, Pipelining, WriteBackPropagate
  PROVE  /\ ToDecode' = (IF Redirect \/ MarkerRead THEN EmptyFetch
                         ELSE IF Stall \/ fetch.endMarkerSeen THEN if_id
                         ELSE [PC |-> PC, instruction |-> text[PC]])
         /\ ToExecute'.PC = (IF Redirect \/ Stall THEN 0 ELSE if_id.PC)
         /\ ToExecute'.instruction = (IF Redirect \/ Stall THEN EmptyDecode.instruction
                                      ELSE if_id.instruction)
         /\ ToExecute'.control = (IF Redirect \/ Stall THEN NoSignals
                                  ELSE SetFromInstruction(if_id.instruction))
         /\ ToMemory' = [PC |-> id_ex.PC, aluResult |-> AluResult, writeData |-> Rs2Value,
                         rd |-> id_ex.instruction.rd, control |-> id_ex.control]
         /\ ToFetch' = (IF Redirect THEN NextPC
                        ELSE IF MarkerRead \/ Stall \/ fetch.endMarkerSeen THEN PC
                        ELSE Wrap(PC + 4))
         /\ ToWriteBack' = memoryStage /\ memoryStage.PC = ex_m.PC
         /\ Countdown' = fetch.endMarkerCountdown - 1
         /\ fetch' = fetch /\ text' = text
         /\ ~fetch.endMarkerSeen => PC \in DOMAIN text
<1>1. /\ phase = "propagate" /\ stage = WB /\ phase' = "clockPulse" /\ stage' = IF_
      /\ UNCHANGED <<architecture, pipelineRegisters, control, fetch, decode, execute,
                     memoryStage>>
  BY PipelinedMoves DEF WriteBackPropagate, At
<1>2. Unpulsed(IF_)' /\ Unpulsed(ID)' /\ Unpulsed(EX)' /\ Unpulsed(MEM)'
  BY <1>1 DEF Unpulsed
<1>3. /\ fetch.PC = PC
      /\ ~fetch.endMarkerSeen => PC \in DOMAIN text /\ fetch.instruction = text[PC]
      /\ decode.PC = if_id.PC /\ decode.instruction = if_id.instruction
      /\ (control.insertDecodeBubble <=> Stall) /\ (control.stallFetch <=> Stall)
  BY <1>1 DEF PipeInv, FetchRead, DecodeRead, Stall
<1>4. /\ execute.aluResult = AluResult /\ execute.writeData = Rs2Value
      /\ (execute.pcWriteEnable <=> Redirect)
      /\ (execute.pcWriteEnable => execute.nextPC = NextPC)
      /\ (control.flushDecode <=> Redirect)
      /\ (control.flushFetch <=> Redirect \/ MarkerRead)
  BY <1>1 DEF PipeInv, ExecuteRead, Redirect, MarkerRead
<1>5. /\ execute.PC = id_ex.PC /\ execute.rd = id_ex.instruction.rd
      /\ execute.control = id_ex.control /\ memoryStage.PC = ex_m.PC
  BY <1>1 DEF BuffersMatch, ExecuteMatches, MemoryMatches, Between
<1>6. ToDecode' = (IF Redirect \/ MarkerRead THEN EmptyFetch
                   ELSE IF Stall \/ fetch.endMarkerSeen THEN if_id
                   ELSE [PC |-> PC, instruction |-> text[PC]])
  BY <1>1, <1>2, <1>3, <1>4 DEF ToDecode, architecture, pipelineRegisters
<1>7. /\ ToExecute'.PC = (IF Redirect \/ Stall THEN 0 ELSE if_id.PC)
      /\ ToExecute'.instruction = (IF Redirect \/ Stall THEN EmptyDecode.instruction
                                   ELSE if_id.instruction)
      /\ ToExecute'.control = (IF Redirect \/ Stall THEN NoSignals
                               ELSE SetFromInstruction(if_id.instruction))
  <2>1. Squashed' <=> Redirect \/ Stall
    BY <1>1, <1>3, <1>4 DEF Squashed
  <2>2. CASE Redirect \/ Stall
    BY <1>2, <2>1, <2>2 DEF ToExecute, EmptyDecode
  <2>3. CASE ~(Redirect \/ Stall)
    BY <1>1, <1>2, <1>3, <2>1, <2>3 DEF ToExecute
  <2> QED
    BY <2>2, <2>3
<1>8. ToMemory' = [PC |-> id_ex.PC, aluResult |-> AluResult, writeData |-> Rs2Value,
                   rd |-> id_ex.instruction.rd, control |-> id_ex.control]
  BY <1>1, <1>2, <1>4, <1>5 DEF ToMemory
<1>9. ToFetch' = (IF Redirect THEN NextPC
                  ELSE IF MarkerRead \/ Stall \/ fetch.endMarkerSeen THEN PC
                  ELSE Wrap(PC + 4))
  BY <1>1, <1>2, <1>3, <1>4 DEF ToFetch, architecture
<1>10. ToWriteBack' = memoryStage /\ Countdown' = fetch.endMarkerCountdown - 1
  BY <1>1, <1>2 DEF ToWriteBack, Countdown
<1> QED
  BY <1>1, <1>3, <1>5, <1>6, <1>7, <1>8, <1>9, <1>10 DEF architecture

(* Nothing is fetched, decoded or executed at first. *)
LEMMA InitPipe == Init => PipeInv /\ OrderInv
<1> SUFFICES ASSUME Init, Pipelining PROVE PipeInv /\ OrderInv
  BY DEF PipeInv, OrderInv
<1>1. /\ phase = "loop" /\ stage = IF_ /\ ~fetch.endMarkerSeen
      /\ if_id = EmptyFetch /\ id_ex = EmptyDecode /\ ex_m = EmptyExecute /\ m_wb = EmptyMemory
  BY DEF Init
<1>2. /\ ToDecode = if_id /\ ToExecute = id_ex /\ ToMemory = ex_m /\ ToWriteBack = m_wb
  BY <1>1, ViewOutside
<1>3. FetchRead /\ DecodeRead /\ ExecuteRead /\ MarkerCounted /\ Drained
  BY <1>1 DEF FetchRead, DecodeRead, ExecuteRead, MarkerCounted, Drained, Ended
<1>4. Order
  BY <1>1, <1>2
     DEF Order, EmptyFetch, EmptyDecode, EmptyExecute, EmptyMemory, NopInstruction, NoSignals,
         IsLegal, KnownOpcode, Unpulsed
<1> QED
  BY <1>3, <1>4 DEF PipeInv, OrderInv

(* The stages keep what they found until the clock pulses.                   *)
LEMMA NextPipe ==
  ASSUME TypeOK, BuffersMatch, PipeInv, Pipelining, Next, phase' # "stopped"
  PROVE  FetchRead' /\ DecodeRead' /\ ExecuteRead' /\ MarkerCounted'
<1>0. phase # "stopped"
  BY PipelinedMoves DEF Next, At
<1>1. CASE BeginCycle
  <2>1. /\ phase' = "propagate" /\ stage = IF_ /\ stage' = IF_ /\ phase = "loop"
        /\ control' = NoControl /\ fetch' = fetch
    BY <1>1, PipelinedMoves DEF BeginCycle, buffers, BuffersMatch, CycleStart
  <2>2. ~(fetch.endMarkerSeen /\ fetch.endMarkerCountdown = EndMarkerCountdown)
    BY <1>0, <2>1, ViewOutside DEF PipeInv, MarkerCounted
  <2> QED
    BY <2>1, <2>2, ViewOutsideNext
       DEF FetchRead, DecodeRead, ExecuteRead, MarkerCounted, NoControl
<1>2. CASE FetchPropagate
  <2>1. /\ At("propagate", IF_) /\ At("propagate", ID)'
        /\ UNCHANGED <<architecture, pipelineRegisters, execute>>
        /\ ~(fetch.endMarkerSeen /\ fetch.endMarkerCountdown = EndMarkerCountdown)
    BY <1>0, <1>2, PipelinedMoves, ViewOutside
       DEF FetchPropagate, PipeInv, MarkerCounted, At
  <2>2. /\ ~control.flushDecode /\ ~control.flushFetch
        /\ ~control.insertDecodeBubble /\ ~control.stallFetch
    BY <1>0, <2>1 DEF PipeInv, ExecuteRead, At
  <2>3. CASE FetchEndMarker
    <3>1. /\ fetch'.PC = PC /\ fetch'.endMarkerSeen
          /\ fetch'.endMarkerCountdown = EndMarkerCountdown
          /\ PC \in DOMAIN text /\ text[PC] = TestEndMarker
      BY <2>3 DEF FetchEndMarker, Fetched, TypeOK, BuffersType
    <3>2. /\ control'.flushFetch /\ ~control'.flushDecode
          /\ ~control'.insertDecodeBubble /\ ~control'.stallFetch
      BY <2>2, <2>3 DEF FetchEndMarker, TypeOK, PipelineControl
    <3> QED
      BY <2>1, <3>1, <3>2
         DEF FetchRead, DecodeRead, ExecuteRead, MarkerCounted, At, architecture
  <2>4. CASE FetchInstruction \/ FetchNothing
    <3>1. /\ control' = control /\ fetch'.PC = PC
          /\ fetch'.endMarkerSeen = fetch.endMarkerSeen
          /\ fetch'.endMarkerCountdown = fetch.endMarkerCountdown
          /\ ~fetch.endMarkerSeen =>
               PC \in DOMAIN text /\ text[PC] # TestEndMarker /\ fetch'.instruction = text[PC]
      BY <2>4 DEF FetchInstruction, FetchNothing, Fetched, TypeOK, BuffersType
    <3> QED
      BY <2>1, <2>2, <3>1
         DEF FetchRead, DecodeRead, ExecuteRead, MarkerCounted, At, architecture
  <2> QED
    BY <1>2, <2>3, <2>4 DEF FetchPropagate, FetchFails, Throw
<1>3. CASE DecodePropagate
  <2>1. /\ At("propagate", ID) /\ At("propagate", EX)'
        /\ UNCHANGED <<architecture, pipelineRegisters, fetch, execute>>
    BY <1>3, PipelinedMoves DEF DecodePropagate
  <2>2. ~control.insertDecodeBubble /\ ~control.stallFetch
    BY <1>0, <2>1 DEF PipeInv, ExecuteRead, At
  <2>3. /\ decode'.PC = if_id.PC /\ decode'.instruction = if_id.instruction
        /\ control'.insertDecodeBubble <=> LoadUseHazard(if_id.instruction)
        /\ control'.stallFetch <=> LoadUseHazard(if_id.instruction)
        /\ control'.flushDecode = control.flushDecode
        /\ control'.flushFetch = control.flushFetch
    BY <1>3, <2>2 DEF DecodePropagate, TypeOK, PipelineControl
  <2>4. LoadUseHazard(if_id.instruction)' = LoadUseHazard(if_id.instruction)
    BY <2>1 DEF LoadUseHazard, pipelineRegisters
  <2> QED
    BY <1>0, <2>1, <2>3, <2>4
       DEF PipeInv, FetchRead, DecodeRead, ExecuteRead, MarkerCounted, At, architecture,
           pipelineRegisters
<1>4. CASE ExecutePropagate
  <2>1. /\ At("propagate", EX) /\ At("propagate", MEM)'
        /\ UNCHANGED <<architecture, pipelineRegisters, fetch, decode>>
    BY <1>4, PipelinedMoves DEF ExecutePropagate
  <2> DEFINE redirect == BranchTaken \/ id_ex.control.jump
  <2>2. /\ execute'.aluResult = AluResult /\ execute'.writeData = Rs2Value
        /\ execute'.pcWriteEnable = redirect /\ execute'.nextPC = NextPC
    BY <1>4 DEF ExecutePropagate
  <2>3. /\ control'.insertDecodeBubble = control.insertDecodeBubble
        /\ control'.stallFetch = control.stallFetch
        /\ control'.flushDecode <=> redirect \/ control.flushDecode
        /\ control'.flushFetch <=> redirect \/ control.flushFetch
    BY <1>4 DEF ExecutePropagate, TypeOK, PipelineControl
  <2>4. UNCHANGED <<AluResult, Rs2Value, BranchTaken, NextPC, id_ex>>
        /\ LoadUseHazard(if_id.instruction)' = LoadUseHazard(if_id.instruction)
    BY <2>1
       DEF pipelineRegisters, architecture, AluResult, Rs1Value, Rs2Value, Forwarded,
           BranchTaken, NextPC, OperandA, OperandB, Writes, WriteBackValue, LoadUseHazard
  <2> HIDE DEF redirect
  <2>5. ExecuteRead'
    <3>1. redirect' = redirect
      BY <2>4 DEF redirect
    <3>2. /\ ~control.flushDecode
          /\ control.flushFetch <=>
               fetch.endMarkerSeen /\ fetch.endMarkerCountdown = EndMarkerCountdown
      BY <1>0, <2>1 DEF PipeInv, ExecuteRead, At
    <3>3. execute'.pcWriteEnable <=> redirect
      BY <2>2, Zenon DEF redirect
    <3>4. /\ control'.flushDecode <=> execute'.pcWriteEnable
          /\ control'.flushFetch <=>
               \/ execute'.pcWriteEnable
               \/ fetch'.endMarkerSeen /\ fetch'.endMarkerCountdown = EndMarkerCountdown
      BY <2>1, <2>3, <3>2, <3>3
    <3>5. /\ execute'.aluResult = AluResult' /\ execute'.writeData = Rs2Value'
          /\ execute'.nextPC = NextPC'
      BY <2>2, <2>4
    <3>6. (BranchTaken \/ id_ex.control.jump)' <=> redirect
      BY <3>1 DEF redirect
    <3> QED
      BY <2>1, <3>3, <3>4, <3>5, <3>6 DEF ExecuteRead, At
  <2>6. FetchRead' /\ DecodeRead' /\ MarkerCounted'
    BY <1>0, <2>1, <2>3, <2>4
       DEF PipeInv, FetchRead, DecodeRead, MarkerCounted, At, architecture, pipelineRegisters
  <2> QED
    BY <2>5, <2>6
<1>5. CASE MemoryPropagate
  <2>1. /\ At("propagate", MEM) /\ At("propagate", WB)'
        /\ UNCHANGED <<architecture, pipelineRegisters, control, fetch, decode, execute>>
    BY <1>5, PipelinedMoves DEF MemoryPropagate
  <2>2. UNCHANGED <<AluResult, Rs2Value, BranchTaken, NextPC, id_ex>>
        /\ LoadUseHazard(if_id.instruction)' = LoadUseHazard(if_id.instruction)
    BY <2>1
       DEF pipelineRegisters, architecture, AluResult, Rs1Value, Rs2Value, Forwarded,
           BranchTaken, NextPC, OperandA, OperandB, Writes, WriteBackValue, LoadUseHazard
  <2> QED
    BY <1>0, <2>1, <2>2
       DEF PipeInv, FetchRead, DecodeRead, ExecuteRead, MarkerCounted, At, architecture,
           pipelineRegisters
<1>6. CASE phase' # "propagate"
  <2>1. FetchRead' /\ DecodeRead' /\ ExecuteRead'
    BY <1>6 DEF FetchRead, DecodeRead, ExecuteRead
  <2>2. ~(fetch'.endMarkerSeen /\ Countdown' = EndMarkerCountdown)
    <3>1. fetch'.endMarkerCountdown \in 0 .. EndMarkerCountdown
      BY NextType DEF TypeOK, BuffersType
    <3>2. CASE Unpulsed(IF_)'
      BY <3>1, <3>2 DEF Countdown, EndMarkerCountdown
    <3>3. CASE ~Unpulsed(IF_)'
      <4>1. ~(fetch.endMarkerSeen /\ Countdown = EndMarkerCountdown) /\ phase = "clockPulse"
        BY <1>0, <1>6, <3>3, PipelinedMoves DEF Next, PipeInv, MarkerCounted, Unpulsed, At
      <4>2. CASE FetchClockPulse
        <5>1. At("clockPulse", IF_)
          BY <4>2 DEF FetchClockPulse
        <5> QED
          BY <3>3, <4>1, <4>2, <5>1
             DEF FetchClockPulse, Countdown, Throw, TypeOK, BuffersType, Unpulsed, At
      <4>3. CASE ~FetchClockPulse
        <5>1. stage # IF_ /\ fetch' = fetch
          BY <4>1, <4>3, PipelinedMoves
             DEF Next, At, DecodeClockPulse, ExecuteClockPulse, MemoryClockPulse,
                 WriteBackClockPulse, buffers
        <5>2. ~Unpulsed(IF_)
          BY <5>1 DEF Unpulsed, TypeOK, LoopType, Stages
        <5> QED
          BY <3>3, <4>1, <5>1, <5>2 DEF Countdown
      <4> QED
        BY <4>2, <4>3
    <3> QED
      BY <3>2, <3>3
  <2> QED
    BY <2>1, <2>2 DEF MarkerCounted
<1> QED
  BY <1>1, <1>2, <1>3, <1>4, <1>5, <1>6, PipelinedMoves DEF Next, At

(* The countdown runs once in a cycle, too. *)
LEMMA CountdownKept ==
  ASSUME TypeOK, BuffersMatch, Pipelining, Next, ~WriteBackPropagate,
         ~(FetchPropagate /\ FetchEndMarker),
         phase' # "stopped", fetch.endMarkerSeen
  PROVE  Countdown' = Countdown
<1>1. CASE phase' # "clockPulse" /\ phase # "clockPulse"
  <2>1. FetchPropagate => fetch'.endMarkerCountdown = fetch.endMarkerCountdown
    BY DEF FetchPropagate, FetchNothing, FetchFails, FetchInstruction, Fetched, Throw,
                TypeOK, BuffersType
  <2>2. BeginCycle \/ DecodePropagate \/ ExecutePropagate \/ MemoryPropagate =>
          fetch' = fetch
    BY DEF BeginCycle, DecodePropagate, ExecutePropagate, MemoryPropagate, buffers
  <2>3. fetch'.endMarkerCountdown = fetch.endMarkerCountdown
    BY <1>1, <2>1, <2>2, PipelinedMoves DEF Next, At
  <2> QED
    BY <1>1, <2>3, ViewOutside, ViewOutsideNext
<1>2. CASE FetchClockPulse
  <2>1. At("clockPulse", IF_) /\ At("clockPulse", ID)'
    BY <1>2, PipelinedMoves
  <2>2. fetch'.endMarkerCountdown = fetch.endMarkerCountdown - 1
    BY <1>2 DEF FetchClockPulse, Throw, TypeOK, BuffersType
  <2> QED
    BY <2>1, <2>2 DEF Countdown, Unpulsed, At
<1>3. CASE DecodeClockPulse \/ ExecuteClockPulse \/ MemoryClockPulse \/ WriteBackClockPulse
  <2>1. ~Unpulsed(IF_) /\ ~Unpulsed(IF_)' /\ fetch' = fetch
    BY <1>3, PipelinedMoves
       DEF Unpulsed, At, DecodeClockPulse, ExecuteClockPulse, MemoryClockPulse, WriteBackClockPulse,
           buffers
  <2> QED
    BY <2>1 DEF Countdown
<1> QED
  BY <1>1, <1>2, <1>3, PipelinedMoves DEF Next, At

(* One stage after the other runs empty behind the end marker. *)
LEMMA NextDrained ==
  ASSUME TypeOK, BuffersMatch, PipeInv, Pipelining, Next, phase' # "stopped"
  PROVE  Drained'
<1>0. phase # "stopped"
  BY PipelinedMoves DEF Next, At
<1>1. CASE WriteBackPropagate
  <2> DEFINE count == fetch.endMarkerCountdown
  <2>2. /\ ToDecode' = (IF Redirect \/ MarkerRead THEN EmptyFetch
                        ELSE IF Stall \/ fetch.endMarkerSeen THEN if_id
                        ELSE [PC |-> PC, instruction |-> text[PC]])
        /\ ToExecute'.PC = (IF Redirect \/ Stall THEN 0 ELSE if_id.PC)
        /\ ToMemory'.PC = id_ex.PC
        /\ ToWriteBack'.PC = ex_m.PC
        /\ Countdown' = count - 1
        /\ fetch' = fetch /\ m_wb' = m_wb
    BY <1>1, PulseBegins DEF WriteBackPropagate, pipelineRegisters
  <2>3. phase # "clockPulse"
    BY <1>1 DEF WriteBackPropagate, At
  <2>4. fetch.endMarkerSeen /\ count < EndMarkerCountdown =>
          /\ if_id.PC = 0
          /\ count <= 3 => id_ex.PC = 0
          /\ count <= 2 => ex_m.PC = 0
          /\ count <= 1 => m_wb.PC = 0
    BY <1>0, <2>3, ViewOutside DEF PipeInv, Drained, Ended
  <2>5. count \in 0 .. EndMarkerCountdown
    BY DEF TypeOK, BuffersType
  <2>6. SUFFICES ASSUME fetch.endMarkerSeen
                 PROVE  /\ ToDecode'.PC = 0
                        /\ Countdown' <= 3 => ToExecute'.PC = 0
                        /\ Countdown' <= 2 => ToMemory'.PC = 0
                        /\ Countdown' <= 1 => ToWriteBack'.PC = 0
                        /\ Countdown' <= 0 => m_wb'.PC = 0
    BY <2>2 DEF Drained, Ended
  <2> QED
    BY <2>2, <2>4, <2>5, <2>6 DEF EmptyFetch, EndMarkerCountdown, MarkerRead
<1>2. CASE FetchPropagate /\ FetchEndMarker
  <2>1. phase' # "clockPulse" /\ fetch'.endMarkerCountdown = EndMarkerCountdown
    <3>1. phase' = "propagate"
      BY <1>2, PipelinedMoves DEF At
    <3> QED
      BY <1>2, <3>1 DEF FetchEndMarker, Fetched, TypeOK, BuffersType
  <2> QED
    BY <2>1, ViewOutsideNext DEF Drained, Ended, EndMarkerCountdown
<1>3. CASE ~WriteBackPropagate /\ ~(FetchPropagate /\ FetchEndMarker)
  <2>1. UNCHANGED view /\ fetch'.endMarkerSeen = fetch.endMarkerSeen
    BY <1>3, ViewKept
  <2>2. fetch.endMarkerSeen => Countdown' = Countdown
    BY <1>3, CountdownKept
  <2>3. m_wb' = m_wb \/ m_wb' = ToWriteBack
    <3>1. MemoryClockPulse => m_wb' = ToWriteBack
      BY PipelinedMoves DEF MemoryClockPulse, Throw, ToWriteBack, Unpulsed, At
    <3> QED
      BY <1>3, <3>1
         DEF Next, BeginCycle, Halt, FetchPropagate, DecodePropagate, ExecutePropagate,
             MemoryPropagate, FetchClockPulse, DecodeClockPulse, ExecuteClockPulse,
             WriteBackClockPulse, pipelineRegisters
  <2>4. Countdown <= 0 => Countdown <= 1
    BY DEF Countdown, TypeOK, BuffersType
  <2> QED
    BY <1>0, <2>1, <2>2, <2>3, <2>4 DEF PipeInv, Drained, Ended, view
<1> QED
  BY <1>1, <1>2, <1>3

(* All this together, as long as the run lasts. *)
LEMMA NextPipeInv == TypeOK /\ BuffersMatch /\ PipeInv /\ [Next]_vars => PipeInv'
<1> SUFFICES ASSUME TypeOK, BuffersMatch, PipeInv, [Next]_vars, Pipelining,
                    phase' # "stopped"
             PROVE  (FetchRead /\ DecodeRead /\ ExecuteRead /\ MarkerCounted /\ Drained)'
  BY DEF PipeInv
<1>1. CASE Next
  BY <1>1, NextPipe, NextDrained
<1>2. CASE UNCHANGED vars
  <2> USE <1>2 DEF vars, architecture, pipelineRegisters, buffers, loop
  <2>1. phase # "stopped"
    OBVIOUS
  <2>2. UNCHANGED <<AluResult, Rs2Value, BranchTaken, NextPC>>
        /\ LoadUseHazard(if_id.instruction)' = LoadUseHazard(if_id.instruction)
    BY DEF AluResult, Rs1Value, Rs2Value, Forwarded, BranchTaken, NextPC, OperandA, OperandB,
           Writes, WriteBackValue, LoadUseHazard
  <2>3. FetchRead' /\ DecodeRead' /\ ExecuteRead'
    BY <2>1, <2>2 DEF PipeInv, FetchRead, DecodeRead, ExecuteRead
  <2>4. Countdown' = Countdown /\ UNCHANGED view
    BY DEF Countdown, view, ToDecode, ToExecute, ToMemory, ToWriteBack, ToFetch, Unpulsed,
           Squashed
  <2>5. MarkerCounted' /\ Drained'
    BY <2>1, <2>4 DEF PipeInv, MarkerCounted, Drained, Ended, view
  <2> QED
    BY <2>3, <2>5
<1> QED
  BY <1>1, <1>2

(* Without pipelining the end marker stops the run at once.                  *)
MarkerStops == ~Pipelining => ~fetch.endMarkerSeen

(* An instruction does not outlast the end of the text. *)
LastOneThrough ==
  phase = "stopped" /\ (reason = "endMarker" \/ (reason = "fetchFailure" /\ ~Pipelining)) =>
    /\ nInstrCompleted = nInstrIssued
    /\ Pipelining => m_wb.PC = 0

(* IF keeps no note of an end marker that it throws for. *)
LEMMA NextMarkerStops == TypeOK /\ MarkerStops /\ [Next]_vars => MarkerStops'
<1> SUFFICES ASSUME TypeOK, ~Pipelining, ~fetch.endMarkerSeen, [Next]_vars
             PROVE  ~fetch'.endMarkerSeen
  BY DEF MarkerStops
<1>1. FetchPropagate => ~fetch'.endMarkerSeen
  BY DEF FetchPropagate, FetchNothing, FetchFails, FetchEndMarker, FetchInstruction, Fetched,
         TypeOK, BuffersType
<1>2. FetchClockPulse => fetch' = fetch
  BY DEF FetchClockPulse
<1> QED
  BY <1>1, <1>2
     DEF Next, BeginCycle, Halt, DecodePropagate, ExecutePropagate, MemoryPropagate,
         WriteBackPropagate, DecodeClockPulse, ExecuteClockPulse, MemoryClockPulse,
         WriteBackClockPulse, vars, buffers

(* When IF ends the run the other stages are empty, and without pipelining    *)
(* there is no other stage at work. *)
LEMMA NextLastOneThrough ==
  ASSUME TypeOK, InstructionsConserved, PipeInv, MarkerStops, LastOneThrough, [Next]_vars
  PROVE  LastOneThrough'
<1> SUFFICES ASSUME phase' = "stopped",
                    reason' = "endMarker" \/ (reason' = "fetchFailure" /\ ~Pipelining)
             PROVE  /\ nInstrCompleted' = nInstrIssued'
                    /\ Pipelining => m_wb'.PC = 0
  BY DEF LastOneThrough
<1>1. CASE FetchPropagate
  <2>1. /\ At("propagate", IF_) /\ ~Pipelining
        /\ UNCHANGED <<nInstrIssued, nInstrCompleted>>
    BY <1>1
       DEF FetchPropagate, FetchNothing, FetchFails, FetchEndMarker, FetchInstruction, Throw,
           EndPropagate, statistics, At
  <2>2. InFlight = 0
    BY <2>1 DEF InFlight, At
  <2> QED
    BY <2>1, <2>2 DEF InstructionsConserved, At, TypeOK, StatisticsType
<1>2. CASE FetchClockPulse
  <2>1. /\ At("clockPulse", IF_) /\ fetch.endMarkerSeen /\ fetch.endMarkerCountdown = 0
        /\ UNCHANGED <<m_wb, nInstrIssued, nInstrCompleted>>
    BY <1>2 DEF FetchClockPulse, EndClockPulse, statistics, At
  <2>2. Pipelining
    BY <2>1 DEF MarkerStops
  <2>3. Unpulsed(IF_) /\ Unpulsed(ID) /\ Unpulsed(EX) /\ Unpulsed(MEM)
    BY <2>1 DEF Unpulsed, At
  <2>4. Countdown = 0 - 1
    BY <2>1, <2>3 DEF Countdown
  <2>5. ToMemory.PC = 0 /\ ToWriteBack.PC = 0 /\ m_wb.PC = 0
    BY <2>1, <2>2, <2>4 DEF PipeInv, Drained, Ended, EndMarkerCountdown, At
  <2>6. execute.PC = 0 /\ memoryStage.PC = 0
    BY <2>3, <2>5 DEF ToMemory, ToWriteBack
  <2>7. InFlight = 0
    BY <2>2, <2>3, <2>6 DEF InFlight, Occupied
  <2> QED
    BY <2>1, <2>5, <2>7 DEF InstructionsConserved, At, TypeOK, StatisticsType
<1>3. CASE UNCHANGED vars
  BY <1>3 DEF LastOneThrough, vars, loop, statistics, pipelineRegisters
<1>4. CASE Next /\ ~FetchPropagate /\ ~FetchClockPulse
  <2>1. phase' = "stopped" => Halt \/ DecodeClockPulse \/ MemoryPropagate \/ MemoryClockPulse
    BY <1>4 DEF Next, BeginCycle, DecodePropagate, ExecutePropagate, WriteBackPropagate,
                ExecuteClockPulse, WriteBackClockPulse, EndPropagate, EndClockPulse, TypeOK,
                LoopType, At
  <2>2. Throw("endMarker") \/ Throw("fetchFailure")
    BY <2>1 DEF Halt, DecodeClockPulse, DecodeSquash, DecodeIssue, DecodeIllegal, MemoryPropagate,
                NoMemoryAccess, MemoryAccess, MemoryFault, MemoryClockPulse, EndPropagate,
                EndClockPulse, Throw, At
  <2> QED
    BY <2>1, <2>2 DEF Halt, DecodeClockPulse, DecodeSquash, DecodeIssue, DecodeIllegal,
                MemoryPropagate, NoMemoryAccess, MemoryAccess, MemoryFault, MemoryClockPulse,
                EndPropagate, EndClockPulse, Throw, At
<1> QED
  BY <1>1, <1>2, <1>3, <1>4

(* A run that comes to the end marker left nothing behind in the pipeline,   *)
(* whatever it was doing when IF read the marker: every issued instruction   *)
(* has completed.  Without pipelining that is so at the end of the text, too. *)
THEOREM EndMarkerDrains ==
  Spec => [](reason = "endMarker" \/ ~Pipelining => CleanStopDrained)
<1> DEFINE Inv == /\ TypeOK /\ BuffersMatch /\ InstructionsConserved
                  /\ PipeInv /\ MarkerStops /\ LastOneThrough
<1>1. Init => Inv
  <2>1. Init => MarkerStops /\ LastOneThrough
    BY DEF Init, MarkerStops, LastOneThrough
  <2> QED
    BY <2>1, InitType, InitBuffersMatch, InitConserved, InitPipe
<1>2. Inv /\ [Next]_vars => Inv'
  BY NextType, NextBuffersMatch, NextPipeInv, NextMarkerStops, NextLastOneThrough,
     PipelinedConserved, SequentialConserved, UnchangedConserved, ModeAssumption
<1>3. Inv => (reason = "endMarker" \/ ~Pipelining => CleanStopDrained)
  BY DEF LastOneThrough, CleanStopDrained, RunSucceeded
<1> QED
  BY <1>1, <1>2, <1>3, PTL DEF Spec

----------------------------------------------------------------------------
(* The order of the program.                                                 *)

(* Address 0 stands for an empty stage, so no instruction may have it.       *)
NoCodeAtZero == \A program \in Programs : 0 \notin DOMAIN program

TextGiven == text \in Programs

(* The run goes on as long as nothing stops it. *)
Running == phase # "stopped" => reason = "running"

(* Nothing writes the text. *)
LEMMA NextText == TextGiven /\ [Next]_vars => TextGiven'
<1> SUFFICES ASSUME [Next]_vars PROVE text' = text
  BY DEF TextGiven
<1> QED
  BY DEF Next, BeginCycle, Halt, FetchPropagate, DecodePropagate, ExecutePropagate,
         MemoryPropagate, WriteBackPropagate, FetchClockPulse, DecodeClockPulse,
         ExecuteClockPulse, MemoryClockPulse, WriteBackClockPulse, vars, architecture

(* Only an exception or a halt gives run() a reason to return. *)
LEMMA NextRunning == TypeOK /\ Running /\ [Next]_vars => Running'
<1> SUFFICES ASSUME TypeOK, Running, [Next]_vars, phase' # "stopped" PROVE reason' = "running"
  BY DEF Running
<1>1. Throw("halt") \/ Throw("endMarker") \/ Throw("fetchFailure") \/ Throw("illegalInstruction")
        \/ Throw("illegalAccess") => FALSE
  BY DEF Throw
<1>2. CASE BeginCycle \/ FetchPropagate \/ DecodePropagate \/ ExecutePropagate
           \/ MemoryPropagate \/ WriteBackPropagate
  <2>1. phase # "stopped" /\ reason' = reason
    BY <1>1, <1>2
       DEF BeginCycle, FetchPropagate, FetchNothing, FetchFails, FetchEndMarker,
           FetchInstruction, DecodePropagate, ExecutePropagate, MemoryPropagate,
           NoMemoryAccess, MemoryAccess, MemoryFault, WriteBackPropagate, EndPropagate, At
  <2> QED
    BY <2>1 DEF Running
<1>3. CASE FetchClockPulse \/ DecodeClockPulse \/ ExecuteClockPulse \/ MemoryClockPulse
           \/ WriteBackClockPulse
  <2>1. phase # "stopped" /\ reason' = reason
    BY <1>1, <1>3
       DEF FetchClockPulse, DecodeClockPulse, DecodeSquash, DecodeIssue, DecodeIllegal,
           ExecuteClockPulse, MemoryClockPulse, WriteBackClockPulse, EndClockPulse, At
  <2> QED
    BY <2>1 DEF Running
<1> QED
  BY <1>1, <1>2, <1>3 DEF Next, Halt, Running, vars, loop

(* What follows what on its way to the registers.                            *)
LEMMA PulseOrder ==
  ASSUME TypeOK, BuffersMatch, PipeInv, Order, 0 \notin DOMAIN text, Pipelining,
         WriteBackPropagate
  PROVE  Order'
<1> DEFINE w == ex_m.PC
           m == id_ex.PC
           d == if_id.PC
<1>1. phase = "propagate" /\ phase' = "clockPulse" /\ stage' = IF_ /\ stage = WB
      /\ UNCHANGED <<execute, control>>
  BY PipelinedMoves DEF WriteBackPropagate, At
<1>2. /\ ToDecode' = (IF Redirect \/ MarkerRead THEN EmptyFetch
                      ELSE IF Stall \/ fetch.endMarkerSeen THEN if_id
                      ELSE [PC |-> PC, instruction |-> text[PC]])
      /\ ToExecute'.PC = (IF Redirect \/ Stall THEN 0 ELSE if_id.PC)
      /\ ToExecute'.instruction = (IF Redirect \/ Stall THEN EmptyDecode.instruction
                                   ELSE if_id.instruction)
      /\ ToExecute'.control = (IF Redirect \/ Stall THEN NoSignals
                               ELSE SetFromInstruction(if_id.instruction))
      /\ ToMemory'.PC = id_ex.PC
      /\ ToFetch' = (IF Redirect THEN NextPC
                     ELSE IF MarkerRead \/ Stall \/ fetch.endMarkerSeen THEN PC
                     ELSE Wrap(PC + 4))
      /\ ToWriteBack'.PC = ex_m.PC
      /\ fetch' = fetch /\ text' = text
      /\ ~fetch.endMarkerSeen => PC \in DOMAIN text
  BY PulseBegins
<1>3. /\ d # 0 => d \in DOMAIN text /\ if_id.instruction = text[d] /\ PC = Wrap(d + 4)
      /\ d = 0 => if_id.instruction = NopInstruction
      /\ m # 0 /\ d # 0 => d = Wrap(m + 4)
      /\ m # 0 /\ d = 0 => fetch.endMarkerSeen /\ PC = Wrap(m + 4)
      /\ w # 0 /\ m = 0 /\ d # 0 => d = Wrap(w + 4)
      /\ m = 0 => id_ex.instruction.rd = 0 /\ ~id_ex.control.jump /\ ~id_ex.control.branch
  BY <1>1, ViewOutside DEF Order
<1>4. fetch.endMarkerSeen /\ ~MarkerRead => d = 0
  <2>1. fetch.endMarkerCountdown <= EndMarkerCountdown
    BY DEF TypeOK, BuffersType, EndMarkerCountdown
  <2>2. fetch.endMarkerSeen /\ fetch.endMarkerCountdown < EndMarkerCountdown => d = 0
    BY <1>1, ViewOutside DEF PipeInv, Drained, Ended
  <2> QED
    BY <2>1, <2>2 DEF MarkerRead, TypeOK, BuffersType, EndMarkerCountdown
<1>5. m = 0 => ~Redirect /\ ~Stall
  <2>1. id_ex.instruction.rd = 0 => ~Stall
    BY DEF Stall, LoadUseHazard
  <2>2. ~id_ex.control.jump /\ ~id_ex.control.branch => ~Redirect
    BY DEF Redirect, BranchTaken
  <2> QED
    BY <1>3, <2>1, <2>2
<1>6. d = 0 => ~Stall
  BY <1>3 DEF Stall, LoadUseHazard, NopInstruction, InstructionUsesRS2
<1>7. /\ Unpulsed(EX)' /\ execute'.pcWriteEnable => control'.flushDecode
  BY <1>1 DEF PipeInv, ExecuteRead
<1>8. EmptyFetch.PC = 0 /\ EmptyFetch.instruction = NopInstruction
  BY DEF EmptyFetch
<1>9. EmptyDecode.instruction.rd = 0 /\ IsLegal(EmptyDecode.instruction)
      /\ NopInstruction.rd = 0 /\ IsLegal(NopInstruction)
  BY DEF EmptyDecode, NopInstruction, IsLegal, KnownOpcode
<1>10. /\ ~NoSignals.jump /\ ~NoSignals.branch /\ ~NoSignals.memRead /\ ~NoSignals.memWrite
       /\ ~SetFromInstruction(NopInstruction).jump
       /\ ~SetFromInstruction(NopInstruction).branch
       /\ ~SetFromInstruction(NopInstruction).memRead
       /\ ~SetFromInstruction(NopInstruction).memWrite
  BY DEF NoSignals, SetFromInstruction, NopInstruction
<1>11. MarkerRead => fetch.endMarkerSeen
  BY DEF MarkerRead
<1> DEFINE d2 == ToDecode'.PC
           f2 == ToFetch'
           x2 == ToExecute'.PC
<1> HIDE DEF d, m, w, d2, f2, x2
<1>12. d2 = (IF Redirect \/ MarkerRead THEN 0
             ELSE IF Stall \/ fetch.endMarkerSeen THEN d ELSE PC)
       /\ ToDecode'.instruction = (IF Redirect \/ MarkerRead THEN NopInstruction
                                   ELSE IF Stall \/ fetch.endMarkerSeen THEN if_id.instruction
                                   ELSE text[PC])
  BY <1>2, <1>8 DEF d, d2
<1>13. /\ x2 = (IF Redirect \/ Stall THEN 0 ELSE d)
       /\ f2 = (IF Redirect THEN NextPC
                ELSE IF MarkerRead \/ Stall \/ fetch.endMarkerSeen THEN PC
                ELSE Wrap(PC + 4))
  BY <1>2 DEF x2, d, f2
<1>14. d2 # 0 => d2 \in DOMAIN text /\ ToDecode'.instruction = text[d2] /\ f2 = Wrap(d2 + 4)
  BY <1>2, <1>3, <1>4, <1>11, <1>12, <1>13
<1>15. d2 = 0 => ToDecode'.instruction = NopInstruction
  BY <1>2, <1>3, <1>11, <1>12
<1>16. x2 # 0 => x2 \in DOMAIN text /\ ToExecute'.instruction = text[x2]
                 /\ ToExecute'.control = SetFromInstruction(text[x2])
  BY <1>2, <1>3, <1>13
<1>17. x2 = 0 => /\ ToExecute'.instruction.rd = 0 /\ IsLegal(ToExecute'.instruction)
                 /\ ~ToExecute'.control.jump /\ ~ToExecute'.control.branch
                 /\ ~ToExecute'.control.memRead /\ ~ToExecute'.control.memWrite
  BY <1>2, <1>3, <1>9, <1>10, <1>13
<1>18. /\ x2 # 0 /\ d2 # 0 => d2 = Wrap(x2 + 4)
       /\ x2 # 0 /\ d2 = 0 => fetch.endMarkerSeen /\ f2 = Wrap(x2 + 4)
  BY <1>2, <1>3, <1>4, <1>11, <1>12, <1>13
<1>19. /\ m # 0 /\ x2 # 0 => x2 = Wrap(m + 4)
       /\ m # 0 /\ x2 = 0 /\ d2 # 0 => d2 = Wrap(m + 4)
       /\ w # 0 /\ m = 0 /\ x2 # 0 => x2 = Wrap(w + 4)
  BY <1>3, <1>4, <1>11, <1>12, <1>13
<1>20. ToMemory'.PC = m /\ ToWriteBack'.PC = w
  BY <1>2 DEF m, w
<1> QED
  BY <1>2, <1>7, <1>14, <1>15, <1>16, <1>17, <1>18, <1>19, <1>20 DEF Order, d2, f2, x2

(* The order is kept. *)
LEMMA NextOrder ==
  TypeOK /\ BuffersMatch /\ PipeInv /\ OrderInv /\ 0 \notin DOMAIN text /\ [Next]_vars
    => OrderInv'
<1> SUFFICES ASSUME TypeOK, BuffersMatch, PipeInv, OrderInv, 0 \notin DOMAIN text,
                    [Next]_vars, Pipelining, phase' # "stopped"
             PROVE  Order'
  BY DEF OrderInv
<1>1. Order
  BY PipelinedMoves DEF OrderInv, Next, At, vars, loop
<1>2. CASE WriteBackPropagate
  BY <1>1, <1>2, PulseOrder
<1>3. CASE Next /\ ~WriteBackPropagate
  <2>1. UNCHANGED <<view, text>> /\ (fetch.endMarkerSeen => fetch'.endMarkerSeen)
    <3>1. FetchPropagate /\ FetchEndMarker => ~fetch.endMarkerSeen
      BY DEF FetchEndMarker
    <3> QED
      BY <1>3, <3>1, ViewKept
  <2>2. Unpulsed(EX)' /\ execute'.pcWriteEnable => control'.flushDecode
    <3> SUFFICES ASSUME Unpulsed(EX)' PROVE execute'.pcWriteEnable => control'.flushDecode
      OBVIOUS
    <3>1. FetchClockPulse \/ DecodeClockPulse
      BY <1>3, PipelinedMoves DEF Next, At, Unpulsed
    <3>2. Unpulsed(EX) /\ UNCHANGED <<execute, control>>
      BY <3>1, PipelinedMoves DEF Unpulsed, At, FetchClockPulse, DecodeClockPulse, buffers
    <3> QED
      BY <1>1, <3>2 DEF Order
  <2> QED
    BY <1>1, <2>1, <2>2 DEF Order, view
<1>4. CASE UNCHANGED vars
  <2> USE <1>4 DEF vars, architecture, pipelineRegisters, buffers, loop
  <2>1. UNCHANGED view
    BY DEF view, ToDecode, ToExecute, ToMemory, ToWriteBack, ToFetch, Unpulsed, Squashed
  <2>2. UNCHANGED <<text, fetch, execute, control>> /\ Unpulsed(EX)' = Unpulsed(EX)
    BY DEF Unpulsed
  <2> QED
    BY <1>1, <2>1, <2>2 DEF Order, view
<1> QED
  BY <1>2, <1>3, <1>4

(* The instruction ID refuses is the next one of the program. *)
LEMMA NextFault ==
  ASSUME TypeOK, OrderInv, Running, FaultIsOnPath, Pipelining, [Next]_vars
  PROVE  FaultIsOnPath'
<1> SUFFICES ASSUME reason' = "illegalInstruction" PROVE FaultIsOnPath'
  BY DEF FaultIsOnPath
<1>1. CASE DecodeClockPulse /\ DecodeIllegal
  <2>1. /\ At("clockPulse", ID) /\ ~Squashed /\ ~IsLegal(decode.instruction)
        /\ UNCHANGED <<architecture, buffers>>
    BY <1>1 DEF DecodeClockPulse, DecodeIllegal
  <2>2. Unpulsed(ID) /\ Unpulsed(EX) /\ Unpulsed(MEM) /\ Order
    BY <2>1 DEF Unpulsed, At, OrderInv
  <2>3. /\ ToExecute.PC = decode.PC /\ ToExecute.instruction = decode.instruction
        /\ ToMemory.PC = execute.PC /\ ToWriteBack.PC = memoryStage.PC
    BY <2>1, <2>2 DEF ToExecute, ToMemory, ToWriteBack
  <2>4. /\ decode.PC # 0 /\ decode.PC \in DOMAIN text /\ decode.instruction = text[decode.PC]
        /\ execute.PC # 0 => decode.PC = Wrap(execute.PC + 4)
        /\ execute.PC = 0 /\ memoryStage.PC # 0 => decode.PC = Wrap(memoryStage.PC + 4)
    BY <2>1, <2>2, <2>3 DEF Order
  <2>5. ~execute.pcWriteEnable
    BY <2>1, <2>2 DEF Order, Squashed
  <2>6. decode.PC \in DOMAIN text /\ ~IsLegal(text[decode.PC])
        /\ (execute.PC # 0 => decode.PC = Successor)
        /\ (execute.PC = 0 /\ memoryStage.PC # 0 => decode.PC = Wrap(memoryStage.PC + 4))
    BY <2>1, <2>4, <2>5 DEF Successor
  <2> QED
    BY <2>1, <2>6 DEF FaultIsOnPath, Successor, architecture, buffers
<1>2. CASE UNCHANGED vars
  BY <1>2 DEF FaultIsOnPath, Successor, vars, loop, architecture, buffers
<1>3. CASE Next /\ ~(DecodeClockPulse /\ DecodeIllegal)
  <2>1. CASE phase' # "stopped"
    <3>1. reason' = "running"
      BY <1>3, <2>1, NextRunning DEF Running
    <3> QED
      BY <3>1
  <2>2. CASE phase' = "stopped"
    BY <1>3, <2>2, PipelinedMoves
       DEF Next, Halt, FetchPropagate, FetchNothing, FetchFails, FetchEndMarker,
           FetchInstruction, MemoryPropagate, NoMemoryAccess, MemoryAccess, MemoryFault,
           FetchClockPulse, DecodeClockPulse, DecodeSquash, DecodeIssue, MemoryClockPulse,
           EndPropagate, EndClockPulse, Throw, At
  <2> QED
    BY <2>1, <2>2
<1> QED
  BY <1>1, <1>2, <1>3

(* An illegal instruction that ends a pipelined run is one the program comes *)
(* to: the successor of the instruction in EX, or behind a bubble of the load *)
(* in MEM.  What was fetched behind a taken branch or jump never ends the run. *)
THEOREM FaultOnPath ==
  ASSUME Pipelining, NoCodeAtZero PROVE Spec => []FaultIsOnPath
<1> DEFINE Inv == /\ TypeOK /\ BuffersMatch /\ TextGiven /\ Running
                  /\ PipeInv /\ OrderInv /\ FaultIsOnPath
<1>1. Init => Inv
  <2>1. Init => TextGiven /\ Running /\ FaultIsOnPath
    BY DEF Init, TextGiven, Running, FaultIsOnPath
  <2> QED
    BY <2>1, InitType, InitBuffersMatch, InitPipe
<1>2. Inv /\ [Next]_vars => Inv'
  <2>1. TextGiven => 0 \notin DOMAIN text
    BY DEF TextGiven, NoCodeAtZero
  <2> QED
    BY <2>1, NextType, NextBuffersMatch, NextText, NextRunning, NextPipeInv, NextOrder, NextFault
<1> QED
  BY <1>1, <1>2, PTL DEF Spec

----------------------------------------------------------------------------
(* With pipelining the processor follows the hart up to the fault that ends   *)
(* the run, and all the way where none does, for every program whose end      *)
(* markers are padded, every register width, number of registers, ALU and     *)
(* memory.                                                                    *)

(* What IF and ID do to the two instructions in front of an end marker: IF   *)
(* does not come back from one it has seen, and drops the instruction that a  *)
(* stall holds in that cycle.  The programs this theorem is about do not      *)
(* meet that: no instruction transfers control from there, and none uses      *)
(* what the one before it loads. *)
UsesLoaded(load, i) ==
  /\ load.opcode = "LOAD" /\ load.rd # 0
  /\ load.rd = i.rs1 \/ (InstructionUsesRS2(i.opcode) /\ load.rd = i.rs2)

MarkerPadded(program) ==
  \A a, b \in DOMAIN program : program[a] = TestEndMarker =>
    /\ a = Wrap(b + 4) \/ a = Wrap(Wrap(b + 4) + 4) =>
         program[b].opcode \notin {"BRANCH", "JAL", "JALR"}
    /\ \A c \in DOMAIN program :
         a = Wrap(b + 4) /\ b = Wrap(c + 4) => ~UsesLoaded(program[c], program[b])

WellFormed == NoCodeAtZero /\ \A program \in Programs : MarkerPadded(program)

(* The first of two stages that is not empty. *)
Elder(a, b) == IF a # 0 THEN a ELSE b

(* The register file with everything up to the instruction MEM/WB is about   *)
(* to take. *)
RegistersAhead ==
  IF Unpulsed(MEM) /\ Writes(memoryStage)
    THEN WriteRegister(WrittenBack, memoryStage.rd, WriteBackValue(memoryStage))
    ELSE WrittenBack

(* A buffer or register behind EX holds what its instruction computes from   *)
(* the registers regs, and the hart goes on at next. *)
Executed(m, regs, next) ==
  LET i == text[m.PC]
      u == ReadRegister(regs, i.rs1)
      v == ReadRegister(regs, i.rs2)
  IN
    m.PC # 0 =>
      /\ m.PC \in DOMAIN text /\ IsLegal(i)
      /\ m.rd = i.rd /\ m.control = SetFromInstruction(i)
      /\ m.aluResult = Computed(i, m.PC, u, v)
      /\ next = NextAddress(i, m.PC, u, v)

(* The instruction in EX/MEM is the next one of the hart's, and those behind *)
(* it follow it.  IF has stopped only at an end marker. *)
OnPath ==
  /\ Executed(ToMemory, RegistersAhead, Elder(ToExecute.PC, Elder(ToDecode.PC, ToFetch)))
  /\ ToMemory.PC # 0 /\ text[ToMemory.PC].opcode = "STORE" =>
       ToMemory.writeData = ReadRegister(RegistersAhead, text[ToMemory.PC].rs2)
  /\ ToMemory.PC = 0 => /\ ~Writes(ToMemory)
                        /\ ~ToMemory.control.memRead /\ ~ToMemory.control.memWrite
  /\ ToExecute.PC # 0 /\ ~Unpulsed(ID) => IsLegal(ToExecute.instruction)
  /\ fetch.endMarkerSeen => /\ ToFetch \in DOMAIN text /\ text[ToFetch] = TestEndMarker
                            /\ Unpulsed(EX) => ~execute.pcWriteEnable

(* MEM has read for the instruction it has, or asked for its write. *)
Accessed(m, a) ==
  LET i == text[a]
      u == ReadRegister(WrittenBack, i.rs1)
      v == ReadRegister(WrittenBack, i.rs2)
  IN
    /\ a # 0 /\ i.opcode = "LOAD" =>
         ~Refused(i, u, FALSE) /\ m.memData = Result(i, a, u, v, memory)
    /\ dataMemory.writeEnable <=> a # 0 /\ i.opcode = "STORE"
    /\ dataMemory.writeEnable =>
         /\ AccessSize(i) # 0
         /\ dataMemory.addr = Wrap(u + i.imm) /\ dataMemory.size = AccessSize(i)
         /\ dataMemory.dataIn = v

(* The instruction in MEM, and what comes behind it. *)
MemoryOnPath ==
  LET next == Elder(execute.PC, Elder(decode.PC, fetch.PC)) IN
  Unpulsed(MEM) =>
    /\ Executed(memoryStage, WrittenBack, next)
    /\ Accessed(memoryStage, memoryStage.PC)
    /\ memoryStage.PC = 0 => ~Writes(memoryStage)
    /\ next = Elder(ToMemory.PC, Elder(ToExecute.PC, Elder(ToDecode.PC, ToFetch)))

MemoryRead ==
  phase = "propagate" /\ stage > MEM =>
    /\ memoryStage.rd = ex_m.rd /\ memoryStage.control = ex_m.control
    /\ memoryStage.aluResult = ex_m.aluResult
    /\ Accessed(memoryStage, ex_m.PC)

(* A write that is refused has ended the run, and a halt is near its end. *)
WritesDone ==
  /\ ~Between(MEM, MEM) /\ dataMemory.writeEnable => WriteAccess # "illegal"
  /\ shouldHalt => phase = "loop" \/ At("clockPulse", WB)

PathInv ==
  Pipelining /\ phase # "stopped" => OnPath /\ MemoryOnPath /\ MemoryRead /\ WritesDone

----------------------------------------------------------------------------
(* The registers ahead move once in a cycle, too.                            *)

(* WrittenBack takes the instruction in MEM with its clock pulse; what WB    *)
(* writes it has had before. *)
LEMMA RegistersKept ==
  ASSUME TypeOK, BuffersMatch, Pipelining, Next, phase' # "stopped"
  PROVE  /\ MemoryClockPulse => WrittenBack' = RegistersAhead
         /\ ~MemoryClockPulse => WrittenBack' = WrittenBack
         /\ ~WriteBackPropagate => RegistersAhead' = RegistersAhead
         /\ WriteBackPropagate =>
              RegistersAhead' =
                IF Writes(memoryStage)
                  THEN WriteRegister(WrittenBack, memoryStage.rd, WriteBackValue(memoryStage))
                  ELSE WrittenBack
<1>1. CASE BeginCycle \/ FetchPropagate \/ DecodePropagate \/ ExecutePropagate
           \/ MemoryPropagate
  <2>1. /\ phase # "clockPulse" /\ phase' = "propagate" /\ UNCHANGED <<registers, m_wb>>
        /\ ~MemoryClockPulse /\ ~WriteBackPropagate
    BY <1>1, PipelinedMoves
       DEF At, BeginCycle, FetchPropagate, DecodePropagate, ExecutePropagate, MemoryPropagate,
           MemoryClockPulse, WriteBackPropagate, architecture, pipelineRegisters
  <2>2. WrittenBack' = WrittenBack
    BY <2>1 DEF WrittenBack, Writes, WriteBackValue
  <2> QED
    BY <2>1, <2>2 DEF RegistersAhead, Unpulsed
<1>2. CASE FetchClockPulse \/ DecodeClockPulse \/ ExecuteClockPulse
  <2>1. /\ phase = "clockPulse" /\ stage \in {IF_, ID, EX}
        /\ phase' = "clockPulse" /\ stage' \in {ID, EX, MEM}
        /\ UNCHANGED <<registers, m_wb, memoryStage>>
        /\ ~MemoryClockPulse /\ ~WriteBackPropagate
    BY <1>2, PipelinedMoves
       DEF At, FetchClockPulse, DecodeClockPulse, ExecuteClockPulse, MemoryClockPulse,
           WriteBackPropagate, architecture, buffers
  <2>2. WrittenBack' = WrittenBack
    BY <2>1 DEF WrittenBack, Writes, WriteBackValue
  <2> QED
    BY <2>1, <2>2 DEF RegistersAhead, Unpulsed, Writes, WriteBackValue
<1>3. CASE WriteBackPropagate
  <2>1. /\ phase = "propagate" /\ phase' = "clockPulse" /\ stage' = IF_
        /\ UNCHANGED <<registers, m_wb, memoryStage>> /\ ~MemoryClockPulse
    BY <1>3, PipelinedMoves
       DEF At, WriteBackPropagate, MemoryClockPulse, architecture, pipelineRegisters
  <2>2. WrittenBack' = WrittenBack
    BY <2>1 DEF WrittenBack, Writes, WriteBackValue
  <2> QED
    BY <1>3, <2>1, <2>2 DEF RegistersAhead, Unpulsed, Writes, WriteBackValue
<1>4. CASE MemoryClockPulse
  <2>1. /\ phase = "clockPulse" /\ stage = MEM /\ phase' = "clockPulse" /\ stage' = WB
        /\ m_wb' = memoryStage /\ UNCHANGED <<registers, writeBack>> /\ ~WriteBackPropagate
    BY <1>4, PipelinedMoves DEF At, MemoryClockPulse, Throw, buffers, WriteBackPropagate
  <2>2. /\ writeBack.rd = m_wb.rd /\ writeBack.writeData = WriteBackValue(m_wb)
        /\ writeBack.writeEnable = m_wb.control.regWrite
    BY <2>1 DEF BuffersMatch, WriteBackMatches, Between
  <2>3. WrittenBack = IF writeBack.writeEnable
                        THEN WriteRegister(registers, writeBack.rd, writeBack.writeData)
                        ELSE registers
    BY <2>1, <2>2 DEF WrittenBack, Writes, WriteRegister
  <2>4. WrittenBack' = RegistersAhead
    <3>1. Unpulsed(MEM)
      BY <2>1 DEF Unpulsed
    <3>2. Writes(m_wb)' = Writes(memoryStage) /\ m_wb'.rd = memoryStage.rd
          /\ WriteBackValue(m_wb)' = WriteBackValue(memoryStage)
      BY <2>1 DEF Writes, WriteBackValue
    <3> QED
      BY <2>1, <2>3, <3>1, <3>2 DEF WrittenBack, RegistersAhead
  <2> QED
    BY <1>4, <2>1, <2>4 DEF RegistersAhead, Unpulsed
<1>5. CASE WriteBackClockPulse
  <2>1. /\ phase = "clockPulse" /\ stage = WB /\ phase' = "loop" /\ UNCHANGED m_wb
        /\ ~MemoryClockPulse /\ ~WriteBackPropagate
    BY <1>5, PipelinedMoves
       DEF At, WriteBackClockPulse, MemoryClockPulse, WriteBackPropagate, pipelineRegisters
  <2>2. WrittenBack' = WrittenBack
    BY <1>5, <2>1 DEF WriteBackClockPulse, WrittenBack, Writes, WriteBackValue
  <2> QED
    BY <2>1, <2>2 DEF RegistersAhead, Unpulsed
<1> QED
  BY <1>1, <1>2, <1>3, <1>4, <1>5, PipelinedMoves DEF Next

(* The registers ahead are the register file between two cycles. *)
LEMMA AheadOutside == phase # "clockPulse" => RegistersAhead = WrittenBack
  BY DEF RegistersAhead, Unpulsed

(* They are a register file.                                                 *)
LEMMA WrittenBackType == TypeOK => WrittenBack \in RegisterArray
<1> SUFFICES ASSUME TypeOK PROVE WrittenBack \in RegisterArray
  OBVIOUS
<1> DEFINE latched == IF Pipelining /\ phase = "clockPulse" /\ stage = WB
                           /\ writeBack.writeEnable
                        THEN WriteRegister(registers, writeBack.rd, writeBack.writeData)
                        ELSE registers
<1>1. /\ registers \in RegisterArray /\ m_wb \in M_WBRegisters /\ m_wb.rd \in RegNumber
      /\ writeBack.rd \in RegNumber /\ writeBack.writeData \in Word
  BY DEF TypeOK, ArchitectureType, PipelineRegistersType, BuffersType, M_WBRegisters
<1>2. latched \in RegisterArray
  BY <1>1, WriteRegisterType
<1>3. WrittenBack = IF Writes(m_wb) THEN WriteRegister(latched, m_wb.rd, WriteBackValue(m_wb))
                    ELSE latched
  BY DEF WrittenBack
<1> HIDE DEF latched
<1> QED
  BY <1>1, <1>2, <1>3, WriteRegisterType, WriteBackValueType

----------------------------------------------------------------------------
(* Between two clock pulses.                                                 *)

(* IF has just seen an end marker. *)
LEMMA MarkerSeen ==
  ASSUME TypeOK, PipeInv, Pipelining, FetchPropagate, FetchEndMarker
  PROVE  /\ ToFetch' \in DOMAIN text' /\ text'[ToFetch'] = TestEndMarker
         /\ ~Unpulsed(EX)'
<1>1. phase' = "propagate" /\ UNCHANGED <<PC, text>>
  BY DEF FetchPropagate, FetchEndMarker, EndPropagate, Throw, At, architecture
<1>2. ToFetch' = PC'
  BY <1>1, ViewOutsideNext
<1> QED
  BY <1>1, <1>2 DEF FetchEndMarker, Unpulsed

(* The instructions between two clock pulses stay as they are. *)
LEMMA KeepOnPath ==
  ASSUME TypeOK, BuffersMatch, PipeInv, Pipelining, Next, ~WriteBackPropagate,
         phase' # "stopped", OnPath
  PROVE  OnPath'
<1>0. fetch'.endMarkerSeen = fetch.endMarkerSeen \/ (FetchPropagate /\ FetchEndMarker)
  BY ViewKept
<1>1. /\ ToFetch' = ToFetch /\ ToDecode' = ToDecode /\ ToExecute' = ToExecute
      /\ ToMemory' = ToMemory /\ text' = text /\ RegistersAhead' = RegistersAhead
  <2>1. UNCHANGED view /\ text' = text /\ RegistersAhead' = RegistersAhead
    BY ViewKept, RegistersKept
  <2> QED
    BY <2>1 DEF view
<1>2. Unpulsed(EX)' => Unpulsed(EX) /\ execute' = execute
  <2>1. Unpulsed(EX)' => FetchClockPulse \/ DecodeClockPulse
    BY PipelinedMoves DEF Next, At, Unpulsed
  <2> QED
    BY <2>1, PipelinedMoves DEF FetchClockPulse, DecodeClockPulse, At, Unpulsed, buffers
<1>3. fetch'.endMarkerSeen => /\ ToFetch' \in DOMAIN text' /\ text'[ToFetch'] = TestEndMarker
                              /\ Unpulsed(EX)' => ~execute'.pcWriteEnable
  <2>1. CASE FetchPropagate /\ FetchEndMarker
    BY <2>1, MarkerSeen
  <2>2. CASE ~(FetchPropagate /\ FetchEndMarker)
    <3>1. fetch'.endMarkerSeen => fetch.endMarkerSeen
      BY <1>0, <2>2
    <3> QED
      BY <1>1, <1>2, <3>1 DEF OnPath
  <2> QED
    BY <2>1, <2>2
<1>4. ToExecute'.PC # 0 /\ ~Unpulsed(ID)' => IsLegal(ToExecute'.instruction)
  <2>1. CASE DecodeClockPulse
    <3>1. At("clockPulse", EX)' /\ (DecodeSquash \/ DecodeIssue)
      BY <2>1, PipelinedMoves DEF DecodeClockPulse, DecodeIllegal, Throw
    <3>2. ToExecute' = id_ex'
      BY <3>1 DEF ToExecute, Unpulsed, At
    <3> QED
      BY <3>1, <3>2 DEF DecodeSquash, DecodeIssue, EmptyDecode
  <2>2. CASE ~DecodeClockPulse
    <3>1. ~Unpulsed(ID)' => ~Unpulsed(ID)
      BY <2>2, PipelinedMoves
         DEF Next, At, Unpulsed
    <3> QED
      BY <1>1, <3>1 DEF OnPath
  <2> QED
    BY <2>1, <2>2
<1>5. Executed(ToMemory, RegistersAhead, Elder(ToExecute.PC, Elder(ToDecode.PC, ToFetch)))'
  BY <1>1 DEF OnPath, Executed, Elder
<1>6. /\ ToMemory'.PC # 0 /\ text'[ToMemory'.PC].opcode = "STORE" =>
           ToMemory'.writeData = ReadRegister(RegistersAhead', text'[ToMemory'.PC].rs2)
      /\ ToMemory'.PC = 0 => /\ ~Writes(ToMemory)'
                             /\ ~ToMemory'.control.memRead /\ ~ToMemory'.control.memWrite
  BY <1>1 DEF OnPath, Writes
<1> QED
  BY <1>3, <1>4, <1>5, <1>6 DEF OnPath

(* So do the instruction in MEM and what it has asked of the bus. *)
LEMMA KeepMemoryOnPath ==
  ASSUME TypeOK, BuffersMatch, Pipelining, Next, ~WriteBackPropagate,
         phase' # "stopped", MemoryOnPath
  PROVE  MemoryOnPath'
<1> SUFFICES ASSUME Unpulsed(MEM)' PROVE MemoryOnPath'
  BY DEF MemoryOnPath
<1>1. FetchClockPulse \/ DecodeClockPulse \/ ExecuteClockPulse
  BY PipelinedMoves DEF Next, At, Unpulsed
<1>2. /\ Unpulsed(MEM)
      /\ UNCHANGED <<memory, text, memoryStage, dataMemory, execute.PC, decode.PC, fetch.PC>>
  BY <1>1, PipelinedMoves
     DEF At, Unpulsed, FetchClockPulse, DecodeClockPulse, ExecuteClockPulse, buffers,
         architecture, TypeOK, BuffersType
<1>3. WrittenBack' = WrittenBack /\ UNCHANGED view
  <2>1. ~MemoryClockPulse
    BY <1>1 DEF FetchClockPulse, DecodeClockPulse, ExecuteClockPulse, MemoryClockPulse, At
  <2> QED
    BY <2>1, RegistersKept, ViewKept
<1>4. Executed(memoryStage, WrittenBack, Elder(execute.PC, Elder(decode.PC, fetch.PC)))'
  BY <1>2, <1>3 DEF MemoryOnPath, Executed, Elder
<1>5. Accessed(memoryStage, memoryStage.PC)'
  BY <1>2, <1>3 DEF MemoryOnPath, Accessed
<1>6. Elder(execute.PC, Elder(decode.PC, fetch.PC))'
        = Elder(ToMemory.PC, Elder(ToExecute.PC, Elder(ToDecode.PC, ToFetch)))'
  BY <1>2, <1>3 DEF MemoryOnPath, Elder, view
<1>7. memoryStage'.PC = 0 => ~Writes(memoryStage)'
  BY <1>2 DEF MemoryOnPath, Writes
<1> QED
  BY <1>4, <1>5, <1>6, <1>7 DEF MemoryOnPath

(* MEM reads for the instruction in EX/MEM, or prepares its write. *)
LEMMA NextMemoryRead ==
  ASSUME TypeOK, BuffersMatch, Pipelining, Next, phase' # "stopped", OnPath
  PROVE  MemoryRead'
<1> SUFFICES ASSUME phase' = "propagate", stage' > MEM PROVE MemoryRead'
  BY DEF MemoryRead
<1>1. MemoryPropagate
  BY PipelinedMoves DEF Next, At, BuffersMatch, CycleStart
<1> DEFINE a == ex_m.PC
           i == text[a]
           u == ReadRegister(WrittenBack, i.rs1)
           v == ReadRegister(WrittenBack, i.rs2)
<1>2. /\ phase = "propagate" /\ UNCHANGED <<architecture, pipelineRegisters>>
      /\ NoMemoryAccess \/ MemoryAccess
  BY <1>1 DEF MemoryPropagate, MemoryFault, Throw, At
<1>3. WrittenBack' = WrittenBack
  <2>1. ~MemoryClockPulse
    BY <1>2 DEF MemoryClockPulse, At
  <2> QED
    BY <2>1, RegistersKept, <1>2 DEF WrittenBack, Writes, WriteBackValue, architecture,
                                      pipelineRegisters
<1>4. ToMemory = ex_m /\ RegistersAhead = WrittenBack
  BY <1>2, ViewOutside, AheadOutside
<1>5. a # 0 =>
        /\ a \in DOMAIN text /\ IsLegal(i)
        /\ ex_m.rd = i.rd /\ ex_m.control = SetFromInstruction(i)
        /\ ex_m.aluResult = Computed(i, a, u, v)
  BY <1>4 DEF OnPath, Executed
<1>6. /\ a = 0 => ~ex_m.control.memRead /\ ~ex_m.control.memWrite
      /\ a # 0 /\ i.opcode = "STORE" => ex_m.writeData = v
  BY <1>4 DEF OnPath
<1>7. a # 0 => i \in Instruction
  BY <1>5 DEF TypeOK, ArchitectureType, IsProgram
<1>8. a # 0 => /\ ex_m.control.memRead <=> i.opcode = "LOAD"
               /\ ex_m.control.memWrite <=> i.opcode = "STORE"
               /\ ex_m.control.memSize = AccessSize(i)
               /\ ex_m.control.memSignExtend = (i.opcode = "LOAD" /\ i.funct3 < 3)
  BY <1>5, <1>7, MemorySignals
<1>9. a # 0 /\ i.opcode \in {"LOAD", "STORE"} => ex_m.aluResult = Wrap(u + i.imm)
  BY <1>5 DEF Computed
<1> HIDE DEF a, i, u, v
<1>10. /\ memoryStage'.rd = ex_m.rd /\ memoryStage'.control = ex_m.control
       /\ memoryStage'.aluResult = ex_m.aluResult
  BY <1>2 DEF NoMemoryAccess, MemoryAccess, PassThrough
<1>11. a # 0 /\ i.opcode = "LOAD" =>
         ~Refused(i, u, FALSE) /\ memoryStage'.memData = Result(i, a, u, v, memory)
  <2> SUFFICES ASSUME a # 0, i.opcode = "LOAD"
               PROVE  ~Refused(i, u, FALSE)
                      /\ memoryStage'.memData = Result(i, a, u, v, memory)
    OBVIOUS
  <2>1. MemoryAccess /\ ex_m.control.memRead
    BY <1>2, <1>8 DEF NoMemoryAccess
  <2>2. ex_m.control.memSignExtend = (i.funct3 < 3)
    BY <1>8
  <2>3. memoryStage'.memData = Load(memory, ex_m.aluResult, ex_m.control.memSize,
                                    ex_m.control.memSignExtend)
    BY <2>1 DEF MemoryAccess, PassThrough
  <2> QED
    BY <1>8, <1>9, <2>1, <2>2, <2>3 DEF MemoryAccess, ReadAccess, Refused, Result
<1>12. dataMemory'.writeEnable <=> ex_m.control.memWrite
  <2>1. NoMemoryAccess => ~dataMemory'.writeEnable
    BY DEF NoMemoryAccess, TypeOK, BuffersType
  <2>2. MemoryAccess => dataMemory'.writeEnable = ex_m.control.memWrite
    BY DEF MemoryAccess
  <2> QED
    BY <1>2, <2>1, <2>2 DEF NoMemoryAccess
<1>13. ex_m.control.memWrite <=> a # 0 /\ i.opcode = "STORE"
  BY <1>6, <1>8
<1>14. a # 0 /\ i.opcode = "STORE" =>
         /\ AccessSize(i) # 0
         /\ dataMemory'.addr = Wrap(u + i.imm) /\ dataMemory'.size = AccessSize(i)
         /\ dataMemory'.dataIn = v
  <2> SUFFICES ASSUME a # 0, i.opcode = "STORE"
               PROVE  /\ AccessSize(i) # 0
                      /\ dataMemory'.addr = Wrap(u + i.imm) /\ dataMemory'.size = AccessSize(i)
                      /\ dataMemory'.dataIn = v
    OBVIOUS
  <2>1. MemoryAccess
    BY <1>2, <1>13 DEF NoMemoryAccess
  <2> QED
    BY <1>6, <1>8, <1>9, <2>1 DEF MemoryAccess
<1>15. UNCHANGED <<text, memory, ex_m>>
  BY <1>2 DEF architecture, pipelineRegisters
<1>16. Accessed(memoryStage, ex_m.PC)'
  BY <1>3, <1>11, <1>12, <1>13, <1>14, <1>15 DEF Accessed, a, i, u, v
<1> QED
  BY <1>10, <1>15, <1>16 DEF MemoryRead

(* A refused write ends the run at once, and a halt at the end of the cycle. *)
LEMMA NextWritesDone ==
  ASSUME TypeOK, BuffersMatch, Pipelining, Next, phase' # "stopped", WritesDone
  PROVE  WritesDone'
<1>1. CASE MemoryClockPulse
  <2>1. /\ At("clockPulse", WB)' /\ UNCHANGED dataMemory
        /\ WriteNothing \/ WriteMemory \/ WriteSerial \/ WriteSysStatus
    BY <1>1, PipelinedMoves DEF MemoryClockPulse, Throw, buffers
  <2>2. dataMemory.writeEnable => WriteAccess # "illegal"
    BY <2>1 DEF WriteNothing, WriteMemory, WriteSerial, WriteSysStatus
  <2>3. WriteAccess' = WriteAccess
    BY <2>1 DEF WriteAccess
  <2> QED
    BY <2>1, <2>2, <2>3 DEF WritesDone
<1>2. CASE ~MemoryClockPulse
  <2>1. shouldHalt' = shouldHalt
    BY <1>2 DEF Next, BeginCycle, Halt, FetchPropagate, DecodePropagate, ExecutePropagate,
                MemoryPropagate, WriteBackPropagate, FetchClockPulse, DecodeClockPulse,
                ExecuteClockPulse, WriteBackClockPulse, architecture
  <2>2. shouldHalt' => phase' = "loop" \/ At("clockPulse", WB)'
    BY <2>1, <1>2, PipelinedMoves DEF WritesDone, Next, At, BeginCycle
  <2>3. CASE MemoryPropagate
    <3>1. Between(MEM, MEM)'
      BY <2>3, PipelinedMoves DEF Between, At
    <3> QED
      BY <2>2, <3>1 DEF WritesDone
  <2>4. CASE ~MemoryPropagate
    <3>1. dataMemory' = dataMemory
      BY <1>2, <2>4
         DEF Next, BeginCycle, Halt, FetchPropagate, DecodePropagate, ExecutePropagate,
             WriteBackPropagate, FetchClockPulse, DecodeClockPulse, ExecuteClockPulse,
             WriteBackClockPulse, buffers
    <3>2. ~Between(MEM, MEM)' => ~Between(MEM, MEM)
      BY <1>2, <2>4, PipelinedMoves DEF Next, Between, At
    <3>3. WriteAccess' = WriteAccess
      BY <3>1 DEF WriteAccess
    <3> QED
      BY <2>2, <3>1, <3>2, <3>3 DEF WritesDone
  <2> QED
    BY <2>3, <2>4
<1> QED
  BY <1>1, <1>2

----------------------------------------------------------------------------
(* The clock pulses of a cycle.                                              *)

(* What OnPath says before the clock pulses: of the registers themselves. *)
LEMMA PathOutside ==
  ASSUME phase # "clockPulse", OnPath
  PROVE  /\ Executed(ex_m, WrittenBack, Elder(id_ex.PC, Elder(if_id.PC, PC)))
         /\ ex_m.PC = 0 => ~Writes(ex_m)
         /\ id_ex.PC # 0 => IsLegal(id_ex.instruction)
         /\ fetch.endMarkerSeen => PC \in DOMAIN text /\ text[PC] = TestEndMarker
<1>1. ToFetch = PC /\ ToDecode = if_id /\ ToExecute = id_ex /\ ToMemory = ex_m
  BY ViewOutside
<1>2. RegistersAhead = WrittenBack /\ ~Unpulsed(ID)
  BY AheadOutside DEF Unpulsed
<1> QED
  BY <1>1, <1>2 DEF OnPath

(* What Order says before the clock pulses. *)
LEMMA OrderOutside ==
  ASSUME phase # "clockPulse", Order
  PROVE  LET m == id_ex.PC
             d == if_id.PC
         IN
           /\ d # 0 => d \in DOMAIN text /\ if_id.instruction = text[d] /\ PC = Wrap(d + 4)
           /\ d = 0 => if_id.instruction = NopInstruction
           /\ m # 0 => m \in DOMAIN text /\ id_ex.instruction = text[m]
                       /\ id_ex.control = SetFromInstruction(text[m])
           /\ m # 0 /\ d # 0 => d = Wrap(m + 4)
           /\ m # 0 /\ d = 0 => fetch.endMarkerSeen /\ PC = Wrap(m + 4)
           /\ m = 0 => id_ex.instruction.rd = 0 /\ ~id_ex.control.jump /\ ~id_ex.control.branch
                       /\ ~id_ex.control.memRead /\ ~id_ex.control.memWrite
<1>1. ToFetch = PC /\ ToDecode = if_id /\ ToExecute = id_ex
  BY ViewOutside
<1> QED
  BY <1>1 DEF Order

(* EX has the operands the instruction finds in program order. *)
LEMMA OperandsAhead ==
  ASSUME TypeOK, BuffersMatch, OperandsInv, MemoryRead, Pipelining, WriteBackPropagate
  PROVE  LET i == id_ex.instruction IN
           /\ Rs1Value = ReadRegister(RegistersAhead', i.rs1)
           /\ InstructionUsesRS2(i.opcode) => Rs2Value = ReadRegister(RegistersAhead', i.rs2)
<1>1. At("propagate", WB) /\ phase' # "stopped"
  BY PipelinedMoves DEF At
<1>2. RegistersAhead' =
        IF Writes(memoryStage)
          THEN WriteRegister(WrittenBack, memoryStage.rd, WriteBackValue(memoryStage))
          ELSE WrittenBack
  BY <1>1, RegistersKept DEF Next
<1>3. /\ memoryStage.rd = ex_m.rd /\ memoryStage.control = ex_m.control
      /\ memoryStage.aluResult = ex_m.aluResult
  BY <1>1 DEF MemoryRead, At
<1>4. Writes(memoryStage) = Writes(ex_m)
      /\ (~ex_m.control.memToReg => WriteBackValue(memoryStage) = ex_m.aluResult)
  BY <1>3 DEF Writes, WriteBackValue
<1>5. WrittenBack = IF Writes(m_wb)
                      THEN WriteRegister(registers, m_wb.rd, WriteBackValue(m_wb))
                      ELSE registers
  BY <1>1 DEF WrittenBack, At
<1>6. WrittenBack \in RegisterArray /\ ex_m.rd \in RegNumber
  BY WrittenBackType DEF TypeOK, PipelineRegistersType, EX_MRegisters
<1>7. ASSUME NEW r \in RegNumber, NEW value, OperandIsCurrent(r, value)
      PROVE  value = ReadRegister(RegistersAhead', r)
  <2>1. value = IF Writes(ex_m) /\ ex_m.rd = r THEN ex_m.aluResult
                ELSE ReadRegister(WrittenBack, r)
    BY <1>5, <1>7 DEF OperandIsCurrent, ArchitecturalValue
  <2>2. CASE ~Writes(ex_m)
    BY <1>2, <1>4, <2>1, <2>2
  <2>3. CASE Writes(ex_m)
    <3>1. /\ RegistersAhead' = WriteRegister(WrittenBack, ex_m.rd, WriteBackValue(memoryStage))
          /\ ex_m.rd # 0
      BY <1>2, <1>3, <1>4, <2>3 DEF Writes
    <3>2. ex_m.rd = r => WriteBackValue(memoryStage) = ex_m.aluResult
      BY <1>4, <1>7, <2>3 DEF OperandIsCurrent
    <3> QED
      BY <1>6, <2>1, <2>3, <3>1, <3>2, ReadAfterWrite
  <2> QED
    BY <2>2, <2>3
<1>8. id_ex.instruction.rs1 \in RegNumber /\ id_ex.instruction.rs2 \in RegNumber
  BY DEF TypeOK, PipelineRegistersType, ID_EXRegisters, Instruction
<1>9. LET i == id_ex.instruction IN
        /\ OperandIsCurrent(i.rs1, Rs1Value)
        /\ InstructionUsesRS2(i.opcode) => OperandIsCurrent(i.rs2, Rs2Value)
  BY <1>1, OperandsInvSuffices DEF OperandsAreCurrent, At
<1> QED
  BY <1>7, <1>8, <1>9

(* IF has stopped at an end marker for good: nothing in front of it takes the *)
(* program elsewhere, and nothing is held when it is seen. *)
LEMMA MarkerHolds ==
  ASSUME TypeOK, PipeInv, Order, OnPath, MarkerPadded(text), Pipelining,
         phase = "propagate", fetch.endMarkerSeen
  PROVE  ~Redirect /\ ~(MarkerRead /\ Stall)
<1> DEFINE m == id_ex.PC
           d == if_id.PC
<1>1. PC \in DOMAIN text /\ text[PC] = TestEndMarker
  BY PathOutside
<1>2. /\ d # 0 => d \in DOMAIN text /\ if_id.instruction = text[d] /\ PC = Wrap(d + 4)
      /\ d = 0 => if_id.instruction = NopInstruction
      /\ m # 0 => m \in DOMAIN text /\ id_ex.instruction = text[m]
                  /\ id_ex.control = SetFromInstruction(text[m])
      /\ m # 0 /\ d # 0 => d = Wrap(m + 4)
      /\ m # 0 /\ d = 0 => PC = Wrap(m + 4)
      /\ m = 0 => id_ex.instruction.rd = 0 /\ ~id_ex.control.jump /\ ~id_ex.control.branch
  BY OrderOutside
<1> HIDE DEF m, d
<1>3. /\ SetFromInstruction(text[m]).jump <=> text[m].opcode \in {"JAL", "JALR"}
      /\ SetFromInstruction(text[m]).branch <=> text[m].opcode = "BRANCH"
      /\ SetFromInstruction(text[m]).memRead <=> text[m].opcode = "LOAD"
  BY DEF SetFromInstruction
<1>4. ~Redirect
  <2>1. CASE m = 0
    BY <1>2, <2>1 DEF Redirect, BranchTaken
  <2>2. CASE m # 0
    <3>1. m \in DOMAIN text /\ (PC = Wrap(m + 4) \/ PC = Wrap(Wrap(m + 4) + 4))
      BY <1>2, <2>2
    <3>2. text[m].opcode \notin {"BRANCH", "JAL", "JALR"}
      BY <1>1, <3>1 DEF MarkerPadded
    <3>3. ~id_ex.control.jump /\ ~id_ex.control.branch
      BY <1>3, <1>2, <2>2, <3>2
    <3> QED
      BY <3>3 DEF Redirect, BranchTaken
  <2> QED
    BY <2>1, <2>2
<1>5. ~Stall
  <2> SUFFICES ASSUME Stall PROVE FALSE
    OBVIOUS
  <2>1. /\ id_ex.control.memRead /\ id_ex.instruction.rd # 0
        /\ \/ id_ex.instruction.rd = if_id.instruction.rs1
           \/ /\ InstructionUsesRS2(if_id.instruction.opcode)
              /\ id_ex.instruction.rd = if_id.instruction.rs2
    BY DEF Stall, LoadUseHazard
  <2>2. m # 0 /\ d # 0
    BY <1>2, <2>1 DEF NopInstruction, InstructionUsesRS2
  <2>3. UsesLoaded(text[m], text[d])
    BY <1>3, <1>2, <2>1, <2>2 DEF UsesLoaded
  <2>4. /\ m \in DOMAIN text /\ d \in DOMAIN text /\ PC = Wrap(d + 4) /\ d = Wrap(m + 4)
    BY <1>2, <2>2
  <2> QED
    BY <1>1, <2>3, <2>4 DEF MarkerPadded
<1> QED
  BY <1>4, <1>5

(* What EX hands on, with the instructions behind it. *)
LEMMA PulseExecuted ==
  ASSUME TypeOK, BuffersMatch, OperandsInv, PipeInv, Order, OnPath, MemoryRead,
         MarkerPadded(text), 0 \notin DOMAIN text, Pipelining, WriteBackPropagate
  PROVE  /\ Executed(ToMemory, RegistersAhead,
                     Elder(ToExecute.PC, Elder(ToDecode.PC, ToFetch)))'
         /\ ToMemory'.PC # 0 /\ text'[ToMemory'.PC].opcode = "STORE" =>
              ToMemory'.writeData = ReadRegister(RegistersAhead', text'[ToMemory'.PC].rs2)
<1> DEFINE m == id_ex.PC
           d == if_id.PC
           i == id_ex.instruction
           u == ReadRegister(RegistersAhead', i.rs1)
           v == ReadRegister(RegistersAhead', i.rs2)
<1>1. At("propagate", WB) /\ phase # "clockPulse"
  BY PipelinedMoves DEF At
<1>2. /\ ToDecode' = (IF Redirect \/ MarkerRead THEN EmptyFetch
                      ELSE IF Stall \/ fetch.endMarkerSeen THEN if_id
                      ELSE [PC |-> PC, instruction |-> text[PC]])
      /\ ToExecute'.PC = (IF Redirect \/ Stall THEN 0 ELSE d)
      /\ ToMemory' = [PC |-> m, aluResult |-> AluResult, writeData |-> Rs2Value,
                      rd |-> i.rd, control |-> id_ex.control]
      /\ ToFetch' = (IF Redirect THEN NextPC
                     ELSE IF MarkerRead \/ Stall \/ fetch.endMarkerSeen THEN PC
                     ELSE Wrap(PC + 4))
      /\ text' = text
  BY PulseBegins
<1> SUFFICES ASSUME m # 0
             PROVE  /\ Executed(ToMemory, RegistersAhead,
                                Elder(ToExecute.PC, Elder(ToDecode.PC, ToFetch)))'
                    /\ text[m].opcode = "STORE" =>
                         Rs2Value = ReadRegister(RegistersAhead', text[m].rs2)
  BY <1>2 DEF Executed
<1>3. /\ d # 0 => PC = Wrap(d + 4) /\ d = Wrap(m + 4)
      /\ d = 0 => fetch.endMarkerSeen /\ PC = Wrap(m + 4) /\ if_id.instruction = NopInstruction
      /\ m \in DOMAIN text /\ i = text[m] /\ id_ex.control = SetFromInstruction(i)
      /\ IsLegal(i)
  BY <1>1, OrderOutside, PathOutside
<1>4. u = Rs1Value /\ (InstructionUsesRS2(i.opcode) => v = Rs2Value)
  BY OperandsAhead
<1>5. u \in Word /\ v \in Word /\ i \in Instruction
  <2>1. phase' # "stopped" /\ memoryStage \in M_WBRegisters /\ memoryStage.rd \in RegNumber
    BY PipelinedMoves DEF At, TypeOK, BuffersType, M_WBRegisters
  <2>2. WrittenBack \in RegisterArray
    BY WrittenBackType
  <2>3. RegistersAhead' =
          IF Writes(memoryStage)
            THEN WriteRegister(WrittenBack, memoryStage.rd, WriteBackValue(memoryStage))
            ELSE WrittenBack
    BY <2>1, RegistersKept DEF Next
  <2>4. RegistersAhead' \in RegisterArray
    BY <2>1, <2>2, <2>3, WriteRegisterType, WriteBackValueType
  <2>5. i \in Instruction /\ i.rs1 \in RegNumber /\ i.rs2 \in RegNumber
    BY DEF TypeOK, PipelineRegistersType, ID_EXRegisters, Instruction
  <2> QED
    BY <2>4, <2>5, ReadRegisterType
<1> HIDE DEF u, v
<1>6. /\ AluResult = Computed(i, m, u, v)
      /\ Redirect <=> Redirects(i, u, v)
      /\ Redirects(i, u, v) => NextPC = NextAddress(i, m, u, v)
  BY <1>3, <1>4, <1>5, ExecuteComputes DEF Redirect
<1>7. Elder(ToExecute'.PC, Elder(ToDecode'.PC, ToFetch')) = NextAddress(i, m, u, v)
  <2> HIDE DEF m, d
  <2>1. ToDecode'.PC = (IF Redirect \/ MarkerRead THEN 0
                        ELSE IF Stall \/ fetch.endMarkerSeen THEN d ELSE PC)
    BY <1>2 DEF EmptyFetch, d
  <2>2. CASE Redirect
    BY <1>2, <1>6, <2>1, <2>2 DEF Elder
  <2>3. CASE ~Redirect
    <3>1. NextAddress(i, m, u, v) = Wrap(m + 4)
      BY <1>6, <2>3 DEF NextAddress
    <3>2. CASE d = 0
      <4>1. ~Stall
        BY <1>3, <3>2 DEF Stall, LoadUseHazard, NopInstruction, InstructionUsesRS2
      <4>2. ToExecute'.PC = 0 /\ ToDecode'.PC = 0 /\ ToFetch' = Wrap(m + 4)
        BY <1>2, <1>3, <2>1, <2>3, <3>2, <4>1
      <4> QED
        BY <3>1, <4>2 DEF Elder
    <3>3. CASE d # 0 /\ ~Stall
      BY <1>2, <1>3, <2>3, <3>1, <3>3 DEF Elder
    <3>4. CASE d # 0 /\ Stall
      <4>1. ~MarkerRead
        BY <1>1, <3>4, MarkerHolds DEF MarkerRead, At
      <4> QED
        BY <1>2, <1>3, <2>1, <2>3, <3>1, <3>4, <4>1 DEF Elder
    <3> QED
      BY <3>2, <3>3, <3>4
  <2> QED
    BY <2>2, <2>3
<1>8. /\ ToMemory'.PC = m /\ ToMemory'.rd = i.rd /\ ToMemory'.control = SetFromInstruction(i)
      /\ ToMemory'.aluResult = Computed(i, m, u, v)
  BY <1>2, <1>3, <1>6
<1>9. Executed(ToMemory, RegistersAhead, Elder(ToExecute.PC, Elder(ToDecode.PC, ToFetch)))'
  BY <1>2, <1>3, <1>7, <1>8 DEF Executed, Elder, u, v
<1>10. i.opcode = "STORE" => Rs2Value = v
  BY <1>4 DEF InstructionUsesRS2
<1> QED
  BY <1>3, <1>9, <1>10 DEF v

(* The clock pulses begin: everything under way is one stage further. *)
LEMMA PulseOnPath ==
  ASSUME TypeOK, BuffersMatch, OperandsInv, PipeInv, Order, OnPath, MemoryRead,
         MarkerPadded(text), 0 \notin DOMAIN text, Pipelining, WriteBackPropagate
  PROVE  OnPath'
<1>1. /\ phase = "propagate" /\ stage = WB /\ Unpulsed(ID)' /\ fetch' = fetch /\ text' = text
      /\ execute' = execute
  BY PipelinedMoves DEF At, Unpulsed, WriteBackPropagate, architecture
<1>2. /\ ToMemory' = [PC |-> id_ex.PC, aluResult |-> AluResult, writeData |-> Rs2Value,
                      rd |-> id_ex.instruction.rd, control |-> id_ex.control]
      /\ ToFetch' = (IF Redirect THEN NextPC
                     ELSE IF MarkerRead \/ Stall \/ fetch.endMarkerSeen THEN PC
                     ELSE Wrap(PC + 4))
  BY PulseBegins
<1>3. fetch'.endMarkerSeen => /\ ToFetch' \in DOMAIN text' /\ text'[ToFetch'] = TestEndMarker
                              /\ Unpulsed(EX)' => ~execute'.pcWriteEnable
  <2> SUFFICES ASSUME fetch.endMarkerSeen
               PROVE  /\ ToFetch' \in DOMAIN text /\ text[ToFetch'] = TestEndMarker
                      /\ ~execute.pcWriteEnable
    BY <1>1
  <2>1. ~Redirect
    BY <1>1, MarkerHolds
  <2>2. execute.pcWriteEnable <=> Redirect
    BY <1>1 DEF PipeInv, ExecuteRead, Redirect
  <2>3. PC \in DOMAIN text /\ text[PC] = TestEndMarker
    BY <1>1, PathOutside
  <2> QED
    BY <1>2, <2>1, <2>2, <2>3
<1>4. ToMemory'.PC = 0 => /\ ~Writes(ToMemory)'
                          /\ ~ToMemory'.control.memRead /\ ~ToMemory'.control.memWrite
  <2>1. id_ex.PC = 0 => id_ex.instruction.rd = 0 /\ ~id_ex.control.memRead
                        /\ ~id_ex.control.memWrite
    BY <1>1, OrderOutside
  <2> QED
    BY <1>2, <2>1 DEF Writes
<1> QED
  BY <1>1, <1>3, <1>4, PulseExecuted DEF OnPath

(* When the clock pulses begin MEM has the instruction of EX/MEM, has read    *)
(* for it or prepared its write, and the others still follow it. *)
LEMMA PulseMemoryOnPath ==
  ASSUME TypeOK, BuffersMatch, PipeInv, Order, OnPath, MemoryRead,
         0 \notin DOMAIN text, Pipelining, WriteBackPropagate
  PROVE  MemoryOnPath'
<1> DEFINE m == id_ex.PC
           d == if_id.PC
<1>1. /\ phase = "propagate" /\ stage = WB /\ phase' = "clockPulse"
      /\ UNCHANGED <<text, memory, memoryStage, dataMemory, execute, decode, fetch>>
  BY PipelinedMoves DEF At, WriteBackPropagate, architecture
<1>2. WrittenBack' = WrittenBack
  BY <1>1, RegistersKept DEF Next, MemoryClockPulse, At
<1>3. execute.PC = m /\ decode.PC = d /\ fetch.PC = PC /\ memoryStage.PC = ex_m.PC
  BY <1>1 DEF BuffersMatch, ExecuteMatches, MemoryMatches, Between, PipeInv, FetchRead,
              DecodeRead
<1>4. /\ memoryStage.rd = ex_m.rd /\ memoryStage.control = ex_m.control
      /\ memoryStage.aluResult = ex_m.aluResult
      /\ Accessed(memoryStage, ex_m.PC)
  BY <1>1 DEF MemoryRead
<1>5. /\ Executed(ex_m, WrittenBack, Elder(m, Elder(d, PC)))
      /\ ex_m.PC = 0 => ~Writes(ex_m)
  BY <1>1, PathOutside
<1>6. Executed(memoryStage, WrittenBack, Elder(execute.PC, Elder(decode.PC, fetch.PC)))'
  BY <1>1, <1>2, <1>3, <1>4, <1>5 DEF Executed, Elder
<1>7. Accessed(memoryStage, memoryStage.PC)'
  BY <1>1, <1>2, <1>3, <1>4 DEF Accessed
<1>8. memoryStage'.PC = 0 => ~Writes(memoryStage)'
  BY <1>1, <1>3, <1>4, <1>5 DEF Writes
<1>9. Elder(execute.PC, Elder(decode.PC, fetch.PC))'
        = Elder(ToMemory.PC, Elder(ToExecute.PC, Elder(ToDecode.PC, ToFetch)))'
  <2>1. /\ ToDecode' = (IF Redirect \/ MarkerRead THEN EmptyFetch
                        ELSE IF Stall \/ fetch.endMarkerSeen THEN if_id
                        ELSE [PC |-> PC, instruction |-> text[PC]])
        /\ ToExecute'.PC = (IF Redirect \/ Stall THEN 0 ELSE d)
        /\ ToMemory'.PC = m
        /\ ToFetch' = (IF Redirect THEN NextPC
                       ELSE IF MarkerRead \/ Stall \/ fetch.endMarkerSeen THEN PC
                       ELSE Wrap(PC + 4))
        /\ ~fetch.endMarkerSeen => PC \in DOMAIN text
    BY PulseBegins
  <2>2. m = 0 => id_ex.instruction.rd = 0 /\ ~id_ex.control.jump /\ ~id_ex.control.branch
    BY <1>1, OrderOutside
  <2>3. m = 0 => ~Redirect /\ ~Stall
    BY <2>2 DEF Redirect, BranchTaken, Stall, LoadUseHazard
  <2> HIDE DEF m, d
  <2>4. ToDecode'.PC = (IF Redirect \/ MarkerRead THEN 0
                        ELSE IF Stall \/ fetch.endMarkerSeen THEN d ELSE PC)
    BY <2>1 DEF EmptyFetch, d
  <2>5. MarkerRead => fetch.endMarkerSeen
    BY DEF MarkerRead
  <2>6. Elder(m, Elder(d, PC))
          = Elder(ToMemory'.PC, Elder(ToExecute'.PC, Elder(ToDecode'.PC, ToFetch')))
    BY <2>1, <2>3, <2>4, <2>5 DEF Elder
  <2> QED
    BY <1>1, <1>3, <2>6 DEF Elder
<1> QED
  BY <1>6, <1>7, <1>8, <1>9 DEF MemoryOnPath

(* Everything under way stays on the path of the program. *)
LEMMA NextPath ==
  ASSUME TypeOK, BuffersMatch, OperandsInv, PipeInv, OrderInv,
         MarkerPadded(text), 0 \notin DOMAIN text, PathInv, [Next]_vars
  PROVE  PathInv'
<1> SUFFICES ASSUME Pipelining, phase' # "stopped"
             PROVE  OnPath' /\ MemoryOnPath' /\ MemoryRead' /\ WritesDone'
  BY DEF PathInv
<1>1. OnPath /\ MemoryOnPath /\ MemoryRead /\ WritesDone /\ Order
  BY PipelinedMoves DEF PathInv, OrderInv, Next, At, vars, loop
<1>2. CASE Next
  <2>1. MemoryRead' /\ WritesDone'
    BY <1>1, <1>2, NextMemoryRead, NextWritesDone
  <2>2. CASE WriteBackPropagate
    BY <1>1, <2>1, <2>2, PulseOnPath, PulseMemoryOnPath
  <2>3. CASE ~WriteBackPropagate
    BY <1>1, <1>2, <2>1, <2>3, KeepOnPath, KeepMemoryOnPath
  <2> QED
    BY <2>2, <2>3
<1>3. CASE UNCHANGED vars
  <2> USE <1>3 DEF vars, architecture, pipelineRegisters, buffers, loop
  <2>1. /\ ToFetch' = ToFetch /\ ToDecode' = ToDecode /\ ToExecute' = ToExecute
        /\ ToMemory' = ToMemory
    BY DEF ToDecode, ToExecute, ToMemory, ToFetch, Unpulsed, Squashed
  <2>2. WrittenBack' = WrittenBack /\ RegistersAhead' = RegistersAhead
    BY DEF WrittenBack, RegistersAhead, Unpulsed, Writes, WriteBackValue
  <2>3. OnPath'
    BY <1>1, <2>1, <2>2 DEF OnPath, Executed, Elder, Unpulsed, Writes
  <2>4. MemoryOnPath'
    BY <1>1, <2>1, <2>2 DEF MemoryOnPath, Executed, Accessed, Elder, Unpulsed, Writes
  <2>5. MemoryRead' /\ WritesDone'
    BY <1>1, <2>2 DEF MemoryRead, Accessed, WritesDone, WriteAccess, Between, At
  <2> QED
    BY <2>3, <2>4, <2>5
<1> QED
  BY <1>2, <1>3

(* Nothing is under way at first. *)
LEMMA InitPath == Init => PathInv
<1> SUFFICES ASSUME Init PROVE OnPath /\ MemoryOnPath /\ MemoryRead /\ WritesDone
  BY DEF PathInv
<1>1. /\ phase = "loop" /\ ~fetch.endMarkerSeen /\ ~shouldHalt /\ ~dataMemory.writeEnable
      /\ id_ex = EmptyDecode /\ ex_m = EmptyExecute
  BY DEF Init
<1>2. ToExecute = id_ex /\ ToMemory = ex_m
  BY <1>1, ViewOutside
<1>3. OnPath
  BY <1>1, <1>2 DEF OnPath, Executed, EmptyDecode, EmptyExecute, NoSignals, Writes
<1> QED
  BY <1>1, <1>3 DEF MemoryOnPath, MemoryRead, WritesDone, Unpulsed

----------------------------------------------------------------------------
(* The hart.                                                                 *)

(* The operators of both views of the hart are those of module Pipeline. *)
LEMMA AheadWords ==
  /\ \A i : Ahead!Wrap(i) = Wrap(i)
  /\ \A r, f : Ahead!ReadRegister(f, r) = ReadRegister(f, r)
  /\ \A r, f, w : Ahead!WriteRegister(f, r, w) = WriteRegister(f, r, w)
  /\ \A b, o : Ahead!ComputePCRelativeTarget(b, o) = ComputePCRelativeTarget(b, o)
  /\ \A b, o : Ahead!JumpRegisterTarget(b, o) = JumpRegisterTarget(b, o)
  /\ \A f, u, v : Ahead!EvaluateBranch(f, u, v) = EvaluateBranch(f, u, v)
  /\ \A i : Ahead!AccessSize(i) = AccessSize(i)
  /\ \A i : Ahead!AluOperation(i) = AluOperation(i)
  /\ Ahead!TestEndMarker = TestEndMarker
<1>1. \A i : Ahead!AluOperation(i) = AluOperation(i)
  <2>1. Ahead!OpOperations = OpOperations /\ Ahead!Op32Operations = Op32Operations
        /\ Ahead!ALUOp = ALUOp
    BY DEF Ahead!OpOperations, OpOperations, Ahead!Op32Operations, Op32Operations,
           Ahead!ALUOp, ALUOp
  <2>2. Ahead!OpImmOperations = OpImmOperations
        /\ Ahead!OpImm32Operations = OpImm32Operations
    BY <2>1 DEF Ahead!OpImmOperations, OpImmOperations, Ahead!OpImm32Operations,
                OpImm32Operations
  <2>3. \A i, t : Ahead!Selected(t, i) = Selected(t, i)
    BY <2>1, Zenon DEF Ahead!Selected, Selected
  <2> QED
    BY <2>1, <2>2, <2>3, Zenon DEF Ahead!AluOperation, AluOperation
<1>2. \A i : Ahead!AccessSize(i) = AccessSize(i)
  BY Zenon DEF Ahead!AccessSize, AccessSize
<1>3. \A f, u, v : Ahead!EvaluateBranch(f, u, v) = EvaluateBranch(f, u, v)
  BY DEF Ahead!EvaluateBranch, EvaluateBranch, Ahead!Signed, Signed
<1> QED
  BY <1>1, <1>2, <1>3
     DEF Ahead!Wrap, Wrap, Ahead!ReadRegister, ReadRegister, Ahead!WriteRegister,
         WriteRegister, Ahead!ComputePCRelativeTarget, ComputePCRelativeTarget,
         Ahead!JumpRegisterTarget, JumpRegisterTarget, Ahead!TestEndMarker, TestEndMarker

(* As long as the run goes on the two views of it are one.                   *)
LEMMA AheadSteps ==
  ASSUME SettledRegisters = WrittenBack, SettledRegisters' = WrittenBack',
         HartStatus = StatusAtTheFault, HartStatus' = StatusAtTheFault'
  PROVE  H!Next <=> Ahead!Next
<1>1. /\ Ahead!Instr = H!Instr /\ Ahead!Rs1 = H!Rs1 /\ Ahead!Rs2 = H!Rs2
      /\ Ahead!EffectiveAddress = H!EffectiveAddress
  BY HartWords, AheadWords
     DEF Ahead!Instr, H!Instr, Ahead!Rs1, H!Rs1, Ahead!Rs2, H!Rs2, Ahead!EffectiveAddress,
         H!EffectiveAddress
<1>2. \A S : H!Executing(S) <=> Ahead!Executing(S)
  BY <1>1, HartWords, AheadWords DEF H!Executing, Ahead!Executing
<1>3. \A value : H!Retire(value) <=> Ahead!Retire(value)
  BY <1>1, HartWords, AheadWords DEF H!Retire, Ahead!Retire
<1>4. \A why : H!Stop(why) <=> Ahead!Stop(why)
  BY DEF H!Stop, Ahead!Stop
<1>5. \A write : H!MayAccess(write) <=> Ahead!MayAccess(write)
  BY <1>1, HartWords, AheadWords DEF H!MayAccess, Ahead!MayAccess
<1>6. H!FetchFailure <=> Ahead!FetchFailure
  BY <1>4 DEF H!FetchFailure, Ahead!FetchFailure
<1>7. H!EndMarker <=> Ahead!EndMarker
  BY <1>1, <1>4, HartWords, AheadWords DEF H!EndMarker, Ahead!EndMarker
<1>8. H!Illegal <=> Ahead!Illegal
  BY <1>2, <1>4 DEF H!Illegal, Ahead!Illegal
<1>9. H!RegisterRegister <=> Ahead!RegisterRegister
  BY <1>1, <1>2, <1>3, HartWords, AheadWords, Zenon
     DEF H!RegisterRegister, Ahead!RegisterRegister
<1>10. H!RegisterImmediate <=> Ahead!RegisterImmediate
  BY <1>1, <1>2, <1>3, HartWords, AheadWords, Zenon
     DEF H!RegisterImmediate, Ahead!RegisterImmediate
<1>11. H!LoadUpper <=> Ahead!LoadUpper
  BY <1>1, <1>2, <1>3, HartWords, AheadWords, Zenon DEF H!LoadUpper, Ahead!LoadUpper
<1>12. H!AddUpperToPC <=> Ahead!AddUpperToPC
  BY <1>1, <1>2, <1>3, HartWords, AheadWords, Zenon DEF H!AddUpperToPC, Ahead!AddUpperToPC
<1>13. H!ReadMemory <=> Ahead!ReadMemory
  BY <1>1, <1>2, <1>3, <1>5, HartWords, AheadWords, Zenon DEF H!ReadMemory, Ahead!ReadMemory
<1>14. H!BadRead <=> Ahead!BadRead
  BY <1>2, <1>4, <1>5 DEF H!BadRead, Ahead!BadRead
<1>15. H!WriteMemory <=> Ahead!WriteMemory
  BY <1>1, <1>2, <1>5, HartWords, AheadWords DEF H!WriteMemory, Ahead!WriteMemory
<1>16. H!BadWrite <=> Ahead!BadWrite
  BY <1>2, <1>4, <1>5 DEF H!BadWrite, Ahead!BadWrite
<1>17. H!Branch <=> Ahead!Branch
  BY <1>1, <1>2, HartWords, AheadWords DEF H!Branch, Ahead!Branch
<1>18. H!Jump <=> Ahead!Jump
  BY <1>1, <1>2, HartWords, AheadWords DEF H!Jump, Ahead!Jump
<1> QED
  BY <1>6, <1>7, <1>8, <1>9, <1>10, <1>11, <1>12, <1>13, <1>14, <1>15, <1>16, <1>17, <1>18
     DEF H!Next, Ahead!Next

(* The first of four stages that is not empty. *)
LEMMA FirstOfFour ==
  ASSUME NEW a, NEW b, NEW c, NEW d
  PROVE  FirstNonzero(<<a, b, c, d>>) = Elder(a, Elder(b, Elder(c, d)))
<1> DEFINE s == <<a, b, c, d>>
           IsFirst(k) == s[k] # 0 /\ \A j \in 1 .. k - 1 : s[j] = 0
<1>1. s[1] = a /\ s[2] = b /\ s[3] = c /\ s[4] = d /\ DOMAIN s = 1 .. 4
  OBVIOUS
<1>2. FirstNonzero(s) = IF \E k \in 1 .. 4 : s[k] # 0 THEN s[CHOOSE k \in 1 .. 4 : IsFirst(k)]
                        ELSE 0
  BY <1>1 DEF FirstNonzero
<1> HIDE DEF s
<1>3. ASSUME NEW n \in 1 .. 4, IsFirst(n) PROVE FirstNonzero(s) = s[n]
  <2>1. \A k \in 1 .. 4 : IsFirst(k) => k = n
    <3> SUFFICES ASSUME NEW k \in 1 .. 4, IsFirst(k) PROVE k = n
      OBVIOUS
    <3>1. ~(k < n)
      <4> SUFFICES ASSUME k < n PROVE FALSE
        OBVIOUS
      <4>1. k \in 1 .. n - 1
        OBVIOUS
      <4> QED
        BY <1>3, <4>1
    <3>2. ~(n < k)
      <4> SUFFICES ASSUME n < k PROVE FALSE
        OBVIOUS
      <4>1. n \in 1 .. k - 1
        OBVIOUS
      <4> QED
        BY <1>3, <4>1
    <3> QED
      BY <3>1, <3>2
  <2> HIDE DEF IsFirst
  <2>2. (CHOOSE k \in 1 .. 4 : IsFirst(k)) = n
    BY <1>3, <2>1
  <2>3. \E k \in 1 .. 4 : s[k] # 0
    BY <1>3 DEF IsFirst
  <2> QED
    BY <1>2, <2>2, <2>3
<1>4. a # 0 => IsFirst(1)
  BY <1>1
<1>5. a = 0 /\ b # 0 => IsFirst(2)
  BY <1>1
<1>6. a = 0 /\ b = 0 /\ c # 0 => IsFirst(3)
  <2>1. \A j \in 1 .. 3 - 1 : j = 1 \/ j = 2
    OBVIOUS
  <2> QED
    BY <1>1, <2>1
<1>7. a = 0 /\ b = 0 /\ c = 0 /\ d # 0 => IsFirst(4)
  <2>1. \A j \in 1 .. 4 - 1 : j = 1 \/ j = 2 \/ j = 3
    OBVIOUS
  <2> QED
    BY <1>1, <2>1
<1>8. a = 0 /\ b = 0 /\ c = 0 /\ d = 0 => FirstNonzero(s) = 0
  <2>1. \A k \in 1 .. 4 : k = 1 \/ k = 2 \/ k = 3 \/ k = 4
    OBVIOUS
  <2> QED
    BY <1>1, <1>2, <2>1
<1> HIDE DEF IsFirst
<1>9. FirstNonzero(s) = Elder(a, Elder(b, Elder(c, d)))
  BY <1>1, <1>3, <1>4, <1>5, <1>6, <1>7, <1>8 DEF Elder
<1> QED
  BY <1>9 DEF s

(* Where the hart is. *)
LEMMA OldestIs ==
  Pipelining =>
    OldestPending =
      IF BeforeMemoryPulse
        THEN Elder(memoryStage.PC, Elder(execute.PC, Elder(decode.PC, fetch.PC)))
        ELSE Elder(ex_m.PC, Elder(id_ex.PC, Elder(if_id.PC, PC)))
<1> SUFFICES ASSUME Pipelining
             PROVE  OldestPending =
                      IF BeforeMemoryPulse
                        THEN Elder(memoryStage.PC, Elder(execute.PC, Elder(decode.PC, fetch.PC)))
                        ELSE Elder(ex_m.PC, Elder(id_ex.PC, Elder(if_id.PC, PC)))
  OBVIOUS
<1>1. CASE BeforeMemoryPulse
  <2>1. Pending = <<memoryStage.PC, execute.PC, decode.PC, fetch.PC>>
    BY <1>1 DEF Pending
  <2> QED
    BY <1>1, <2>1, FirstOfFour DEF OldestPending
<1>2. CASE ~BeforeMemoryPulse
  <2>1. Pending = <<ex_m.PC, id_ex.PC, if_id.PC, PC>>
    BY <1>2 DEF Pending
  <2> QED
    BY <1>2, <2>1, FirstOfFour DEF OldestPending
<1> QED
  BY <1>1, <1>2

(* And where it is next. *)
LEMMA OldestIsNext ==
  Pipelining =>
    OldestPending' =
      IF BeforeMemoryPulse'
        THEN Elder(memoryStage'.PC, Elder(execute'.PC, Elder(decode'.PC, fetch'.PC)))
        ELSE Elder(ex_m'.PC, Elder(id_ex'.PC, Elder(if_id'.PC, PC')))
<1>1. (Pipelining =>
         OldestPending =
           IF BeforeMemoryPulse
             THEN Elder(memoryStage.PC, Elder(execute.PC, Elder(decode.PC, fetch.PC)))
             ELSE Elder(ex_m.PC, Elder(id_ex.PC, Elder(if_id.PC, PC))))'
  BY OldestIs, PTL
<1> QED
  BY <1>1 DEF Elder

(* While the run goes on, what the hart executes next is the instruction in  *)
(* MEM until its clock pulse, and then the oldest on its way. *)
LEMMA OldestRunning ==
  TypeOK /\ Pipelining /\ phase # "stopped" /\ MemoryOnPath =>
    LET next == Elder(ToMemory.PC, Elder(ToExecute.PC, Elder(ToDecode.PC, ToFetch))) IN
      OldestPending = IF Unpulsed(MEM) THEN Elder(memoryStage.PC, next) ELSE next
<1> SUFFICES ASSUME TypeOK, Pipelining, phase # "stopped", MemoryOnPath
             PROVE  LET next == Elder(ToMemory.PC, Elder(ToExecute.PC,
                                                         Elder(ToDecode.PC, ToFetch)))
                    IN  OldestPending = IF Unpulsed(MEM) THEN Elder(memoryStage.PC, next)
                                        ELSE next
  OBVIOUS
<1>1. BeforeMemoryPulse <=> Unpulsed(MEM)
  BY DEF BeforeMemoryPulse, Unpulsed
<1>2. CASE Unpulsed(MEM)
  BY <1>1, <1>2, OldestIs DEF MemoryOnPath
<1>3. CASE ~Unpulsed(MEM)
  <2>1. ToFetch = PC /\ ToDecode = if_id /\ ToExecute = id_ex /\ ToMemory = ex_m
    BY <1>3 DEF ToFetch, ToDecode, ToExecute, ToMemory, Unpulsed, TypeOK, LoopType, Stages
  <2> QED
    BY <1>1, <1>3, <2>1, OldestIs
<1> QED
  BY <1>2, <1>3

(* What is known of every state of a run. *)
AheadInv ==
  /\ TypeOK /\ BuffersMatch /\ OperandsInv /\ TextGiven /\ Running
  /\ PipeInv /\ OrderInv /\ PathInv

(* No step breaks it. *)
LEMMA NextAheadInv ==
  ASSUME WellFormed, AheadInv, [Next]_vars PROVE AheadInv'
<1>1. 0 \notin DOMAIN text /\ MarkerPadded(text)
  BY DEF AheadInv, TextGiven, WellFormed, NoCodeAtZero
<1> QED
  BY <1>1, NextType, NextBuffersMatch, NextOperands, NextText, NextRunning, NextPipeInv,
     NextOrder, NextPath DEF AheadInv

(* An empty pipeline has it. *)
LEMMA InitAheadInv == Init => AheadInv
<1>1. Init => TextGiven /\ Running
  BY DEF Init, TextGiven, Running
<1> QED
  BY <1>1, InitType, InitBuffersMatch, InitOperands, InitPipe, InitPath DEF AheadInv

(* The hart runs until a store halts it. *)
LEMMA StatusRunning ==
  AheadInv /\ phase # "stopped" =>
    StatusAtTheFault = HartStatus /\ HartStatus = (IF shouldHalt THEN "halt" ELSE "running")
  BY DEF AheadInv, Running, StatusAtTheFault, HartStatus

(* The same of the next state. *)
LEMMA StatusRunningNext ==
  AheadInv' /\ phase' # "stopped" =>
    /\ StatusAtTheFault' = HartStatus'
    /\ HartStatus' = (IF shouldHalt' THEN "halt" ELSE "running")
<1>1. (AheadInv /\ phase # "stopped" =>
         StatusAtTheFault = HartStatus
         /\ HartStatus = (IF shouldHalt THEN "halt" ELSE "running"))'
  BY StatusRunning, PTL
<1> QED
  BY <1>1

(* The same of the next state. *)
LEMMA OldestRunningNext ==
  AheadInv' /\ Pipelining /\ phase' # "stopped" =>
    LET next == Elder(ToMemory'.PC, Elder(ToExecute'.PC, Elder(ToDecode'.PC, ToFetch'))) IN
      OldestPending' = IF Unpulsed(MEM)' THEN Elder(memoryStage'.PC, next) ELSE next
<1>1. (TypeOK /\ Pipelining /\ phase # "stopped" /\ MemoryOnPath =>
         LET next == Elder(ToMemory.PC, Elder(ToExecute.PC, Elder(ToDecode.PC, ToFetch))) IN
           OldestPending = IF Unpulsed(MEM) THEN Elder(memoryStage.PC, next) ELSE next)'
  BY OldestRunning, PTL
<1>2. AheadInv' /\ Pipelining /\ phase' # "stopped" => TypeOK' /\ MemoryOnPath'
  BY DEF AheadInv, PathInv
<1> QED
  BY <1>1, <1>2 DEF Elder

(* A step of the cycle that is not the clock pulse of MEM shows nothing of   *)
(* itself. *)
LEMMA AheadQuiet ==
  ASSUME WellFormed, AheadInv, Pipelining, Next, phase' # "stopped", ~MemoryClockPulse
  PROVE  UNCHANGED Ahead!vars
<1>1. TypeOK /\ BuffersMatch /\ PipeInv /\ MemoryOnPath /\ phase # "stopped"
  BY PipelinedMoves DEF AheadInv, PathInv, Next, At
<1>2. AheadInv'
  BY NextAheadInv
<1>3. UNCHANGED <<text, memory, output, shouldHalt>>
  BY DEF Next, BeginCycle, Halt, FetchPropagate, DecodePropagate, ExecutePropagate,
         MemoryPropagate, WriteBackPropagate, FetchClockPulse, DecodeClockPulse,
         ExecuteClockPulse, WriteBackClockPulse, architecture
<1>4. WrittenBack' = WrittenBack
  BY <1>1, RegistersKept
<1>5. StatusAtTheFault' = StatusAtTheFault
  BY <1>1, <1>2, <1>3, StatusRunning, StatusRunningNext
<1>6. OldestPending' = OldestPending
  <2>1. CASE WriteBackPropagate
    <3>1. /\ phase = "propagate" /\ stage = WB /\ phase' = "clockPulse" /\ stage' = IF_
          /\ UNCHANGED <<fetch, decode, execute, memoryStage>>
      BY <2>1, PipelinedMoves DEF WriteBackPropagate, At
    <3>2. execute.PC = id_ex.PC /\ decode.PC = if_id.PC /\ fetch.PC = PC
          /\ memoryStage.PC = ex_m.PC
      BY <1>1, <3>1 DEF BuffersMatch, ExecuteMatches, MemoryMatches, Between, PipeInv,
                        FetchRead, DecodeRead
    <3>3. ~BeforeMemoryPulse /\ BeforeMemoryPulse'
      BY <3>1 DEF BeforeMemoryPulse
    <3> QED
      BY <3>1, <3>2, <3>3, OldestIs, OldestIsNext
  <2>2. CASE ~WriteBackPropagate
    <3>1. /\ ToFetch' = ToFetch /\ ToDecode' = ToDecode /\ ToExecute' = ToExecute
          /\ ToMemory' = ToMemory
      <4>1. UNCHANGED view
        BY <1>1, <2>2, ViewKept
      <4> QED
        BY <4>1 DEF view
    <3>2. (Unpulsed(MEM)' <=> Unpulsed(MEM)) /\ (Unpulsed(MEM) => memoryStage' = memoryStage)
      <4>1. Unpulsed(MEM) => FetchClockPulse \/ DecodeClockPulse \/ ExecuteClockPulse
        BY PipelinedMoves DEF Next, At, Unpulsed
      <4>2. Unpulsed(MEM)' => FetchClockPulse \/ DecodeClockPulse \/ ExecuteClockPulse
        BY <2>2, PipelinedMoves DEF Next, At, Unpulsed
      <4>3. FetchClockPulse \/ DecodeClockPulse \/ ExecuteClockPulse =>
              Unpulsed(MEM) /\ Unpulsed(MEM)' /\ memoryStage' = memoryStage
        BY PipelinedMoves DEF At, Unpulsed, FetchClockPulse, DecodeClockPulse,
                              ExecuteClockPulse, buffers
      <4> QED
        BY <4>1, <4>2, <4>3
    <3> QED
      BY <1>1, <1>2, <3>1, <3>2, OldestRunning, OldestRunningNext
  <2> QED
    BY <2>1, <2>2
<1> QED
  BY <1>3, <1>4, <1>5, <1>6 DEF Ahead!vars

(* The clock pulse of MEM is a step of the hart, unless the stage is empty.  *)
LEMMA AheadPulse ==
  ASSUME WellFormed, AheadInv, Pipelining, MemoryClockPulse, phase' # "stopped"
  PROVE  Ahead!Next \/ UNCHANGED Ahead!vars
<1> DEFINE a == memoryStage.PC
           i == text[a]
           u == ReadRegister(WrittenBack, i.rs1)
           v == ReadRegister(WrittenBack, i.rs2)
           client == Access(Wrap(u + i.imm), AccessSize(i), TRUE)
           onward == Elder(ToMemory.PC, Elder(ToExecute.PC, Elder(ToDecode.PC, ToFetch)))
<1>1. /\ phase = "clockPulse" /\ stage = MEM /\ phase # "stopped" /\ Unpulsed(MEM)
      /\ ~Unpulsed(MEM)' /\ text' = text /\ m_wb' = memoryStage
      /\ WriteNothing \/ WriteMemory \/ WriteSerial \/ WriteSysStatus
  BY PipelinedMoves DEF MemoryClockPulse, Throw, At, Unpulsed
<1>2. TypeOK /\ BuffersMatch /\ PipeInv /\ MemoryOnPath /\ WritesDone
  BY <1>1 DEF AheadInv, PathInv
<1>3. AheadInv' /\ Next /\ ~WriteBackPropagate
  BY <1>1, NextAheadInv DEF Next, WriteBackPropagate, At
<1>4. ~shouldHalt /\ HartStatus = "running" /\ StatusAtTheFault = HartStatus
  BY <1>1, <1>2, StatusRunning DEF WritesDone, At
<1>5. StatusAtTheFault' = HartStatus' /\ HartStatus' = IF shouldHalt' THEN "halt" ELSE "running"
  BY <1>3, StatusRunningNext
<1>6. OldestPending = Elder(a, onward) /\ OldestPending' = onward
  <2>1. OldestPending = Elder(a, onward)
    BY <1>1, <1>2, OldestRunning
  <2>2. UNCHANGED view
    BY <1>2, <1>3, ViewKept
  <2>3. /\ ToFetch' = ToFetch /\ ToDecode' = ToDecode /\ ToExecute' = ToExecute
        /\ ToMemory' = ToMemory
    BY <2>2 DEF view
  <2> QED
    BY <1>1, <1>3, <2>1, <2>3, OldestRunningNext
<1>7. WrittenBack' = IF Writes(memoryStage)
                       THEN WriteRegister(WrittenBack, memoryStage.rd,
                                          WriteBackValue(memoryStage))
                       ELSE WrittenBack
  BY <1>1, <1>2, <1>3, RegistersKept DEF RegistersAhead
<1>8. /\ Executed(memoryStage, WrittenBack, onward) /\ Accessed(memoryStage, a)
      /\ a = 0 => ~Writes(memoryStage)
  BY <1>1, <1>2 DEF MemoryOnPath
<1>9. /\ SettledRegisters = WrittenBack /\ SettledRegisters' = WrittenBack'
  BY <1>1 DEF SettledRegisters
<1> HIDE DEF a, onward
<1>10. CASE a = 0
  <2>1. ~dataMemory.writeEnable
    BY <1>8, <1>10 DEF Accessed
  <2>2. UNCHANGED <<memory, output, shouldHalt>>
    BY <1>1, <2>1 DEF WriteNothing, WriteMemory, WriteSerial, WriteSysStatus
  <2>3. WrittenBack' = WrittenBack
    BY <1>7, <1>8, <1>10
  <2>4. OldestPending' = OldestPending
    BY <1>6, <1>10 DEF Elder
  <2> QED
    BY <1>1, <1>4, <1>5, <2>2, <2>3, <2>4 DEF Ahead!vars
<1>11. CASE a # 0
  <2>1. /\ a \in DOMAIN text /\ IsLegal(i)
        /\ memoryStage.rd = i.rd /\ memoryStage.control = SetFromInstruction(i)
        /\ memoryStage.aluResult = Computed(i, a, u, v)
        /\ onward = NextAddress(i, a, u, v)
    BY <1>8, <1>11 DEF Executed, a
  <2>2. /\ i.opcode = "LOAD" =>
             ~Refused(i, u, FALSE) /\ memoryStage.memData = Result(i, a, u, v, memory)
        /\ dataMemory.writeEnable <=> i.opcode = "STORE"
        /\ i.opcode = "STORE" =>
             /\ AccessSize(i) # 0 /\ WriteAccess = client
             /\ dataMemory.addr = Wrap(u + i.imm) /\ dataMemory.size = AccessSize(i)
             /\ dataMemory.dataIn = v
    BY <1>8, <1>11 DEF Accessed, WriteAccess
  <2>3. i \in Instruction
    BY <1>2, <2>1 DEF TypeOK, ArchitectureType, IsProgram
  <2>4. /\ memoryStage.control.memToReg <=> i.opcode = "LOAD"
        /\ memoryStage.control.regWrite <=> ChangesRegister(i)
    <3>1. i.opcode # "UNKNOWN"
      BY <2>1 DEF IsLegal, KnownOpcode
    <3> QED
      BY <2>1, <2>3, <3>1, MemorySignals
  <2>5. WriteBackValue(memoryStage) = Result(i, a, u, v, memory)
    BY <2>1, <2>2, <2>4 DEF WriteBackValue, Result
  <2>6. WrittenBack' =
          IF ChangesRegister(i) THEN WriteRegister(WrittenBack, i.rd, Result(i, a, u, v, memory))
          ELSE WrittenBack
    BY <1>7, <2>1, <2>4, <2>5 DEF Writes, WriteRegister
  <2>7. i.opcode # "STORE" => memory' = memory /\ output' = output /\ ~shouldHalt'
    BY <1>1, <1>4, <2>2 DEF WriteNothing, WriteMemory, WriteSerial, WriteSysStatus
  <2>8. ASSUME i.opcode = "STORE"
        PROVE  /\ AccessSize(i) # 0 /\ client # "illegal"
               /\ memory' = IF client = "memory"
                              THEN Store(memory, Wrap(u + i.imm), AccessSize(i), v) ELSE memory
               /\ output' = IF client = "serial" THEN Append(output, LowByte(v)) ELSE output
               /\ shouldHalt' <=> client = "sysStatus"
    <3>1. /\ dataMemory.writeEnable /\ AccessSize(i) # 0 /\ WriteAccess = client /\ ~shouldHalt
          /\ dataMemory.addr = Wrap(u + i.imm) /\ dataMemory.size = AccessSize(i)
          /\ dataMemory.dataIn = v
      BY <1>4, <2>2, <2>8
    <3> HIDE DEF i, u, v, client
    <3>2. CASE WriteMemory
      BY <3>1, <3>2 DEF WriteMemory
    <3>3. CASE WriteSerial
      BY <3>1, <3>3 DEF WriteSerial
    <3>4. CASE WriteSysStatus
      BY <3>1, <3>4 DEF WriteSysStatus
    <3> QED
      BY <1>1, <3>1, <3>2, <3>3, <3>4 DEF WriteNothing
  <2> DEFINE halts == client = "sysStatus" /\ i.opcode = "STORE"
  <2>9. halts \in BOOLEAN /\ HartStatus' = (IF halts THEN "halt" ELSE "running")
    BY <1>5, <2>7, <2>8
  <2>10. OldestPending = a /\ OldestPending' = NextAddress(i, a, u, v)
    BY <1>6, <1>11, <2>1 DEF Elder
  <2>11. Executes(i, a, SettledRegisters, memory, output, OldestPending',
                  SettledRegisters', memory', output', halts)
    BY <1>9, <2>2, <2>6, <2>7, <2>8, <2>10 DEF Executes, Refused
  <2> HIDE DEF halts
  <2>12. H!Next
    BY <1>1, <1>4, <2>1, <2>9, <2>10, <2>11, HartExecutes
  <2> QED
    BY <1>4, <1>5, <1>9, <2>12, AheadSteps
<1> QED
  BY <1>10, <1>11

(* An instruction that cannot be executed stops the hart where it is. *)
LEMMA AheadStops ==
  ASSUME StatusAtTheFault = "running",
         UNCHANGED <<text, OldestPending, WrittenBack, memory, output>>,
         StopsAt(OldestPending, WrittenBack, StatusAtTheFault')
  PROVE  Ahead!Next
<1> DEFINE a == OldestPending
           i == text[a]
           u == ReadRegister(WrittenBack, i.rs1)
<1>1. Ahead!Rs1 = u /\ Ahead!Instr = i /\ Ahead!EffectiveAddress = Wrap(u + i.imm)
  BY AheadWords DEF Ahead!Rs1, Ahead!Instr, Ahead!EffectiveAddress
<1>2. \A why : StatusAtTheFault' = why => Ahead!Stop(why)
  BY DEF Ahead!Stop
<1>3. \A S : a \in DOMAIN text /\ i # TestEndMarker /\ i.opcode \in S => Ahead!Executing(S)
  BY <1>1, AheadWords DEF Ahead!Executing
<1>4. \A write : Refused(i, u, write) => ~Ahead!MayAccess(write)
  BY <1>1, AheadWords DEF Refused, Ahead!MayAccess
<1>5. i.opcode \in {"LOAD", "STORE"} => i # TestEndMarker
  BY DEF TestEndMarker
<1>6. CASE StatusAtTheFault' = "fetchFailure" /\ a \notin DOMAIN text
  BY <1>2, <1>6 DEF Ahead!Next, Ahead!FetchFailure
<1>7. CASE StatusAtTheFault' = "endMarker" /\ a \in DOMAIN text /\ i = TestEndMarker
  BY <1>1, <1>2, <1>7, AheadWords DEF Ahead!Next, Ahead!EndMarker
<1>8. CASE /\ StatusAtTheFault' = "illegalInstruction" /\ a \in DOMAIN text
           /\ i # TestEndMarker /\ i.opcode = "UNKNOWN"
  BY <1>2, <1>3, <1>8 DEF Ahead!Next, Ahead!Illegal
<1>9. CASE StatusAtTheFault' = "illegalAccess" /\ a \in DOMAIN text
           /\ i.opcode = "LOAD" /\ Refused(i, u, FALSE)
  <2>1. Ahead!BadRead
    BY <1>2, <1>3, <1>4, <1>5, <1>9 DEF Ahead!BadRead
  <2> QED
    BY <2>1 DEF Ahead!Next
<1>10. CASE StatusAtTheFault' = "illegalAccess" /\ a \in DOMAIN text
           /\ i.opcode = "STORE" /\ Refused(i, u, TRUE)
  <2>1. Ahead!BadWrite
    BY <1>2, <1>3, <1>4, <1>5, <1>10 DEF Ahead!BadWrite
  <2> QED
    BY <2>1 DEF Ahead!Next
<1> QED
  BY <1>6, <1>7, <1>8, <1>9, <1>10 DEF StopsAt

(* An exception stops the run where the hart stops, or at a place the hart    *)
(* goes through. *)
LEMMA AheadThrows ==
  ASSUME WellFormed, AheadInv, Pipelining, Next, phase' = "stopped"
  PROVE  Ahead!Next \/ UNCHANGED Ahead!vars
<1>1. TypeOK /\ BuffersMatch /\ PipeInv /\ OnPath /\ MemoryOnPath /\ WritesDone
      /\ phase # "stopped" /\ reason = "running"
  <2>1. phase # "stopped"
    BY PipelinedMoves DEF Next, At, Halt
  <2> QED
    BY <2>1 DEF AheadInv, PathInv, Running
<1>2. \/ Halt
      \/ FetchPropagate /\ FetchFails
      \/ FetchClockPulse
      \/ DecodeClockPulse /\ DecodeIllegal
      \/ MemoryPropagate /\ MemoryFault
      \/ MemoryClockPulse
  <2>1. FetchPropagate => FetchFails
    BY <1>1 DEF FetchPropagate, FetchNothing, FetchEndMarker, FetchInstruction, EndPropagate
  <2>2. DecodeClockPulse => DecodeIllegal
    BY <1>1 DEF DecodeClockPulse, DecodeSquash, DecodeIssue, EndClockPulse
  <2>3. MemoryPropagate => MemoryFault
    BY <1>1 DEF MemoryPropagate, NoMemoryAccess, MemoryAccess, EndPropagate
  <2> QED
    BY <2>1, <2>2, <2>3, PipelinedMoves DEF Next, At
<1>3. /\ stage' = stage /\ UNCHANGED <<text, memory, output, shouldHalt>>
      /\ ~(phase = "clockPulse" /\ stage = WB) /\ UNCHANGED <<registers, m_wb>>
  BY <1>1, <1>2
     DEF Halt, FetchPropagate, FetchFails, FetchClockPulse, DecodeClockPulse, DecodeIllegal,
         MemoryPropagate, MemoryFault, MemoryClockPulse, Throw, EndClockPulse, At,
         architecture, pipelineRegisters
<1>4. WrittenBack' = WrittenBack
  BY <1>3 DEF WrittenBack, Writes, WriteBackValue
<1>5. StatusAtTheFault = HartStatus /\ HartStatus = IF shouldHalt THEN "halt" ELSE "running"
  BY <1>1, StatusRunning
<1>6. CASE Halt
  <2>1. /\ phase = "loop" /\ shouldHalt /\ reason' = "halt"
        /\ UNCHANGED <<PC, if_id, id_ex, ex_m>>
    BY <1>6 DEF Halt, Throw, architecture, pipelineRegisters
  <2>2. ~BeforeMemoryPulse /\ ~BeforeMemoryPulse'
    BY <1>3, <2>1 DEF BeforeMemoryPulse, ThrownInClockPulse
  <2>3. OldestPending' = OldestPending
    BY <2>1, <2>2, OldestIs, OldestIsNext
  <2>4. StatusAtTheFault' = StatusAtTheFault
    BY <1>3, <1>5, <2>1 DEF StatusAtTheFault, HartStatus
  <2> QED
    BY <1>3, <1>4, <2>3, <2>4 DEF Ahead!vars
<1>7. ASSUME ~Halt PROVE ~shouldHalt /\ StatusAtTheFault = "running"
  <2>1. ~shouldHalt
    BY <1>1, <1>2, <1>3, <1>7
       DEF WritesDone, FetchPropagate, FetchClockPulse, DecodeClockPulse, MemoryPropagate,
           MemoryClockPulse, At
  <2> QED
    BY <1>5, <2>1
<1>8. CASE FetchPropagate /\ FetchFails
  <2>1. /\ phase = "propagate" /\ reason' = "fetchFailure"
        /\ UNCHANGED <<PC, if_id, id_ex, ex_m>>
    BY <1>8 DEF FetchPropagate, FetchFails, Throw, At, architecture, pipelineRegisters
  <2>2. ~BeforeMemoryPulse /\ ~BeforeMemoryPulse'
    BY <2>1 DEF BeforeMemoryPulse, ThrownInClockPulse
  <2>3. OldestPending' = OldestPending
    BY <2>1, <2>2, OldestIs, OldestIsNext
  <2>4. StatusAtTheFault' = StatusAtTheFault
    BY <1>7, <2>1 DEF StatusAtTheFault, Halt
  <2> QED
    BY <1>3, <1>4, <2>3, <2>4 DEF Ahead!vars
<1>9. CASE DecodeClockPulse /\ DecodeIllegal
  <2>1. /\ phase = "clockPulse" /\ stage = ID /\ reason' = "illegalInstruction"
        /\ UNCHANGED <<memoryStage, execute, decode, fetch>>
    BY <1>9 DEF DecodeClockPulse, DecodeIllegal, Throw, At, buffers
  <2>2. BeforeMemoryPulse /\ BeforeMemoryPulse'
    BY <1>3, <2>1 DEF BeforeMemoryPulse, ThrownInClockPulse
  <2>3. OldestPending' = OldestPending
    BY <2>1, <2>2, OldestIs, OldestIsNext
  <2>4. StatusAtTheFault' = StatusAtTheFault
    BY <1>7, <2>1 DEF StatusAtTheFault, Halt
  <2> QED
    BY <1>3, <1>4, <2>3, <2>4 DEF Ahead!vars
<1>10. CASE FetchClockPulse
  <2>1. /\ phase = "clockPulse" /\ stage = IF_ /\ fetch.endMarkerSeen
        /\ fetch.endMarkerCountdown = 0 /\ reason' = "endMarker"
        /\ UNCHANGED <<id_ex, ex_m, execute>>
    BY <1>10 DEF FetchClockPulse, EndClockPulse, Throw, At
  <2>2. Unpulsed(IF_) /\ Unpulsed(ID) /\ Unpulsed(EX) /\ Unpulsed(MEM)
    BY <2>1 DEF Unpulsed
  <2>3. Countdown = 0 - 1
    BY <2>1, <2>2 DEF Countdown
  <2>4. ToDecode.PC = 0 /\ ToExecute.PC = 0 /\ ToMemory.PC = 0 /\ ToWriteBack.PC = 0
    BY <1>1, <2>1, <2>3 DEF PipeInv, Drained, Ended, EndMarkerCountdown
  <2>5. /\ ToFetch \in DOMAIN text /\ text[ToFetch] = TestEndMarker /\ ~execute.pcWriteEnable
    BY <1>1, <2>1, <2>2 DEF OnPath
  <2>6. ToFetch = PC
    BY <2>1, <2>5 DEF ToFetch
  <2>7. PC' = PC /\ if_id'.PC = 0
    <3>1. if_id' = ToDecode /\ PC' = PC
      BY <1>10, <2>1, <2>2 DEF FetchClockPulse, FetchAdvance, ToDecode
    <3> QED
      BY <2>4, <3>1
  <2>8. execute.PC = id_ex.PC /\ memoryStage.PC = ex_m.PC /\ execute.PC = 0
        /\ memoryStage.PC = 0
    BY <1>1, <2>1, <2>2, <2>4
       DEF BuffersMatch, ExecuteMatches, MemoryMatches, Between, ToMemory, ToWriteBack
  <2>9. OldestPending = PC
    BY <1>1, <2>2, <2>4, <2>6, <2>8, OldestRunning DEF Elder
  <2>10. OldestPending' = PC
    <3>1. ~BeforeMemoryPulse'
      BY <2>1 DEF BeforeMemoryPulse, ThrownInClockPulse
    <3> QED
      BY <2>1, <2>7, <2>8, <3>1, OldestIsNext DEF Elder
  <2>11. StatusAtTheFault' = "endMarker"
    BY <1>3, <1>7, <2>1 DEF StatusAtTheFault, HartStatus, Halt
  <2>12. StopsAt(OldestPending, WrittenBack, StatusAtTheFault')
    BY <2>5, <2>6, <2>9, <2>11 DEF StopsAt
  <2>13. StatusAtTheFault = "running"
    BY <1>7, <2>1 DEF Halt
  <2> QED
    BY <1>3, <1>4, <2>9, <2>10, <2>12, <2>13, AheadStops
<1>11. CASE MemoryPropagate /\ MemoryFault
  <2> DEFINE a == ex_m.PC
             i == text[a]
             u == ReadRegister(WrittenBack, i.rs1)
  <2>1. /\ phase = "propagate" /\ stage = MEM /\ reason' = "illegalAccess"
        /\ UNCHANGED <<PC, if_id, id_ex, ex_m, dataMemory>>
    BY <1>11 DEF MemoryPropagate, MemoryFault, Throw, At, architecture, pipelineRegisters
  <2>2. ~BeforeMemoryPulse
    BY <2>1 DEF BeforeMemoryPulse
  <2>3. ~BeforeMemoryPulse'
    <3>1. dataMemory.writeEnable => WriteAccess # "illegal"
      BY <1>1, <2>1 DEF WritesDone, Between
    <3>2. WriteAccess' = WriteAccess
      BY <2>1 DEF WriteAccess
    <3> QED
      BY <2>1, <3>1, <3>2 DEF BeforeMemoryPulse, ThrownInClockPulse
  <2>4. OldestPending' = OldestPending
    BY <2>1, <2>2, <2>3, OldestIs, OldestIsNext
  <2>5. ToMemory = ex_m /\ RegistersAhead = WrittenBack
    BY <2>1, ViewOutside, AheadOutside
  <2>6. /\ a = 0 => ~ex_m.control.memRead /\ ~ex_m.control.memWrite
        /\ a # 0 => /\ a \in DOMAIN text /\ IsLegal(i)
                    /\ ex_m.control = SetFromInstruction(i)
                    /\ ex_m.aluResult = Computed(i, a, u, ReadRegister(WrittenBack, i.rs2))
    BY <1>1, <2>5 DEF OnPath, Executed
  <2>7. a # 0
    BY <1>11, <2>6 DEF MemoryFault
  <2>8. i \in Instruction
    BY <1>1, <2>6, <2>7 DEF TypeOK, ArchitectureType, IsProgram
  <2>9. /\ ex_m.control.memRead <=> i.opcode = "LOAD"
        /\ ex_m.control.memWrite <=> i.opcode = "STORE"
        /\ ex_m.control.memSize = AccessSize(i)
    BY <2>6, <2>7, <2>8, MemorySignals
  <2>10. i.opcode \in {"LOAD", "STORE"} => ex_m.aluResult = Wrap(u + i.imm)
    BY <2>6, <2>7 DEF Computed
  <2>11. OldestPending = a
    BY <2>2, <2>7, OldestIs DEF Elder
  <2> HIDE DEF a, i, u
  <2>12. \/ i.opcode = "LOAD" /\ Refused(i, u, FALSE)
         \/ i.opcode = "STORE" /\ Refused(i, u, TRUE)
    BY <1>11, <2>9, <2>10 DEF MemoryFault, ReadAccess, Refused
  <2>13. StatusAtTheFault' = "illegalAccess" /\ StatusAtTheFault = "running"
    BY <1>3, <1>7, <2>1 DEF StatusAtTheFault, HartStatus, Halt
  <2>14. StopsAt(OldestPending, WrittenBack, StatusAtTheFault')
    BY <2>6, <2>7, <2>11, <2>12, <2>13 DEF StopsAt, i, u
  <2> QED
    BY <1>3, <1>4, <2>4, <2>13, <2>14, AheadStops
<1>12. CASE MemoryClockPulse
  <2> DEFINE a == memoryStage.PC
             i == text[a]
             u == ReadRegister(WrittenBack, i.rs1)
  <2>1. /\ phase = "clockPulse" /\ stage = MEM /\ reason' = "illegalAccess"
        /\ dataMemory.writeEnable /\ WriteAccess = "illegal"
        /\ UNCHANGED <<memoryStage, execute, decode, fetch, dataMemory>>
    BY <1>12 DEF MemoryClockPulse, EndClockPulse, Throw, At, buffers
  <2>2. Unpulsed(MEM) /\ BeforeMemoryPulse /\ BeforeMemoryPulse'
    <3>1. Unpulsed(MEM) /\ BeforeMemoryPulse
      BY <2>1 DEF Unpulsed, BeforeMemoryPulse
    <3>2. stage' = MEM /\ dataMemory'.writeEnable /\ WriteAccess' = "illegal"
      BY <1>3, <2>1 DEF WriteAccess
    <3>3. BeforeMemoryPulse'
      BY <2>1, <3>2 DEF BeforeMemoryPulse, ThrownInClockPulse
    <3> QED
      BY <3>1, <3>3
  <2>3. OldestPending' = OldestPending
    BY <2>1, <2>2, OldestIs, OldestIsNext
  <2>4. /\ a # 0 /\ i.opcode = "STORE" /\ Refused(i, u, TRUE)
    BY <1>1, <2>1, <2>2 DEF MemoryOnPath, Accessed, WriteAccess, Refused
  <2>5. a \in DOMAIN text
    BY <1>1, <2>2, <2>4 DEF MemoryOnPath, Executed
  <2>6. OldestPending = a
    BY <2>2, <2>4, OldestIs DEF Elder
  <2> HIDE DEF a, i, u
  <2>7. StatusAtTheFault' = "illegalAccess" /\ StatusAtTheFault = "running"
    BY <1>3, <1>7, <2>1 DEF StatusAtTheFault, HartStatus, Halt
  <2>8. StopsAt(OldestPending, WrittenBack, StatusAtTheFault')
    BY <2>4, <2>5, <2>6, <2>7 DEF StopsAt, i, u
  <2> QED
    BY <1>3, <1>4, <2>3, <2>7, <2>8, AheadStops
<1> QED
  BY <1>2, <1>6, <1>8, <1>9, <1>10, <1>11, <1>12

(* And it begins as the hart does. *)
LEMMA AheadInit == ASSUME Pipelining, Init PROVE Ahead!Init
<1>1. TypeOK /\ phase = "loop" /\ PC = Entry /\ ~Writes(m_wb) /\ reason = "running"
      /\ ~shouldHalt
  BY InitType DEF Init, Writes, EmptyMemory, NoSignals
<1>2. WrittenBack = registers
  BY <1>1 DEF WrittenBack
<1>3. OldestPending = Entry
  <2>1. ex_m.PC = 0 /\ id_ex.PC = 0 /\ if_id.PC = 0
    BY DEF Init, EmptyFetch, EmptyDecode, EmptyExecute
  <2>2. ~BeforeMemoryPulse
    BY <1>1 DEF BeforeMemoryPulse
  <2> QED
    BY <1>1, <2>1, <2>2, OldestIs DEF Elder
<1>4. StatusAtTheFault = "running"
  BY <1>1 DEF StatusAtTheFault, HartStatus
<1>5. Ahead!IsProgram(text) /\ registers \in Ahead!RegisterArray
  BY <1>1 DEF TypeOK, ArchitectureType, IsProgram, Ahead!IsProgram, RegisterArray,
              Ahead!RegisterArray, Word, Ahead!Word, Instruction, Ahead!Instruction,
              RegNumber, Ahead!RegNumber, Opcode, Ahead!Opcode, KnownOpcode,
              Ahead!KnownOpcode
<1>6. memory \in MemoryState /\ output = <<>>
  BY <1>1 DEF TypeOK, ArchitectureType, Init
<1> QED
  BY <1>2, <1>3, <1>4, <1>5, <1>6 DEF Ahead!Init

(* With pipelining every run is a run of the hart as far as it is executed:   *)
(* the instructions that stores and settled registers show are executed each  *)
(* once, completely and in program order, whatever was stalled, forwarded or  *)
(* fetched behind a taken branch.  A run that is halted or that ends at the   *)
(* end of the text ends where the hart does; a refused access stops it at the *)
(* load or store the hart stops at; a failed fetch or an illegal instruction  *)
(* leaves it at a state the hart goes through. *)
THEOREM PipelinedFollowsHart ==
  ASSUME Pipelining, WellFormed PROVE Spec => FollowsHartToTheFault
<1>1. Init => Ahead!Init
  BY AheadInit
<1>2. Init => AheadInv
  BY InitAheadInv
<1>3. AheadInv /\ [Next]_vars => AheadInv'
  BY NextAheadInv
<1>4. AheadInv /\ [Next]_vars => [Ahead!Next]_(Ahead!vars)
  <2> SUFFICES ASSUME AheadInv, [Next]_vars PROVE Ahead!Next \/ UNCHANGED Ahead!vars
    OBVIOUS
  <2>1. CASE UNCHANGED vars
    <3>1. UNCHANGED <<architecture, pipelineRegisters, buffers, phase, stage, reason>>
      BY <2>1 DEF vars, loop
    <3>2. UNCHANGED <<text, PC, registers, memory, output, shouldHalt, if_id, id_ex, ex_m, m_wb,
                      fetch, decode, execute, memoryStage, writeBack, dataMemory>>
      BY <3>1 DEF architecture, pipelineRegisters, buffers
    <3>3. WrittenBack' = WrittenBack
      BY <3>1, <3>2 DEF WrittenBack, Writes, WriteBackValue
    <3>4. BeforeMemoryPulse' <=> BeforeMemoryPulse
      BY <3>1, <3>2 DEF BeforeMemoryPulse, ThrownInClockPulse, WriteAccess
    <3>5. OldestPending' = OldestPending
      BY <3>2, <3>4, OldestIs, OldestIsNext
    <3>6. StatusAtTheFault' = StatusAtTheFault
      BY <3>1, <3>2 DEF StatusAtTheFault, HartStatus
    <3> QED
      BY <3>2, <3>3, <3>5, <3>6 DEF Ahead!vars
  <2>2. CASE Next /\ phase' = "stopped"
    BY <2>2, AheadThrows
  <2>3. CASE MemoryClockPulse /\ phase' # "stopped"
    BY <2>3, AheadPulse
  <2>4. CASE Next /\ phase' # "stopped" /\ ~MemoryClockPulse
    BY <2>4, AheadQuiet
  <2> QED
    BY <2>1, <2>2, <2>3, <2>4
<1> QED
  BY <1>1, <1>2, <1>3, <1>4, PTL DEF Spec, FollowsHartToTheFault, Ahead!Spec

----------------------------------------------------------------------------
(* Runs without a fault.                                                     *)

(* The bus or the decoder raised an exception. *)
Faulted == reason \in {"fetchFailure", "illegalInstruction", "illegalAccess"}

(* An empty MEM/WB writes nothing, nor does a store that halts the run: when  *)
(* a run ends without a fault WB has no write left. *)
NothingLeft ==
  /\ phase # "stopped" =>
       /\ m_wb.PC = 0 => ~Writes(m_wb)
       /\ shouldHalt => ~Writes(m_wb)
  /\ phase = "stopped" => Faulted \/ ~Writes(m_wb)

(* Only the clock pulse of MEM changes MEM/WB or halts the run. *)
LEMMA NextNothingLeft ==
  ASSUME WellFormed, AheadInv, Pipelining, NothingLeft, Next PROVE NothingLeft'
<1>1. TypeOK /\ PipeInv /\ MemoryOnPath /\ WritesDone /\ phase # "stopped" /\ reason = "running"
  <2>1. phase # "stopped"
    BY PipelinedMoves DEF Next, At, Halt
  <2> QED
    BY <2>1 DEF AheadInv, PathInv, Running
<1>2. CASE MemoryClockPulse /\ phase' = "stopped"
  BY <1>1, <1>2 DEF MemoryClockPulse, EndClockPulse, Throw, NothingLeft, Faulted
<1>3. CASE MemoryClockPulse /\ phase' # "stopped"
  <2> DEFINE i == text[memoryStage.PC]
  <2>1. /\ Unpulsed(MEM) /\ m_wb' = memoryStage /\ phase = "clockPulse"
        /\ shouldHalt' => shouldHalt \/ dataMemory.writeEnable
    BY <1>3, PipelinedMoves
       DEF MemoryClockPulse, WriteNothing, WriteMemory, WriteSerial, WriteSysStatus, Throw, At,
           Unpulsed
  <2>2. ~shouldHalt
    BY <1>1, <1>3, PipelinedMoves DEF WritesDone, At
  <2>3. memoryStage.PC = 0 => ~Writes(memoryStage)
    BY <1>1, <2>1 DEF MemoryOnPath
  <2>4. ASSUME shouldHalt' PROVE ~Writes(memoryStage)
    <3>1. dataMemory.writeEnable
      BY <2>1, <2>2, <2>4
    <3>2. memoryStage.PC # 0 /\ i.opcode = "STORE"
      BY <1>1, <2>1, <3>1 DEF MemoryOnPath, Accessed
    <3>3. i \in Instruction /\ memoryStage.control = SetFromInstruction(i)
      BY <1>1, <2>1, <3>2 DEF MemoryOnPath, Executed, TypeOK, ArchitectureType, IsProgram
    <3>4. ~memoryStage.control.regWrite
      BY <3>2, <3>3, MemorySignals DEF ChangesRegister
    <3> QED
      BY <3>4 DEF Writes
  <2> QED
    BY <1>3, <2>1, <2>3, <2>4 DEF NothingLeft, Writes
<1>4. CASE ~MemoryClockPulse
  <2>1. m_wb' = m_wb /\ shouldHalt' = shouldHalt
    BY <1>4 DEF Next, BeginCycle, Halt, FetchPropagate, DecodePropagate, ExecutePropagate,
                MemoryPropagate, WriteBackPropagate, FetchClockPulse, DecodeClockPulse,
                ExecuteClockPulse, WriteBackClockPulse, architecture, pipelineRegisters
  <2>2. ASSUME phase' = "stopped", ~Faulted' PROVE ~Writes(m_wb)
    <3>1. Halt \/ FetchClockPulse
      <4>1. FetchPropagate => Faulted'
        BY <1>1, <2>2 DEF FetchPropagate, FetchNothing, FetchEndMarker, FetchInstruction,
                          FetchFails, EndPropagate, Throw, Faulted
      <4>2. DecodeClockPulse => Faulted'
        BY <1>1, <2>2 DEF DecodeClockPulse, DecodeSquash, DecodeIssue, DecodeIllegal,
                          EndClockPulse, Throw, Faulted
      <4>3. MemoryPropagate => Faulted'
        BY <1>1, <2>2 DEF MemoryPropagate, NoMemoryAccess, MemoryAccess, MemoryFault,
                          EndPropagate, Throw, Faulted
      <4> QED
        BY <1>4, <2>2, <4>1, <4>2, <4>3, PipelinedMoves DEF Next, At
    <3>2. CASE Halt
      BY <1>1, <3>2 DEF Halt, NothingLeft
    <3>3. CASE FetchClockPulse
      <4>1. Unpulsed(IF_) /\ fetch.endMarkerSeen /\ fetch.endMarkerCountdown = 0
        BY <1>1, <2>2, <3>3, PipelinedMoves
           DEF FetchClockPulse, EndClockPulse, Throw, At, Unpulsed
      <4>2. Ended /\ Countdown <= 0
        BY <4>1 DEF Ended, Countdown, EndMarkerCountdown
      <4>3. m_wb.PC = 0
        BY <1>1, <4>2 DEF PipeInv, Drained
      <4> QED
        BY <1>1, <4>3 DEF NothingLeft
    <3> QED
      BY <3>1, <3>2, <3>3
  <2>3. Writes(m_wb)' <=> Writes(m_wb)
    BY <2>1 DEF Writes
  <2> QED
    BY <1>1, <2>1, <2>2, <2>3 DEF NothingLeft, Writes
<1> QED
  BY <1>2, <1>3, <1>4

(* A run that neither fetches outside the text nor meets an illegal           *)
(* instruction or a refused access ends, if it ends, with nothing left to do: *)
(* with pipelining, too, such a run is a run of the hart, down to the         *)
(* register file run() leaves behind. *)
THEOREM PipelinedImplementsHart ==
  ASSUME Pipelining, WellFormed PROVE Spec /\ []~Faulted => ImplementsHart
<1> DEFINE Same == SettledRegisters = WrittenBack /\ HartStatus = StatusAtTheFault
<1>1. Init => AheadInv /\ NothingLeft /\ Ahead!Init
  <2>1. Init => NothingLeft
    BY DEF Init, NothingLeft, Writes, EmptyMemory, NoSignals
  <2> QED
    BY <2>1, InitAheadInv, AheadInit
<1>2. AheadInv /\ NothingLeft /\ [Next]_vars => AheadInv' /\ NothingLeft'
  <2>1. UNCHANGED vars /\ NothingLeft => NothingLeft'
    BY DEF vars, loop, architecture, pipelineRegisters, NothingLeft, Writes, Faulted
  <2> QED
    BY <2>1, NextAheadInv, NextNothingLeft
<1>3. NothingLeft /\ ~Faulted => Same
  <2> SUFFICES ASSUME NothingLeft, ~Faulted PROVE Same
    OBVIOUS
  <2>1. HartStatus = StatusAtTheFault
    BY DEF Faulted, StatusAtTheFault
  <2>2. phase = "stopped" => ~Writes(m_wb)
    BY DEF NothingLeft
  <2> QED
    BY <2>1, <2>2 DEF SettledRegisters, WrittenBack
<1>4. Ahead!Init /\ Same => H!Init
  BY HartWords, AheadWords
     DEF Ahead!Init, H!Init, Ahead!IsProgram, H!IsProgram, Ahead!RegisterArray,
         H!RegisterArray, Ahead!Word, H!Word, Ahead!Instruction, H!Instruction,
         Ahead!RegNumber, H!RegNumber, Ahead!Opcode, H!Opcode, Ahead!KnownOpcode,
         H!KnownOpcode
<1>5. Same /\ Same' /\ [Ahead!Next]_(Ahead!vars) => [H!Next]_(H!vars)
  <2> SUFFICES ASSUME Same, Same', Ahead!Next \/ UNCHANGED Ahead!vars
               PROVE  H!Next \/ UNCHANGED H!vars
    OBVIOUS
  <2>1. CASE Ahead!Next
    BY <2>1, AheadSteps
  <2>2. CASE UNCHANGED Ahead!vars
    BY <2>2 DEF Ahead!vars, H!vars
  <2> QED
    BY <2>1, <2>2
<1>6. Spec => [][Ahead!Next]_(Ahead!vars)
  BY PipelinedFollowsHart DEF FollowsHartToTheFault, Ahead!Spec
<1> HIDE DEF Same
<1> QED
  BY <1>1, <1>2, <1>3, <1>4, <1>5, <1>6, PTL DEF Spec, ImplementsHart, H!Spec
=============================================================================
