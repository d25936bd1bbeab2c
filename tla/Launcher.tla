------------------------------ MODULE Launcher ------------------------------
(***************************************************************************)
(* From the command line to the exit code (main.cc): options in any order,  *)
(* disassembly, unit tests, and the run between the initialization and the  *)
(* check of the registers.  What the program does to the registers and why  *)
(* it stops is left open here; module Pipeline says that.                   *)
(***************************************************************************)
EXTENDS UnitTestFile

CONSTANTS
  NumRegs,       \* 32 in arch.h
  Values,        \* values the registers may have at the end
  CommandLines   \* records of a sequence of options and an executable, which
                 \*   is "none", "elf", "notELF" or "missing"

ASSUME NumRegsAssumption == NumRegs \in Nat \ {0} /\ NumRegs <= MaxRegs /\ Values \subseteq Nat

(* The options getopt finds, and what the regular expressions leave of their *)
(* arguments.                                                                *)
ASSUME CommandLinesAssumption ==
  \A c \in CommandLines :
    /\ Len(c.options) \in Nat /\ DOMAIN c.options = 1 .. Len(c.options)
    /\ \A k \in DOMAIN c.options : LET o == c.options[k] IN
         /\ o.name = "r" /\ o.specifier.form = "matches" =>
              o.specifier.number \in 0 .. MaxRegs - 1 /\ o.specifier.value \in Nat
         /\ o.name = "t" =>
              /\ Len(o.file.lines) \in Nat /\ DOMAIN o.file.lines = 1 .. Len(o.file.lines)
              /\ \A j \in DOMAIN o.file.lines : IsLine(o.file.lines[j])
         /\ o.name \in {"x", "X"} =>
              o.argument \in {"instruction", "elf", "elfWithoutText", "ascii", "text",
                              "missing", "unreadable"}

VARIABLES
  commandLine,
  next,           \* the next option, and later the next initializer
  pipelining,
  initializers,   \* a sequence of RegisterInit: number and value
  testFile,       \* a sequence with the file of -t, or empty
  disassembly,    \* a sequence with the option -x or -X, or empty
  postRegisters,
  registers,      \* of Processor
  outcome,        \* why the run ended, or "none"
  phase,
  exitCode        \* of the process, "none" before it ends

options == <<next, pipelining, initializers, testFile, disassembly>>
vars == <<commandLine, options, postRegisters, registers, outcome, phase, exitCode>>

RegNumber == 0 .. NumRegs - 1

(* std::terminate is what an exception nobody catches leads to. *)
ExitCodes == {"Success", "AbnormalTermination", "HelpDisplayed", "InitializationError",
              "InvalidArgument", "UnitTestFailed", "terminate"}

StopReason == {"halt", "endMarker", "fetchFailure", "exception"}

TypeOK ==
  /\ next \in 1 .. Len(commandLine.options) + Len(initializers) + 1
  /\ pipelining \in BOOLEAN
  /\ \A i \in ToSet(initializers) \cup ToSet(postRegisters) :
       i.number \in 0 .. MaxRegs - 1 /\ i.value \in Nat
  /\ Len(testFile) <= 1 /\ Len(disassembly) <= 1
  /\ registers \in [RegNumber -> Nat] /\ registers[0] = 0
  /\ outcome \in StopReason \cup {"none"}
  /\ phase \in {"options", "load", "open", "initialize", "validate", "exited"}
  /\ exitCode \in ExitCodes \cup {"none"}

Init ==
  /\ commandLine \in CommandLines
  /\ next = 1
  /\ pipelining = FALSE
  /\ initializers = <<>>
  /\ testFile = <<>>
  /\ disassembly = <<>>
  /\ postRegisters = <<>>
  /\ registers = [r \in RegNumber |-> 0]
  /\ outcome = "none"
  /\ phase = "options"
  /\ exitCode = "none"

Exit(code) ==
  /\ phase' = "exited"
  /\ exitCode' = code

Continue(p) == phase' = p /\ UNCHANGED exitCode

----------------------------------------------------------------------------
(* Command line options.                                                     *)

Option == commandLine.options[next]

Reading(names) ==
  /\ phase = "options"
  /\ next <= Len(commandLine.options)
  /\ Option.name \in names
  /\ UNCHANGED <<commandLine, postRegisters, registers, outcome>>

RefuseOption(code) == Exit(code) /\ UNCHANGED options

AcceptOption == Continue(phase) /\ next' = next + 1

SetFlag ==
  /\ Reading({"d", "p"})
  /\ AcceptOption
  /\ pipelining' = (pipelining \/ Option.name = "p")
  /\ UNCHANGED <<initializers, testFile, disassembly>>

(* RegisterInit of a string.  One that does not match the regular expression *)
(* leaves number and value zero; only one that does not fit 64 bits throws.  *)
RegisterInit(specifier) ==
  IF specifier.form = "matches"
    THEN [number |-> specifier.number, value |-> specifier.value]
    ELSE [number |-> 0, value |-> 0]

AddInitializer ==
  /\ Reading({"r"})
  /\ IF testFile # <<>> \/ Option.specifier.form = "overflow"
       THEN RefuseOption("InvalidArgument")
       ELSE /\ AcceptOption
            /\ initializers' = Append(initializers, RegisterInit(Option.specifier))
            /\ UNCHANGED <<pipelining, testFile, disassembly>>

SetTestFile ==
  /\ Reading({"t"})
  /\ IF testFile # <<>>
       THEN RefuseOption("InvalidArgument")
       ELSE /\ AcceptOption
            /\ testFile' = <<Option.file>>
            /\ UNCHANGED <<pipelining, initializers, disassembly>>

SetDisassembly ==
  /\ Reading({"x", "X"})
  /\ IF disassembly # <<>>
       THEN RefuseOption("InitializationError")
       ELSE /\ AcceptOption
            /\ disassembly' = <<Option>>
            /\ UNCHANGED <<pipelining, initializers, testFile>>

ShowHelp == Reading({"h"}) /\ RefuseOption("HelpDisplayed")

OptionsRead ==
  /\ phase = "options"
  /\ next > Len(commandLine.options)
  /\ UNCHANGED <<commandLine, pipelining, initializers, testFile, disassembly,
                 postRegisters, registers, outcome>>

(* disasmSingle and disasmFile. *)
Disassemble ==
  /\ OptionsRead
  /\ disassembly # <<>>
  /\ Exit(CASE disassembly[1].argument \in {"instruction", "elf", "ascii"} -> "Success"
            [] disassembly[1].argument \in {"elfWithoutText", "unreadable"} -> "InitializationError"
            [] disassembly[1].argument \in {"text", "missing"} -> "InvalidArgument")
  /\ UNCHANGED next

NoExecutable ==
  /\ OptionsRead
  /\ disassembly = <<>>
  /\ testFile = <<>> /\ commandLine.executable = "none"
  /\ Exit("InvalidArgument")
  /\ UNCHANGED next

Launch ==
  /\ OptionsRead
  /\ disassembly = <<>>
  /\ testFile # <<>> \/ commandLine.executable # "none"
  /\ Continue("load")
  /\ next' = 1

----------------------------------------------------------------------------
(* launcher.                                                                 *)

IsTest == testFile # <<>>
Executable == IF IsTest THEN testFile[1].executable ELSE commandLine.executable

(* Mutant: the initializers of the options are kept. *)
LoadTestKeepingOptions ==
  /\ phase = "load"
  /\ IF IsTest
       THEN \/ /\ ~testFile[1].endsInConf
               /\ Exit("InvalidArgument")
               /\ UNCHANGED <<initializers, postRegisters>>
            \/ /\ testFile[1].endsInConf
               /\ ~(testFile[1].readable /\ IsTestFile(testFile[1].lines))
               /\ Exit("InitializationError")
               /\ UNCHANGED <<initializers, postRegisters>>
            \/ /\ testFile[1].endsInConf /\ testFile[1].readable
               /\ IsTestFile(testFile[1].lines)
               /\ initializers' = GetRegisters(testFile[1].lines, "pre") \o initializers
               /\ postRegisters' = GetRegisters(testFile[1].lines, "post")
               /\ Continue("open")
       ELSE Continue("open") /\ UNCHANGED <<initializers, postRegisters>>
  /\ UNCHANGED <<commandLine, next, pipelining, testFile, disassembly, registers, outcome>>

LoadTest ==
  /\ phase = "load"
  /\ IF IsTest
       THEN \/ /\ ~testFile[1].endsInConf
               /\ Exit("InvalidArgument")
               /\ UNCHANGED <<initializers, postRegisters>>
            \/ /\ testFile[1].endsInConf
               /\ ~(testFile[1].readable /\ IsTestFile(testFile[1].lines))
               /\ Exit("InitializationError")
               /\ UNCHANGED <<initializers, postRegisters>>
            \/ /\ testFile[1].endsInConf /\ testFile[1].readable
               /\ IsTestFile(testFile[1].lines)
               /\ initializers' = GetRegisters(testFile[1].lines, "pre")
               /\ postRegisters' = GetRegisters(testFile[1].lines, "post")
               /\ Continue("open")
       ELSE Continue("open") /\ UNCHANGED <<initializers, postRegisters>>
  /\ UNCHANGED <<commandLine, next, pipelining, testFile, disassembly, registers, outcome>>

(* The constructor of ELFFile throws runtime_error for a file it cannot open *)
(* and invalid_argument, which launcher does not catch, for another format.  *)
OpenProgram ==
  /\ phase = "open"
  /\ \/ Executable = "elf" /\ Continue("initialize")
     \/ Executable = "missing" /\ Exit("InitializationError")
     \/ Executable = "notELF" /\ Exit("terminate")
  /\ UNCHANGED <<commandLine, options, postRegisters, registers, outcome>>

InitRegister ==
  /\ phase = "initialize"
  /\ next <= Len(initializers)
  /\ LET i == initializers[next] IN
       IF i.number >= NumRegs
         THEN Exit("InvalidArgument") /\ UNCHANGED <<next, registers>>
         ELSE /\ Continue(phase)
              /\ next' = next + 1
              /\ registers' = IF i.number = 0 THEN registers
                                              ELSE [registers EXCEPT ![i.number] = i.value]
  /\ UNCHANGED <<commandLine, pipelining, initializers, testFile, disassembly,
                 postRegisters, outcome>>

(* Processor::run, whose result is not looked at. *)
Run ==
  /\ phase = "initialize"
  /\ next > Len(initializers)
  /\ registers' \in {f \in [RegNumber -> Values \cup {0}] : f[0] = 0}
  /\ outcome' \in StopReason
  /\ Continue("validate")
  /\ UNCHANGED <<commandLine, options, postRegisters>>

(* Mutant: the last register decides. *)
AsExpectedLast ==
  Len(postRegisters) = 0
    \/ Last(postRegisters).value = registers[Last(postRegisters).number]

AsExpected == \A i \in ToSet(postRegisters) : i.value = registers[i.number]

(* validateRegisters; getRegister throws out_of_range. *)
Validate ==
  /\ phase = "validate"
  /\ \/ /\ \E i \in ToSet(postRegisters) : i.number >= NumRegs
        /\ Exit("InvalidArgument")
     \/ /\ \A i \in ToSet(postRegisters) : i.number < NumRegs
        /\ Exit(IF AsExpected THEN "Success" ELSE "UnitTestFailed")
  /\ UNCHANGED <<commandLine, options, postRegisters, registers, outcome>>

Next ==
  \/ SetFlag \/ AddInitializer \/ SetTestFile \/ SetDisassembly \/ ShowHelp
  \/ Disassemble \/ NoExecutable \/ Launch
  \/ LoadTest \/ OpenProgram \/ InitRegister \/ Run \/ Validate

Spec == Init /\ [][Next]_vars

----------------------------------------------------------------------------
(* The properties of a section, read off the lines of a file: those between  *)
(* its header and the next one.                                              *)
LinesOf(lines, section) ==
  {k \in DOMAIN lines :
     /\ lines[k].kind = "property"
     /\ \E h \in 1 .. k - 1 :
          /\ lines[h].kind = "section" /\ lines[h].name = section
          /\ \A j \in h + 1 .. k - 1 : lines[j].kind # "section"}

NumberOf(line) == Names[line.key].number % MaxRegs

Tested == exitCode # "none" /\ IsTest /\ outcome # "none"

(* A unit test that was run exits with success exactly if every register the *)
(* section "post" of its file names has the value it gives, and one with the *)
(* failure of the test exactly if one has not.  Values of other sections, or *)
(* the order of the lines, do not count.                                     *)
VerdictIsRight ==
  Tested /\ exitCode # "InvalidArgument" =>
    LET lines == testFile[1].lines IN
      (exitCode = "Success") <=>
        \A k \in LinesOf(lines, "post") : registers[NumberOf(lines[k])] = lines[k].value

(* What the registers were asked to be: for a unit test the section "pre" of *)
(* its file alone, otherwise the options -r, the last one for each register. *)
Asked(r, value) ==
  IF IsTest
    THEN LET lines == testFile[1].lines IN
           \E k \in LinesOf(lines, "pre") : NumberOf(lines[k]) = r /\ lines[k].value = value
    ELSE \E k \in DOMAIN commandLine.options :
           LET o == commandLine.options IN
             /\ o[k].name = "r" /\ o[k].specifier.form = "matches"
             /\ o[k].specifier.number = r /\ o[k].specifier.value = value
             /\ \A j \in k + 1 .. Len(o) :
                  ~(o[j].name = "r" /\ o[j].specifier.form = "matches"
                      /\ o[j].specifier.number = r)

(* When the run starts every register but x0 has a value it was asked to     *)
(* have, or zero if it was not asked for at all.                             *)
RunStartsAsAsked ==
  phase = "initialize" /\ next > Len(initializers) =>
    \A r \in RegNumber \ {0} :
      \/ Asked(r, registers[r])
      \/ registers[r] = 0 /\ \A value \in Values : ~Asked(r, value)
=============================================================================
