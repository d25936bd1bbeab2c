---------------------------- MODULE UnitTestFile ----------------------------
(***************************************************************************)
(* The configuration of a unit test: ConfigFile (config-file.cc), which     *)
(* reads sections of properties, and TestFile (testing.cc), which takes the *)
(* sections "pre" and "post" for registers and their values.                *)
(*                                                                          *)
(* A file is a sequence of lines as the regular expressions of load sort    *)
(* them: [kind |-> "section", name], [kind |-> "property", key, value] or   *)
(* [kind |-> "other"].  A key is its place in Names.                        *)
(***************************************************************************)
EXTENDS Integers, SequencesExt

CONSTANTS
  MaxRegs,  \* number of values of a RegNumber: 256 in arch.h
  Names     \* property names in the order of std::map, as records of what is
            \*   seen in them: whether they match r([0-9]{1,2}), whether stoi
            \*   finds a number behind the first letter, and that number

ASSUME MaxRegsAssumption == MaxRegs \in Nat \ {0}

ASSUME NamesAssumption ==
  \A key \in DOMAIN Names : Names[key].numeric => Names[key].number \in Int

NotANumber == -1  \* a value stoull throws for

(* What the regular expressions leave of a line. *)
IsLine(line) ==
  line.kind = "property" =>
    line.key \in DOMAIN Names /\ line.key \in Nat /\ line.value \in Nat \cup {NotANumber}

----------------------------------------------------------------------------
(* ConfigFile::load.                                                         *)

NoSections == [sections |-> {"__GLOBAL"}, currentSection |-> "__GLOBAL",
               properties |-> {}, duplicate |-> FALSE]

HasProperty(config, key) ==
  \E p \in config.properties : p.section = config.currentSection /\ p.key = key

(* A line that is neither is ignored with a warning. *)
LoadLine(config, line) ==
  CASE config.duplicate -> config
    [] ~config.duplicate /\ line.kind = "section" ->
         IF line.name \in config.sections
           THEN [config EXCEPT !.duplicate = TRUE]
           ELSE [config EXCEPT !.sections = @ \cup {line.name}, !.currentSection = line.name]
    [] ~config.duplicate /\ line.kind = "property" ->
         IF HasProperty(config, line.key)
           THEN [config EXCEPT !.duplicate = TRUE]
           ELSE [config EXCEPT !.properties = @ \cup
                   {[section |-> config.currentSection, key |-> line.key,
                     value |-> line.value]}]
    [] OTHER -> config

Load(lines) == FoldLeft(LoadLine, NoSections, lines)

(* The properties of a section in the order of the map.                      *)
GetProperties(config, section) ==
  LET found == {p \in config.properties : p.section = section} IN
    CHOOSE s \in [1 .. Cardinality(found) -> found] :
      /\ ToSet(s) = found
      /\ \A i, j \in DOMAIN s : i < j => s[i].key < s[j].key

----------------------------------------------------------------------------
(* TestFile.                                                                 *)

(* validateSection throws for a name that matches the regular expression. *)
ValidSection(config, section) ==
  /\ section \in config.sections
  /\ \A p \in ToSet(GetProperties(config, section)) : ~Names[p.key].register

(* stoi and stoull throw for what is not a number. *)
Translates(config, section) ==
  \A p \in ToSet(GetProperties(config, section)) :
    Names[p.key].numeric /\ p.value # NotANumber

(* The constructor and the getters of TestFile do not throw. *)
IsTestFile(lines) ==
  LET config == Load(lines) IN
    /\ ~config.duplicate
    /\ \A section \in {"pre", "post"} :
         ValidSection(config, section) /\ Translates(config, section)

(* Mutant: the number is not narrowed. *)
GetRegistersWide(lines, section) ==
  LET properties == GetProperties(Load(lines), section)
  IN  [k \in DOMAIN properties |->
         [number |-> Names[properties[k].key].number, value |-> properties[k].value]]

(* The int stoi gives is narrowed to a RegNumber. *)
GetRegisters(lines, section) ==
  LET properties == GetProperties(Load(lines), section)
  IN  [k \in DOMAIN properties |->
         [number |-> Names[properties[k].key].number % MaxRegs, value |-> properties[k].value]]
============================================================================
