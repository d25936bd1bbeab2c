----------------------------- MODULE MCLauncher -----------------------------
(***************************************************************************)
(* Command lines of up to three options, with test files that are in order  *)
(* and that fail for every reason there is.  Register numbers have eight    *)
(* values, three of them are registers.                                     *)
(***************************************************************************)
EXTENDS Launcher

Name(number) == [register |-> FALSE, numeric |-> TRUE, number |-> number]

MCNames == << Name(-7),                                            \* R-7, narrowed to 1
              Name(1), Name(2),                                    \* R1, R2
              Name(5),                                             \* R5, no register
              Name(9),                                             \* R9, narrowed to 1
              [register |-> FALSE, numeric |-> FALSE],             \* Rx
              [register |-> TRUE, numeric |-> TRUE, number |-> 1] >>  \* r1

S(name) == [kind |-> "section", name |-> name]
P(key, value) == [kind |-> "property", key |-> key, value |-> value]
Comment == [kind |-> "other"]

TestLines == {
  <<S("pre"), P(2, 1), S("post"), P(2, 2), P(3, 1)>>,
  <<Comment, S("post"), P(3, 2), P(2, 1), S("pre"), P(3, 1), P(2, 2)>>,
  <<P(2, 2), S("pre"), P(3, 2), S("other"), P(2, 1), S("post")>>,
  <<S("pre"), S("post"), P(4, 1)>>,
  <<S("pre"), P(4, 1), S("post")>>,
  <<S("pre"), P(5, 2), P(2, 1), S("post"), P(5, 1)>>,
  <<S("pre"), P(6, 1), S("post")>>,
  <<S("pre"), P(1, 2), S("post"), P(1, 1)>>,
  <<S("pre"), P(7, 1), S("post")>>,
  <<S("pre"), S("post"), P(2, NotANumber)>>,
  <<S("pre"), P(2, 1), P(2, 2), S("post")>>,
  <<S("pre"), S("post"), S("pre")>>,
  <<S("pre"), P(2, 1)>> }

Test(endsInConf, readable, executable, lines) ==
  [endsInConf |-> endsInConf, readable |-> readable, executable |-> executable,
   lines |-> lines]

FirstTest == <<S("pre"), P(2, 1), S("post"), P(2, 2), P(3, 1)>>

Tests ==
  {Test(TRUE, TRUE, "elf", lines) : lines \in TestLines} \cup
  {Test(FALSE, TRUE, "elf", FirstTest), Test(TRUE, FALSE, "elf", FirstTest),
   Test(TRUE, TRUE, "notELF", FirstTest), Test(TRUE, TRUE, "missing", FirstTest)}

R(form, number, value) ==
  [name |-> "r", specifier |-> [form |-> form, number |-> number, value |-> value]]

Options ==
  {[name |-> n] : n \in {"d", "p", "h"}} \cup
  {R("matches", 0, 2), R("matches", 1, 2), R("matches", 1, 1), R("matches", 2, 1),
   R("matches", 5, 1), R("other", 0, 0), R("overflow", 0, 0)} \cup
  {[name |-> "t", file |-> test] : test \in Tests} \cup
  {[name |-> "x", argument |-> a] : a \in {"instruction", "text"}} \cup
  {[name |-> "X", argument |-> a] :
     a \in {"elf", "elfWithoutText", "ascii", "text", "missing", "unreadable"}}

(* Three options only where the third one matters: initializers and tests. *)
MCCommandLines ==
  {[options |-> o, executable |-> e] :
     o \in {<<>>} \cup {<<a>> : a \in Options} \cup {<<a, b>> : a, b \in Options},
     e \in {"none", "elf", "notELF", "missing"}} \cup
  {[options |-> <<a, b, c>>, executable |-> "elf"] :
     a, b, c \in {o \in Options : o.name \in {"r", "p"}}}
============================================================================
