--------------------------- MODULE LauncherProofs ---------------------------
(***************************************************************************)
(* The way from the command line and the test file to the registers a run   *)
(* starts with and the verdict it ends with, for all of them.               *)
(***************************************************************************)
EXTENDS Launcher, NumberProofs, SequenceTheorems

----------------------------------------------------------------------------
(* A test file.                                                              *)

(* The greatest place of a beginning of a sequence. *)
LEMMA LastPlace ==
  ASSUME NEW n \in Nat, NEW t, t \subseteq 1 .. n + 1, n + 1 \in t
  PROVE  Max(t) = n + 1
<1>1. \A x \in t : x \in Int /\ x <= n + 1
  OBVIOUS
<1>2. \A x \in t : (\A y \in t : x >= y) <=> x = n + 1
  BY <1>1
<1> QED
  BY <1>2 DEF Max

(* The configurations after each of n lines. *)
LineByLine(config, lines, n) ==
  /\ Load(lines) = config[n]
  /\ config[0] = NoSections
  /\ \A k \in 1 .. n : config[k] = LoadLine(config[k - 1], lines[k])

(* A file is loaded line by line. *)
LEMMA LoadByLine ==
  ASSUME NEW lines, NEW n \in Nat, DOMAIN lines = 1 .. n
  PROVE  \E config : LineByLine(config, lines, n)
<1> DEFINE One(f, t) ==
             IF t = {} THEN NoSections ELSE LoadLine(f[t \ {Max(t)}], lines[Max(t)])
           IsFold(f, k) == f = [t \in SUBSET (1 .. k) |-> One(f, t)]
           Missing == {k \in 0 .. n : ~\E f : IsFold(f, k)}
           fold == CHOOSE f : IsFold(f, n)
<1>1. \E f : IsFold(f, 0)
  <2> DEFINE f == [t \in SUBSET (1 .. 0) |-> NoSections]
  <2>1. \A t \in SUBSET (1 .. 0) : t = {}
    OBVIOUS
  <2>2. [t \in SUBSET (1 .. 0) |-> One(f, t)] = [t \in SUBSET (1 .. 0) |-> NoSections]
    BY <2>1
  <2>3. IsFold(f, 0)
    BY <2>2
  <2> QED
    BY <2>3
<1>2. ASSUME NEW k \in 0 .. n - 1, NEW f, IsFold(f, k)
      PROVE  \E g : IsFold(g, k + 1)
  <2> DEFINE g == [t \in SUBSET (1 .. k + 1) |->
                     IF k + 1 \in t THEN LoadLine(f[t \ {k + 1}], lines[k + 1]) ELSE f[t]]
  <2>1. ASSUME NEW t \in SUBSET (1 .. k + 1), k + 1 \in t PROVE g[t] = One(g, t)
    <3>1. Max(t) = k + 1
      <4>1. k \in Nat /\ t \subseteq 1 .. k + 1
        OBVIOUS
      <4> HIDE DEF One, IsFold, g
      <4> QED
        BY <2>1, <4>1, LastPlace
    <3>2. t \ {k + 1} \in SUBSET (1 .. k + 1) /\ k + 1 \notin t \ {k + 1}
      BY <2>1
    <3>3. g[t \ {k + 1}] = f[t \ {k + 1}]
      BY <3>2
    <3> QED
      BY <2>1, <3>1, <3>3
  <2>2. ASSUME NEW t \in SUBSET (1 .. k + 1), k + 1 \notin t PROVE g[t] = One(g, t)
    <3>1. t \in SUBSET (1 .. k) /\ \A x : t \ {x} \in SUBSET (1 .. k)
      <4>1. \A i \in 1 .. k + 1 : i # k + 1 => i \in 1 .. k
        OBVIOUS
      <4>2. \A i \in t : i \in 1 .. k
        BY <2>2, <4>1
      <4> QED
        BY <4>2
    <3>2. g[t] = f[t]
      BY <2>2
    <3>3. f[t] = One(f, t)
      <4>1. f = [u \in SUBSET (1 .. k) |-> One(f, u)]
        BY <1>2
      <4> HIDE DEF One
      <4> QED
        BY <3>1, <4>1
    <3>4. \A x : g[t \ {x}] = f[t \ {x}]
      <4>1. \A x : t \ {x} \in SUBSET (1 .. k + 1) /\ k + 1 \notin t \ {x}
        BY <2>2
      <4> QED
        BY <4>1
    <3> HIDE DEF g
    <3> QED
      BY <3>2, <3>3, <3>4
  <2>3. g = [t \in SUBSET (1 .. k + 1) |-> g[t]]
    OBVIOUS
  <2> HIDE DEF g
  <2>4. IsFold(g, k + 1)
    <3>1. \A t \in SUBSET (1 .. k + 1) : g[t] = One(g, t)
      BY <2>1, <2>2
    <3> HIDE DEF One
    <3> QED
      BY <2>3, <3>1
  <2> QED
    BY <2>4
<1>3. \E f : IsFold(f, n)
  <2> HIDE DEF IsFold
  <2>1. Missing = {}
    <3> SUFFICES ASSUME Missing # {} PROVE FALSE
      OBVIOUS
    <3>1. PICK k \in Missing : \A l \in Missing : k <= l
      <4>1. Missing \in SUBSET Nat
        OBVIOUS
      <4> HIDE DEF Missing
      <4> QED
        BY <4>1, LeastNumber
    <3>2. k # 0 /\ k \in 0 .. n /\ ~\E f : IsFold(f, k)
      BY <1>1
    <3>3. k - 1 \in 0 .. n - 1 /\ k - 1 \notin Missing /\ (k - 1) + 1 = k
      BY <3>1, <3>2
    <3>4. \E f : IsFold(f, k - 1)
      BY <3>3
    <3> QED
      BY <1>2, <3>2, <3>3, <3>4
  <2> QED
    BY <2>1
<1>4. IsFold(fold, n)
  <2> HIDE DEF IsFold
  <2> QED
    BY <1>3
<1>5. Load(lines) = fold[1 .. n]
  BY DEF Load, FoldLeft, MapThenFoldSet
<1> HIDE DEF fold
<1> DEFINE config == [k \in 0 .. n |-> fold[1 .. k]]
<1>6. \A t \in SUBSET (1 .. n) : fold[t] = One(fold, t)
  <2> HIDE DEF One
  <2> QED
    BY <1>4
<1>7. config[0] = NoSections
  <2>1. 1 .. 0 = {} /\ 0 \in 0 .. n /\ {} \in SUBSET (1 .. n)
    OBVIOUS
  <2>2. fold[{}] = NoSections
    BY <1>6, <2>1
  <2> QED
    BY <2>1, <2>2
<1>8. ASSUME NEW k \in 1 .. n PROVE config[k] = LoadLine(config[k - 1], lines[k])
  <2>1. /\ 1 .. k \in SUBSET (1 .. n) /\ 1 .. k # {} /\ (1 .. k) \ {k} = 1 .. k - 1
        /\ k - 1 \in Nat /\ (k - 1) + 1 = k /\ k \in 1 .. k
    OBVIOUS
  <2>2. Max(1 .. k) = k
    BY <2>1, LastPlace
  <2>3. fold[1 .. k] = LoadLine(fold[1 .. k - 1], lines[k])
    BY <1>6, <2>1, <2>2
  <2> QED
    BY <2>3
<1>9. config[n] = fold[1 .. n]
  OBVIOUS
<1> HIDE DEF config
<1> QED
  BY <1>5, <1>7, <1>8, <1>9 DEF LineByLine

(* A sequence with the elements of a set in the order of their keys. *)
Sorted(s, S) ==
  /\ s \in [1 .. Cardinality(S) -> S]
  /\ ToSet(s) = S
  /\ \A i, j \in DOMAIN s : i < j => s[i].key < s[j].key

(* A finite set whose elements have keys of their own can be sorted. *)
LEMMA SortedExists ==
  ASSUME NEW S, IsFiniteSet(S), \A p \in S : p.key \in Nat,
         \A p, q \in S : p.key = q.key => p = q
  PROVE  \E s : Sorted(s, S)
<1> DEFINE Unsorted(T) == T \in SUBSET S /\ IsFiniteSet(T) /\ ~\E s : Sorted(s, T)
           Sizes == {n \in Nat : \E T : Unsorted(T) /\ Cardinality(T) = n}
<1>1. Sizes = {}
  <2> SUFFICES ASSUME Sizes # {} PROVE FALSE
    OBVIOUS
  <2>1. PICK n \in Sizes : \A m \in Sizes : n <= m
    <3>1. Sizes \in SUBSET Nat
      OBVIOUS
    <3> HIDE DEF Sizes
    <3> QED
      BY <3>1, LeastNumber
  <2>2. PICK T : Unsorted(T) /\ Cardinality(T) = n
    OBVIOUS
  <2>3. T # {}
    <3> SUFFICES ASSUME T = {} PROVE FALSE
      OBVIOUS
    <3>1. Cardinality(T) = 0
      BY FS_EmptySet
    <3> DEFINE s == [i \in 1 .. 0 |-> i]
    <3>2. s \in [1 .. 0 -> T] /\ ToSet(s) = T /\ DOMAIN s = {}
      BY DEF ToSet
    <3>3. Sorted(s, T)
      BY <3>1, <3>2 DEF Sorted
    <3> QED
      BY <2>2, <3>3
  <2>4. PICK first \in T : \A p \in T : first.key <= p.key
    <3> DEFINE Keys == {p.key : p \in T}
    <3>1. Keys \in SUBSET Nat /\ Keys # {}
      BY <2>2, <2>3
    <3>2. PICK k \in Keys : \A l \in Keys : k <= l
      <4> HIDE DEF Keys
      <4> QED
        BY <3>1, LeastNumber
    <3> QED
      BY <3>2
  <2> DEFINE U == T \ {first}
             m == Cardinality(U)
  <2>5. IsFiniteSet(U) /\ U \in SUBSET S /\ m \in Nat /\ n = m + 1
    <3>1. IsFiniteSet(T)
      BY <2>2
    <3>2. IsFiniteSet(U) /\ Cardinality(U) = Cardinality(T) - 1
      BY <3>1, FS_RemoveElement
    <3>3. m \in Nat
      BY <3>2, FS_CardinalityType
    <3> QED
      BY <2>2, <3>2, <3>3
  <2>6. PICK s : Sorted(s, U)
    <3>1. m \notin Sizes
      <4> HIDE DEF Sizes, m
      <4> QED
        BY <2>1, <2>5
    <3> QED
      BY <2>5, <3>1
  <2> DEFINE t == [i \in 1 .. n |-> IF i = 1 THEN first ELSE s[i - 1]]
  <2>7. /\ s \in [1 .. m -> U] /\ ToSet(s) = U
        /\ \A i, j \in 1 .. m : i < j => s[i].key < s[j].key
    BY <2>6 DEF Sorted
  <2> HIDE DEF m
  <2>8. t \in [1 .. n -> T]
    <3>1. ASSUME NEW i \in 1 .. n, i # 1 PROVE s[i - 1] \in T
      <4>1. i - 1 \in 1 .. m
        BY <2>5, <3>1
      <4> QED
        BY <2>7, <4>1
    <3> QED
      BY <3>1
  <2>9. ToSet(t) = T
    <3>1. ToSet(t) \subseteq T
      BY <2>8 DEF ToSet
    <3>2. first \in ToSet(t)
      <4>1. 1 \in 1 .. n /\ t[1] = first
        BY <2>5
      <4> HIDE DEF t
      <4> QED
        BY <2>8, <4>1 DEF ToSet
    <3>3. ASSUME NEW p \in U PROVE p \in ToSet(t)
      <4>1. PICK i \in 1 .. m : s[i] = p
        BY <2>7 DEF ToSet
      <4>2. i + 1 \in 1 .. n /\ i + 1 # 1 /\ (i + 1) - 1 = i
        BY <2>5
      <4>3. t[i + 1] = p
        BY <4>1, <4>2
      <4> HIDE DEF t
      <4> QED
        BY <2>8, <4>2, <4>3 DEF ToSet
    <3> QED
      BY <3>1, <3>2, <3>3
  <2>10. ASSUME NEW i \in 1 .. n, NEW j \in 1 .. n, i < j PROVE t[i].key < t[j].key
    <3>1. j # 1 /\ j - 1 \in 1 .. m
      BY <2>5, <2>10
    <3>2. CASE i = 1
      <4>1. t[i] = first /\ t[j] = s[j - 1]
        BY <3>1, <3>2
      <4>2. s[j - 1] \in U
        BY <2>7, <3>1
      <4>3. /\ s[j - 1] \in T /\ s[j - 1] \in S /\ first \in S
            /\ s[j - 1].key # first.key /\ first.key <= s[j - 1].key
        BY <2>2, <2>4, <4>2
      <4>4. s[j - 1].key \in Nat /\ first.key \in Nat
        BY <4>3
      <4> QED
        BY <4>1, <4>3, <4>4
    <3>3. CASE i # 1
      <4>1. i - 1 \in 1 .. m /\ i - 1 < j - 1
        BY <2>5, <2>10, <3>3
      <4> QED
        BY <2>7, <3>1, <3>3, <4>1
    <3> QED
      BY <3>2, <3>3
  <2>11. Sorted(t, T)
    <3> HIDE DEF t
    <3> QED
      BY <2>2, <2>8, <2>9, <2>10 DEF Sorted
  <2> QED
    BY <2>2, <2>11
<1>2. Cardinality(S) \in Nat /\ S \in SUBSET S
  BY FS_CardinalityType
<1> QED
  BY <1>1, <1>2

(* What a line leaves a configuration as. *)
IsConfig(config) ==
  config = [sections |-> config.sections, currentSection |-> config.currentSection,
            properties |-> config.properties, duplicate |-> config.duplicate]

LEMMA LineLoaded ==
  ASSUME NEW config, IsConfig(config), config.duplicate \in BOOLEAN, NEW line
  PROVE  LET after == LoadLine(config, line) IN
           /\ IsConfig(after) /\ after.duplicate \in BOOLEAN
           /\ config.duplicate => after.duplicate
           /\ ~after.duplicate =>
                \/ /\ line.kind = "section"
                   /\ line.name \notin config.sections
                   /\ after.sections = config.sections \cup {line.name}
                   /\ after.currentSection = line.name
                   /\ after.properties = config.properties
                \/ /\ line.kind = "property"
                   /\ ~HasProperty(config, line.key)
                   /\ after.sections = config.sections
                   /\ after.currentSection = config.currentSection
                   /\ after.properties = config.properties \cup
                        {[section |-> config.currentSection, key |-> line.key,
                          value |-> line.value]}
                \/ /\ line.kind \notin {"section", "property"}
                   /\ after = config
<1> DEFINE after == LoadLine(config, line)
<1>1. CASE config.duplicate
  <2>1. after = config
    BY <1>1 DEF LoadLine
  <2> QED
    BY <1>1, <2>1
<1>2. CASE ~config.duplicate /\ line.kind = "section" /\ line.name \in config.sections
  <2>1. after = [config EXCEPT !.duplicate = TRUE]
    BY <1>2 DEF LoadLine
  <2>2. IsConfig(after) /\ after.duplicate
    BY <2>1 DEF IsConfig
  <2> QED
    BY <1>2, <2>2
<1>3. CASE ~config.duplicate /\ line.kind = "section" /\ line.name \notin config.sections
  <2>1. after = [config EXCEPT !.sections = @ \cup {line.name}, !.currentSection = line.name]
    BY <1>3 DEF LoadLine
  <2>2. /\ IsConfig(after) /\ after.duplicate = config.duplicate
        /\ after.sections = config.sections \cup {line.name}
        /\ after.currentSection = line.name /\ after.properties = config.properties
    BY <2>1 DEF IsConfig
  <2> QED
    BY <1>3, <2>2
<1>4. CASE ~config.duplicate /\ line.kind = "property" /\ HasProperty(config, line.key)
  <2>1. after = [config EXCEPT !.duplicate = TRUE]
    BY <1>4 DEF LoadLine
  <2>2. IsConfig(after) /\ after.duplicate
    BY <2>1 DEF IsConfig
  <2> QED
    BY <1>4, <2>2
<1>5. CASE ~config.duplicate /\ line.kind = "property" /\ ~HasProperty(config, line.key)
  <2> DEFINE property == [section |-> config.currentSection, key |-> line.key,
                          value |-> line.value]
  <2>1. after = [config EXCEPT !.properties = @ \cup {property}]
    BY <1>5 DEF LoadLine
  <2> HIDE DEF property
  <2>2. /\ IsConfig(after) /\ after.duplicate = config.duplicate
        /\ after.sections = config.sections
        /\ after.currentSection = config.currentSection
        /\ after.properties = config.properties \cup {property}
    BY <2>1 DEF IsConfig
  <2> QED
    BY <1>5, <2>2 DEF property
<1>6. CASE ~config.duplicate /\ line.kind \notin {"section", "property"}
  <2>1. after = config
    BY <1>6 DEF LoadLine
  <2> QED
    BY <1>6, <2>1
<1> QED
  BY <1>1, <1>2, <1>3, <1>4, <1>5, <1>6

(* The section the lines after the first k are read into. *)
InSection(lines, section, k) ==
  \E h \in 1 .. k :
    /\ lines[h].kind = "section" /\ lines[h].name = section
    /\ \A j \in h + 1 .. k : lines[j].kind # "section"

LEMMA NextSection ==
  ASSUME NEW lines, NEW section, NEW k \in Nat
  PROVE  /\ lines[k + 1].kind = "section" =>
              (InSection(lines, section, k + 1) <=> lines[k + 1].name = section)
         /\ lines[k + 1].kind # "section" =>
              (InSection(lines, section, k + 1) <=> InSection(lines, section, k))
<1>1. CASE lines[k + 1].kind = "section"
  <2>1. ASSUME InSection(lines, section, k + 1) PROVE lines[k + 1].name = section
    <3>1. PICK h \in 1 .. k + 1 :
            /\ lines[h].kind = "section" /\ lines[h].name = section
            /\ \A j \in h + 1 .. k + 1 : lines[j].kind # "section"
      BY <2>1 DEF InSection
    <3>2. h = k + 1
      BY <1>1, <3>1
    <3> QED
      BY <3>1, <3>2
  <2>2. ASSUME lines[k + 1].name = section PROVE InSection(lines, section, k + 1)
    <3>1. k + 1 \in 1 .. k + 1 /\ (k + 1) + 1 .. k + 1 = {}
      OBVIOUS
    <3> QED
      BY <1>1, <2>2, <3>1 DEF InSection
  <2> QED
    BY <1>1, <2>1, <2>2
<1>2. CASE lines[k + 1].kind # "section"
  <2>1. ASSUME InSection(lines, section, k + 1) PROVE InSection(lines, section, k)
    <3>1. PICK h \in 1 .. k + 1 :
            /\ lines[h].kind = "section" /\ lines[h].name = section
            /\ \A j \in h + 1 .. k + 1 : lines[j].kind # "section"
      BY <2>1 DEF InSection
    <3>2. h \in 1 .. k /\ \A j \in h + 1 .. k : j \in h + 1 .. k + 1
      BY <1>2, <3>1
    <3> QED
      BY <3>1, <3>2 DEF InSection
  <2>2. ASSUME InSection(lines, section, k) PROVE InSection(lines, section, k + 1)
    <3>1. PICK h \in 1 .. k :
            /\ lines[h].kind = "section" /\ lines[h].name = section
            /\ \A j \in h + 1 .. k : lines[j].kind # "section"
      BY <2>2 DEF InSection
    <3>2. h \in 1 .. k + 1
      OBVIOUS
    <3>3. \A j \in h + 1 .. k + 1 : j \in h + 1 .. k \/ j = k + 1
      OBVIOUS
    <3> QED
      BY <1>2, <3>1, <3>2, <3>3 DEF InSection
  <2> QED
    BY <1>2, <2>1, <2>2
<1> QED
  BY <1>1, <1>2

(* The lines of a file. *)
Lines(lines, n) == DOMAIN lines = 1 .. n /\ \A k \in 1 .. n : IsLine(lines[k])

PropertyOf(lines, section, k) ==
  [section |-> section, key |-> lines[k].key, value |-> lines[k].value]

(* What a configuration has of the first k lines. *)
Loaded(config, lines, k) ==
  /\ "__GLOBAL" \in config.sections /\ config.currentSection \in config.sections
  /\ \A section : section # "__GLOBAL" =>
       (config.currentSection = section <=> InSection(lines, section, k))
  /\ \A section : section # "__GLOBAL" =>
       \A p : p \in config.properties /\ p.section = section <=>
                \E j \in LinesOf(lines, section) : j <= k /\ p = PropertyOf(lines, section, j)
  /\ \A p, q \in config.properties : p.section = q.section /\ p.key = q.key => p = q
  /\ IsFiniteSet(config.properties)
  /\ \A p \in config.properties :
       p.key \in DOMAIN Names /\ p.key \in Nat /\ p.value \in Nat \cup {NotANumber}

(* The lines of a section. *)
LEMMA LineOfSection ==
  ASSUME NEW lines, NEW n \in Nat, Lines(lines, n), NEW section, NEW k \in 1 .. n
  PROVE  k \in LinesOf(lines, section) <=>
           lines[k].kind = "property" /\ InSection(lines, section, k - 1)
<1>1. (k - 1) + 1 = k
  OBVIOUS
<1> QED
  BY <1>1 DEF LinesOf, InSection, Lines

LEMMA NothingLoaded ==
  ASSUME NEW lines, NEW n \in Nat, Lines(lines, n)
  PROVE  Loaded(NoSections, lines, 0)
<1>1. \A section : ~InSection(lines, section, 0)
  BY DEF InSection
<1>2. \A section : \A j \in LinesOf(lines, section) : ~(j <= 0)
  BY DEF LinesOf, Lines
<1>3. IsFiniteSet({})
  BY FS_EmptySet
<1>4. /\ NoSections.sections = {"__GLOBAL"} /\ NoSections.currentSection = "__GLOBAL"
      /\ NoSections.properties = {}
  BY DEF NoSections
<1> QED
  BY <1>1, <1>2, <1>3, <1>4 DEF Loaded

LEMMA LoadedNext ==
  ASSUME NEW lines, NEW n \in Nat, Lines(lines, n), NEW k \in 0 .. n - 1,
         NEW config, IsConfig(config), config.duplicate \in BOOLEAN,
         Loaded(config, lines, k), ~LoadLine(config, lines[k + 1]).duplicate
  PROVE  Loaded(LoadLine(config, lines[k + 1]), lines, k + 1)
<1> DEFINE line == lines[k + 1]
           after == LoadLine(config, line)
<1>0. k \in Nat /\ k + 1 \in 1 .. n /\ (k + 1) - 1 = k
  OBVIOUS
<1>1. IsLine(line)
  BY <1>0 DEF Lines
<1>2. \A section : \A j \in LinesOf(lines, section) :
        j <= k + 1 <=> j <= k \/ j = k + 1
  BY DEF LinesOf, Lines
<1>3. \A section : k + 1 \in LinesOf(lines, section) <=>
                     line.kind = "property" /\ InSection(lines, section, k)
  <2> TAKE section
  <2> QED
    BY <1>0, LineOfSection
<1>4. \A section : /\ line.kind = "section" =>
                        (InSection(lines, section, k + 1) <=> line.name = section)
                   /\ line.kind # "section" =>
                        (InSection(lines, section, k + 1) <=> InSection(lines, section, k))
  <2> TAKE section
  <2> QED
    BY <1>0, NextSection
<1>5. /\ "__GLOBAL" \in config.sections /\ config.currentSection \in config.sections
      /\ \A section : section # "__GLOBAL" =>
           (config.currentSection = section <=> InSection(lines, section, k))
      /\ \A section : section # "__GLOBAL" =>
           \A p : p \in config.properties /\ p.section = section <=>
                    \E j \in LinesOf(lines, section) :
                      j <= k /\ p = PropertyOf(lines, section, j)
      /\ \A p, q \in config.properties : p.section = q.section /\ p.key = q.key => p = q
      /\ IsFiniteSet(config.properties)
      /\ \A p \in config.properties :
           p.key \in DOMAIN Names /\ p.key \in Nat /\ p.value \in Nat \cup {NotANumber}
  BY DEF Loaded
<1>6. CASE /\ line.kind = "section"
           /\ line.name \notin config.sections
           /\ after.sections = config.sections \cup {line.name}
           /\ after.currentSection = line.name
           /\ after.properties = config.properties
  <2> HIDE DEF after, line
  <2>1. /\ "__GLOBAL" \in after.sections /\ after.currentSection \in after.sections
    BY <1>5, <1>6
  <2>2. \A section : after.currentSection = section <=> InSection(lines, section, k + 1)
    BY <1>4, <1>6
  <2>3. \A section : section # "__GLOBAL" =>
           \A p : p \in after.properties /\ p.section = section <=>
                    \E j \in LinesOf(lines, section) :
                      j <= k + 1 /\ p = PropertyOf(lines, section, j)
    BY <1>2, <1>3, <1>5, <1>6
  <2>4. Loaded(after, lines, k + 1)
    BY <1>5, <1>6, <2>1, <2>2, <2>3 DEF Loaded
  <2> QED
    BY <2>4 DEF after, line
<1>7. CASE /\ line.kind = "property"
           /\ ~HasProperty(config, line.key)
           /\ after.sections = config.sections
           /\ after.currentSection = config.currentSection
           /\ after.properties = config.properties \cup
                {[section |-> config.currentSection, key |-> line.key,
                  value |-> line.value]}
  <2> DEFINE new == [section |-> config.currentSection, key |-> line.key,
                     value |-> line.value]
  <2>0. /\ new.section = config.currentSection /\ new.key = line.key
        /\ new.value = line.value
        /\ after.properties = config.properties \cup {new}
        /\ new = PropertyOf(lines, config.currentSection, k + 1)
    BY <1>7 DEF PropertyOf
  <2>1. line.key \in DOMAIN Names /\ line.key \in Nat /\ line.value \in Nat \cup {NotANumber}
    BY <1>1, <1>7 DEF IsLine
  <2> HIDE DEF after, line, new
  <2>2. \A section : section # "__GLOBAL" =>
          (after.currentSection = section <=> InSection(lines, section, k + 1))
    BY <1>4, <1>5, <1>7
  <2>3. ASSUME NEW section, section # "__GLOBAL", NEW p
        PROVE  p \in after.properties /\ p.section = section <=>
                 \E j \in LinesOf(lines, section) :
                   j <= k + 1 /\ p = PropertyOf(lines, section, j)
    <3>1. (\E j \in LinesOf(lines, section) :
             j <= k + 1 /\ p = PropertyOf(lines, section, j)) <=>
            \/ \E j \in LinesOf(lines, section) :
                 j <= k /\ p = PropertyOf(lines, section, j)
            \/ k + 1 \in LinesOf(lines, section) /\ p = PropertyOf(lines, section, k + 1)
      BY <1>0, <1>2
    <3>2. k + 1 \in LinesOf(lines, section) <=> config.currentSection = section
      BY <1>3, <1>5, <1>7, <2>3
    <3>3. p \in config.properties /\ p.section = section <=>
            \E j \in LinesOf(lines, section) :
              j <= k /\ p = PropertyOf(lines, section, j)
      BY <1>5, <2>3
    <3>4. p = new /\ p.section = section <=>
            config.currentSection = section /\ p = PropertyOf(lines, section, k + 1)
      BY <2>0
    <3>5. p \in after.properties <=> p \in config.properties \/ p = new
      BY <2>0
    <3> QED
      BY <3>1, <3>2, <3>3, <3>4, <3>5
  <2>4. \A p, q \in after.properties : p.section = q.section /\ p.key = q.key => p = q
    BY <1>5, <1>7, <2>0 DEF HasProperty
  <2>5. IsFiniteSet(after.properties)
    BY <1>5, <2>0, FS_AddElement
  <2>6. \A p \in after.properties :
          p.key \in DOMAIN Names /\ p.key \in Nat /\ p.value \in Nat \cup {NotANumber}
    BY <1>5, <2>0, <2>1
  <2>7. Loaded(after, lines, k + 1)
    BY <1>5, <1>7, <2>2, <2>3, <2>4, <2>5, <2>6 DEF Loaded
  <2> QED
    BY <2>7 DEF after, line
<1>8. CASE line.kind \notin {"section", "property"} /\ after = config
  <2> HIDE DEF after, line
  <2>1. \A section : InSection(lines, section, k + 1) <=> InSection(lines, section, k)
    BY <1>4, <1>8
  <2>2. \A section : k + 1 \notin LinesOf(lines, section)
    BY <1>3, <1>8
  <2>3. \A section : \A j \in LinesOf(lines, section) : j <= k + 1 <=> j <= k
    BY <1>2, <2>2
  <2>4. \A section : section # "__GLOBAL" =>
           \A p : p \in after.properties /\ p.section = section <=>
                    \E j \in LinesOf(lines, section) :
                      j <= k + 1 /\ p = PropertyOf(lines, section, j)
    BY <1>5, <1>8, <2>3
  <2>5. Loaded(after, lines, k + 1)
    BY <1>5, <1>8, <2>1, <2>4 DEF Loaded
  <2> QED
    BY <2>5 DEF after, line
<1> QED
  BY <1>6, <1>7, <1>8, LineLoaded

(* A file that loads has each property between its header and the next one. *)
LEMMA FileLoaded ==
  ASSUME NEW lines, NEW n \in Nat, Lines(lines, n), ~Load(lines).duplicate
  PROVE  Loaded(Load(lines), lines, n)
<1>0. PICK config : LineByLine(config, lines, n)
  BY LoadByLine DEF Lines
<1>1. /\ Load(lines) = config[n]
      /\ config[0] = NoSections
      /\ \A k \in 1 .. n : config[k] = LoadLine(config[k - 1], lines[k])
  BY <1>0 DEF LineByLine
<1> DEFINE Holds(k) == /\ IsConfig(config[k]) /\ config[k].duplicate \in BOOLEAN
                       /\ ~config[k].duplicate => Loaded(config[k], lines, k)
           Failing == {k \in 0 .. n : ~Holds(k)}
<1>2. Holds(0)
  <2>1. Loaded(NoSections, lines, 0)
    BY NothingLoaded
  <2>2. IsConfig(NoSections) /\ NoSections.duplicate \in BOOLEAN
    BY DEF NoSections, IsConfig
  <2> QED
    BY <1>1, <2>1, <2>2
<1>3. ASSUME NEW k \in 0 .. n - 1, Holds(k) PROVE Holds(k + 1)
  <2>1. k + 1 \in 1 .. n /\ (k + 1) - 1 = k
    OBVIOUS
  <2>2. config[k + 1] = LoadLine(config[k], lines[k + 1])
    BY <1>1, <2>1
  <2>3. /\ IsConfig(config[k + 1]) /\ config[k + 1].duplicate \in BOOLEAN
        /\ config[k].duplicate => config[k + 1].duplicate
    <3> DEFINE before == config[k]
    <3>1. IsConfig(before) /\ before.duplicate \in BOOLEAN
      BY <1>3
    <3>2. config[k + 1] = LoadLine(before, lines[k + 1])
      BY <2>2
    <3> HIDE DEF before
    <3>3. /\ IsConfig(config[k + 1]) /\ config[k + 1].duplicate \in BOOLEAN
          /\ before.duplicate => config[k + 1].duplicate
      <4> DEFINE after == LoadLine(before, lines[k + 1])
      <4>1. IsConfig(after) /\ after.duplicate \in BOOLEAN /\ (before.duplicate => after.duplicate)
        BY <3>1, LineLoaded
      <4> QED
        BY <3>2, <4>1
    <3> QED
      BY <3>3 DEF before
  <2>4. ASSUME ~config[k + 1].duplicate PROVE Loaded(config[k + 1], lines, k + 1)
    BY <1>3, <2>2, <2>3, <2>4, LoadedNext
  <2> QED
    BY <2>3, <2>4
<1>4. Failing = {}
  <2> HIDE DEF Holds
  <2> SUFFICES ASSUME Failing # {} PROVE FALSE
    OBVIOUS
  <2>1. PICK k \in Failing : \A l \in Failing : k <= l
    <3>1. Failing \in SUBSET Nat
      OBVIOUS
    <3> HIDE DEF Failing
    <3> QED
      BY <3>1, LeastNumber
  <2>2. k # 0 /\ k \in 0 .. n /\ ~Holds(k)
    BY <1>2
  <2>3. k - 1 \in 0 .. n - 1 /\ k - 1 \notin Failing /\ (k - 1) + 1 = k
    BY <2>1, <2>2
  <2>4. Holds(k - 1)
    BY <2>3
  <2>5. Holds((k - 1) + 1)
    BY <1>3, <2>3, <2>4
  <2> QED
    BY <2>2, <2>3, <2>5
<1>5. Holds(n)
  <2> HIDE DEF Holds
  <2> QED
    BY <1>4
<1> QED
  BY <1>1, <1>5

(* The properties of a section are those of its lines, each of them once. *)
LEMMA PropertiesOfSection ==
  ASSUME NEW lines, NEW n \in Nat, Lines(lines, n), ~Load(lines).duplicate,
         NEW section, section # "__GLOBAL"
  PROVE  LET properties == GetProperties(Load(lines), section) IN
           /\ \E m \in Nat : DOMAIN properties = 1 .. m
           /\ \A p \in ToSet(properties) :
                \E k \in LinesOf(lines, section) : p = PropertyOf(lines, section, k)
           /\ \A k \in LinesOf(lines, section) :
                PropertyOf(lines, section, k) \in ToSet(properties)
<1> DEFINE config == Load(lines)
           found == {p \in config.properties : p.section = section}
           properties == GetProperties(config, section)
<1>1. /\ \A p : p \in found <=>
           \E j \in LinesOf(lines, section) : j <= n /\ p = PropertyOf(lines, section, j)
      /\ \A p, q \in found : p.key = q.key => p = q
      /\ \A p \in found : p.key \in Nat
      /\ IsFiniteSet(config.properties)
  BY FileLoaded DEF Loaded
<1>2. \A j \in LinesOf(lines, section) : j <= n
  BY DEF LinesOf, Lines
<1>3. IsFiniteSet(found)
  BY <1>1, FS_Subset
<1>4. properties = CHOOSE s : s \in [1 .. Cardinality(found) -> found] /\ ToSet(s) = found
                                /\ \A i, j \in DOMAIN s : i < j => s[i].key < s[j].key
  BY DEF GetProperties
<1> HIDE DEF found, properties, config
<1>5. Sorted(properties, found)
  <2>1. \E s : Sorted(s, found)
    BY <1>1, <1>3, SortedExists
  <2>2. properties = CHOOSE s : Sorted(s, found)
    BY <1>4 DEF Sorted
  <2> QED
    BY <2>1, <2>2
<1>6. Cardinality(found) \in Nat
  BY <1>3, FS_CardinalityType
<1>7. DOMAIN properties = 1 .. Cardinality(found) /\ ToSet(properties) = found
  BY <1>5 DEF Sorted
<1>8. /\ \E m \in Nat : DOMAIN properties = 1 .. m
      /\ \A p \in ToSet(properties) :
           \E k \in LinesOf(lines, section) : p = PropertyOf(lines, section, k)
      /\ \A k \in LinesOf(lines, section) :
           PropertyOf(lines, section, k) \in ToSet(properties)
  BY <1>1, <1>2, <1>6, <1>7
<1> QED
  BY <1>8 DEF properties, config

RegisterInits == [number : 0 .. MaxRegs - 1, value : Nat]

(* The registers a section names, and what it gives for them. *)
LEMMA RegistersOfSection ==
  ASSUME NEW lines, NEW n \in Nat, Lines(lines, n), IsTestFile(lines),
         NEW section \in {"pre", "post"}
  PROVE  /\ GetRegisters(lines, section) \in Seq(RegisterInits)
         /\ \A i \in ToSet(GetRegisters(lines, section)) :
              \E k \in LinesOf(lines, section) :
                i.number = NumberOf(lines[k]) /\ i.value = lines[k].value
         /\ \A k \in LinesOf(lines, section) :
              \E i \in ToSet(GetRegisters(lines, section)) :
                i.number = NumberOf(lines[k]) /\ i.value = lines[k].value
<1> DEFINE properties == GetProperties(Load(lines), section)
           InitOf(p) == [number |-> Names[p.key].number % MaxRegs, value |-> p.value]
           registersOf == GetRegisters(lines, section)
<1>1. /\ ~Load(lines).duplicate /\ section # "__GLOBAL"
      /\ \A p \in ToSet(properties) :
           Names[p.key].numeric /\ p.value # NotANumber
  BY DEF IsTestFile, Translates
<1>2. /\ \E m \in Nat : DOMAIN properties = 1 .. m
      /\ \A p \in ToSet(properties) :
           \E k \in LinesOf(lines, section) : p = PropertyOf(lines, section, k)
      /\ \A k \in LinesOf(lines, section) :
           PropertyOf(lines, section, k) \in ToSet(properties)
  BY <1>1, PropertiesOfSection
<1>3. registersOf = [k \in DOMAIN properties |-> InitOf(properties[k])]
  BY DEF GetRegisters
<1>4. \A p \in ToSet(properties) : InitOf(p) \in RegisterInits
  <2> TAKE p \in ToSet(properties)
  <2>1. PICK k \in LinesOf(lines, section) : p = PropertyOf(lines, section, k)
    BY <1>2
  <2>2. p.key = lines[k].key /\ p.value = lines[k].value
    BY <2>1 DEF PropertyOf
  <2>3. IsLine(lines[k]) /\ lines[k].kind = "property"
    BY DEF LinesOf, Lines
  <2>4. p.key \in DOMAIN Names /\ p.value \in Nat \cup {NotANumber}
    BY <2>2, <2>3 DEF IsLine
  <2>5. Names[p.key].number \in Int
    BY <1>1, <2>4, NamesAssumption
  <2>6. p.value \in Nat
    BY <1>1, <2>4
  <2>7. Names[p.key].number % MaxRegs \in 0 .. MaxRegs - 1
    BY <2>5, MaxRegsAssumption
  <2> QED
    BY <2>6, <2>7 DEF RegisterInits
<1> HIDE DEF properties, InitOf, registersOf
<1>5. ToSet(registersOf) = {InitOf(p) : p \in ToSet(properties)}
  BY <1>3 DEF ToSet
<1>6. registersOf \in Seq(RegisterInits)
  <2>1. PICK m \in Nat : DOMAIN properties = 1 .. m
    BY <1>2
  <2>2. \A k \in 1 .. m : properties[k] \in ToSet(properties)
    BY <2>1 DEF ToSet
  <2>3. registersOf \in [1 .. m -> RegisterInits]
    BY <1>3, <1>4, <2>1, <2>2
  <2> QED
    BY <2>3, SeqDef
<1>7. \A k \in LinesOf(lines, section) :
        /\ InitOf(PropertyOf(lines, section, k)).number = NumberOf(lines[k])
        /\ InitOf(PropertyOf(lines, section, k)).value = lines[k].value
  BY DEF InitOf, PropertyOf, NumberOf
<1>8. /\ \A i \in ToSet(registersOf) :
           \E k \in LinesOf(lines, section) :
             i.number = NumberOf(lines[k]) /\ i.value = lines[k].value
      /\ \A k \in LinesOf(lines, section) :
           \E i \in ToSet(registersOf) :
             i.number = NumberOf(lines[k]) /\ i.value = lines[k].value
  BY <1>2, <1>5, <1>7
<1> QED
  BY <1>6, <1>8 DEF registersOf

----------------------------------------------------------------------------
(* The last of several values for a register.                                *)

Latest(inits, m, r, value) ==
  \E i \in 1 .. m :
    /\ inits[i].number = r /\ inits[i].value = value
    /\ \A j \in i + 1 .. m : inits[j].number # r

LEMMA LatestNext ==
  ASSUME NEW inits, NEW m \in Nat, NEW r, NEW value
  PROVE  Latest(inits, m + 1, r, value) <=>
           IF inits[m + 1].number = r THEN inits[m + 1].value = value
                                      ELSE Latest(inits, m, r, value)
<1>1. CASE inits[m + 1].number = r
  <2>1. ASSUME Latest(inits, m + 1, r, value) PROVE inits[m + 1].value = value
    <3>1. PICK i \in 1 .. m + 1 :
            /\ inits[i].number = r /\ inits[i].value = value
            /\ \A j \in i + 1 .. m + 1 : inits[j].number # r
      BY <2>1 DEF Latest
    <3>2. i = m + 1
      BY <1>1, <3>1
    <3> QED
      BY <3>1, <3>2
  <2>2. ASSUME inits[m + 1].value = value PROVE Latest(inits, m + 1, r, value)
    <3>1. m + 1 \in 1 .. m + 1 /\ (m + 1) + 1 .. m + 1 = {}
      OBVIOUS
    <3> QED
      BY <1>1, <2>2, <3>1 DEF Latest
  <2> QED
    BY <1>1, <2>1, <2>2
<1>2. CASE inits[m + 1].number # r
  <2>1. ASSUME Latest(inits, m + 1, r, value) PROVE Latest(inits, m, r, value)
    <3>1. PICK i \in 1 .. m + 1 :
            /\ inits[i].number = r /\ inits[i].value = value
            /\ \A j \in i + 1 .. m + 1 : inits[j].number # r
      BY <2>1 DEF Latest
    <3>2. i \in 1 .. m /\ \A j \in i + 1 .. m : j \in i + 1 .. m + 1
      BY <1>2, <3>1
    <3> QED
      BY <3>1, <3>2 DEF Latest
  <2>2. ASSUME Latest(inits, m, r, value) PROVE Latest(inits, m + 1, r, value)
    <3>1. PICK i \in 1 .. m :
            /\ inits[i].number = r /\ inits[i].value = value
            /\ \A j \in i + 1 .. m : inits[j].number # r
      BY <2>2 DEF Latest
    <3>2. i \in 1 .. m + 1 /\ \A j \in i + 1 .. m + 1 : j \in i + 1 .. m \/ j = m + 1
      OBVIOUS
    <3> QED
      BY <1>2, <3>1, <3>2 DEF Latest
  <2> QED
    BY <1>2, <2>1, <2>2
<1> QED
  BY <1>1, <1>2

(* Only the first m values count. *)
LEMMA LatestOfSame ==
  ASSUME NEW inits, NEW others, NEW m \in Nat, \A i \in 1 .. m : inits[i] = others[i],
         NEW r, NEW value
  PROVE  Latest(inits, m, r, value) <=> Latest(others, m, r, value)
<1>1. \A i \in 1 .. m : \A j \in i + 1 .. m : j \in 1 .. m
  OBVIOUS
<1> QED
  BY <1>1 DEF Latest

(* A register that a value is given for has a last one. *)
LEMMA LatestExists ==
  ASSUME NEW inits, NEW m \in Nat, NEW r, \E i \in 1 .. m : inits[i].number = r
  PROVE  \E value : Latest(inits, m, r, value)
<1> DEFINE Behind == {k \in 0 .. m - 1 : inits[m - k].number = r}
<1>1. PICK k \in Behind : \A l \in Behind : k <= l
  <2>1. PICK i \in 1 .. m : inits[i].number = r
    OBVIOUS
  <2>2. m - i \in 0 .. m - 1 /\ m - (m - i) = i
    OBVIOUS
  <2>3. m - i \in Behind
    BY <2>1, <2>2
  <2>4. Behind \in SUBSET Nat
    OBVIOUS
  <2> HIDE DEF Behind
  <2> QED
    BY <2>3, <2>4, LeastNumber
<1>2. k \in 0 .. m - 1 /\ m - k \in 1 .. m /\ inits[m - k].number = r
  OBVIOUS
<1>3. ASSUME NEW j \in m - k + 1 .. m, inits[j].number = r PROVE FALSE
  <2>1. m - j \in 0 .. m - 1 /\ m - (m - j) = j /\ m - j < k
    BY <1>2
  <2>2. m - j \in Behind
    BY <1>3, <2>1
  <2> QED
    BY <1>1, <1>2, <2>1, <2>2
<1> QED
  BY <1>2, <1>3 DEF Latest

----------------------------------------------------------------------------
(* The state between the command line and the exit.                          *)

Phases == {"options", "load", "open", "initialize", "validate", "exited"}

SetUp ==
  /\ commandLine \in CommandLines
  /\ pipelining \in BOOLEAN
  /\ initializers \in Seq(RegisterInits) /\ postRegisters \in Seq(RegisterInits)
  /\ \/ testFile = <<>>
     \/ \E k \in DOMAIN commandLine.options :
          commandLine.options[k].name = "t" /\ testFile = <<commandLine.options[k].file>>
  /\ \/ disassembly = <<>>
     \/ \E k \in DOMAIN commandLine.options :
          /\ commandLine.options[k].name \in {"x", "X"}
          /\ disassembly = <<commandLine.options[k]>>
  /\ registers \in [RegNumber -> Nat] /\ registers[0] = 0
  /\ outcome \in StopReason \cup {"none"}
  /\ outcome # "none" => phase \in {"validate", "exited"}
  /\ phase \in Phases
  /\ exitCode \in ExitCodes \cup {"none"}
  /\ phase # "exited" => exitCode = "none"
  /\ next \in 1 .. Len(commandLine.options) + Len(initializers) + 1
  /\ phase = "options" => next <= Len(commandLine.options) + 1
  /\ phase \in {"load", "open"} => next = 1
  /\ phase = "initialize" => next <= Len(initializers) + 1

LEMMA CommandLineRead ==
  ASSUME commandLine \in CommandLines
  PROVE  /\ Len(commandLine.options) \in Nat
         /\ DOMAIN commandLine.options = 1 .. Len(commandLine.options)
         /\ \A k \in DOMAIN commandLine.options : LET o == commandLine.options[k] IN
              /\ o.name = "r" => RegisterInit(o.specifier) \in RegisterInits
              /\ o.name = "t" => Lines(o.file.lines, Len(o.file.lines))
                                   /\ Len(o.file.lines) \in Nat
              /\ o.name \in {"x", "X"} =>
                   o.argument \in {"instruction", "elf", "elfWithoutText", "ascii", "text",
                                   "missing", "unreadable"}
<1>1. /\ Len(commandLine.options) \in Nat
      /\ DOMAIN commandLine.options = 1 .. Len(commandLine.options)
  BY CommandLinesAssumption
<1>2. ASSUME NEW k \in DOMAIN commandLine.options, commandLine.options[k].name = "r"
      PROVE  RegisterInit(commandLine.options[k].specifier) \in RegisterInits
  <2> DEFINE specifier == commandLine.options[k].specifier
  <2>1. specifier.form = "matches" =>
          specifier.number \in 0 .. MaxRegs - 1 /\ specifier.value \in Nat
    BY <1>2, CommandLinesAssumption
  <2>2. 0 \in 0 .. MaxRegs - 1
    BY MaxRegsAssumption
  <2> HIDE DEF specifier
  <2>3. RegisterInit(specifier) \in RegisterInits
    BY <2>1, <2>2 DEF RegisterInit, RegisterInits
  <2> QED
    BY <2>3 DEF specifier
<1>3. ASSUME NEW k \in DOMAIN commandLine.options, commandLine.options[k].name = "t"
      PROVE  LET lines == commandLine.options[k].file.lines IN
               Lines(lines, Len(lines)) /\ Len(lines) \in Nat
  BY <1>3, CommandLinesAssumption DEF Lines
<1>4. ASSUME NEW k \in DOMAIN commandLine.options,
             commandLine.options[k].name \in {"x", "X"}
      PROVE  commandLine.options[k].argument \in
               {"instruction", "elf", "elfWithoutText", "ascii", "text", "missing",
                "unreadable"}
  BY <1>4, CommandLinesAssumption
<1> QED
  BY <1>1, <1>2, <1>3, <1>4

(* The lines of the test. *)
LEMMA TestRead ==
  ASSUME SetUp, IsTest
  PROVE  Lines(testFile[1].lines, Len(testFile[1].lines)) /\ Len(testFile[1].lines) \in Nat
<1>1. PICK k \in DOMAIN commandLine.options :
        commandLine.options[k].name = "t" /\ testFile = <<commandLine.options[k].file>>
  BY DEF SetUp, IsTest
<1>2. testFile[1] = commandLine.options[k].file
  BY <1>1
<1> QED
  BY <1>1, <1>2, CommandLineRead DEF SetUp

LEMMA SetUpInit ==
  ASSUME Init
  PROVE  SetUp
<1>1. Len(commandLine.options) \in Nat
  BY CommandLineRead DEF Init
<1>2. <<>> \in Seq(RegisterInits) /\ Len(<<>>) = 0
  BY EmptySeq
<1>3. 0 \in RegNumber
  BY NumRegsAssumption DEF RegNumber
<1>4. next \in 1 .. Len(commandLine.options) + Len(initializers) + 1
  <2>1. next = 1 /\ initializers = <<>>
    BY DEF Init
  <2> QED
    BY <1>1, <1>2, <2>1
<1>5. registers \in [RegNumber -> Nat] /\ registers[0] = 0
  BY <1>3 DEF Init
<1>6. next <= Len(commandLine.options) + 1
  BY <1>1 DEF Init
<1> QED
  BY <1>2, <1>4, <1>5, <1>6 DEF Init, SetUp, Phases

LEMMA SetUpNext ==
  ASSUME SetUp, [Next]_vars
  PROVE  SetUp'
<1> USE DEF Phases
<1>0. /\ Len(commandLine.options) \in Nat
      /\ DOMAIN commandLine.options = 1 .. Len(commandLine.options)
      /\ Len(initializers) \in Nat
  BY CommandLineRead, LenProperties DEF SetUp
<1>1. CASE SetFlag
  BY <1>0, <1>1 DEF SetUp, SetFlag, Reading, AcceptOption, Continue
<1>2. CASE AddInitializer
  <2> DEFINE new == RegisterInit(Option.specifier)
  <2>1. /\ phase = "options" /\ next \in DOMAIN commandLine.options
        /\ Option = commandLine.options[next] /\ Option.name = "r"
    BY <1>0, <1>2 DEF AddInitializer, Reading, Option, SetUp
  <2>2. new \in RegisterInits
    BY <2>1, CommandLineRead DEF SetUp
  <2>3. CASE RefuseOption("InvalidArgument")
    BY <1>0, <1>2, <2>3 DEF SetUp, AddInitializer, Reading, RefuseOption, Exit, options,
                            ExitCodes
  <2>4. CASE ~RefuseOption("InvalidArgument")
    <3> HIDE DEF new
    <3>1. /\ AcceptOption /\ initializers' = Append(initializers, new)
          /\ UNCHANGED <<commandLine, postRegisters, registers, outcome>>
          /\ UNCHANGED <<pipelining, testFile, disassembly>>
      BY <1>2, <2>4 DEF AddInitializer, Reading, new
    <3>2. initializers' \in Seq(RegisterInits) /\ Len(initializers') = Len(initializers) + 1
      BY <2>2, <3>1, AppendProperties DEF SetUp
    <3>3. next' = next + 1 /\ phase' = "options" /\ exitCode' = exitCode
      BY <2>1, <3>1 DEF AcceptOption, Continue
    <3>4. next \in 1 .. Len(commandLine.options)
      BY <1>0, <2>1
    <3>5. /\ next' \in 1 .. Len(commandLine.options) + Len(initializers') + 1
          /\ next' <= Len(commandLine.options) + 1
      <4>1. ASSUME NEW n \in Nat, NEW m \in Nat, NEW k \in 1 .. n
            PROVE  k + 1 \in 1 .. n + (m + 1) + 1 /\ k + 1 <= n + 1
        OBVIOUS
      <4> QED
        BY <1>0, <3>2, <3>3, <3>4, <4>1
    <3>6. /\ UNCHANGED <<commandLine, postRegisters, registers, outcome>>
          /\ UNCHANGED <<pipelining, testFile, disassembly>>
      BY <3>1
    <3> QED
      BY <2>1, <3>2, <3>3, <3>5, <3>6 DEF SetUp
  <2> QED
    BY <2>3, <2>4
<1>3. CASE SetTestFile
  <2>1. /\ phase = "options" /\ next \in DOMAIN commandLine.options
        /\ Option = commandLine.options[next] /\ Option.name = "t"
    BY <1>0, <1>3 DEF SetTestFile, Reading, Option, SetUp
  <2>2. CASE RefuseOption("InvalidArgument")
    BY <1>0, <1>3, <2>2 DEF SetUp, SetTestFile, Reading, RefuseOption, Exit, options,
                            ExitCodes
  <2>3. CASE ~RefuseOption("InvalidArgument")
    <3>1. /\ AcceptOption /\ testFile' = <<Option.file>>
          /\ UNCHANGED <<commandLine, postRegisters, registers, outcome>>
          /\ UNCHANGED <<pipelining, initializers, disassembly>>
      BY <1>3, <2>3 DEF SetTestFile, Reading
    <3>2. next' = next + 1 /\ phase' = "options" /\ exitCode' = exitCode
      BY <2>1, <3>1 DEF AcceptOption, Continue
    <3>3. \E n \in DOMAIN commandLine'.options :
            commandLine'.options[n].name = "t" /\ testFile' = <<commandLine'.options[n].file>>
      BY <2>1, <3>1
    <3>4. next \in 1 .. Len(commandLine.options)
      BY <1>0, <2>1
    <3>5. /\ next' \in 1 .. Len(commandLine.options) + Len(initializers) + 1
          /\ next' <= Len(commandLine.options) + 1
      BY <1>0, <3>2, <3>4
    <3> QED
      BY <1>0, <2>1, <3>1, <3>2, <3>3, <3>5 DEF SetUp
  <2> QED
    BY <2>2, <2>3
<1>4. CASE SetDisassembly
  <2>1. /\ phase = "options" /\ next \in DOMAIN commandLine.options
        /\ Option = commandLine.options[next] /\ Option.name \in {"x", "X"}
    BY <1>0, <1>4 DEF SetDisassembly, Reading, Option, SetUp
  <2>2. CASE RefuseOption("InitializationError")
    BY <1>0, <1>4, <2>2 DEF SetUp, SetDisassembly, Reading, RefuseOption, Exit, options,
                            ExitCodes
  <2>3. CASE ~RefuseOption("InitializationError")
    <3>1. /\ AcceptOption /\ disassembly' = <<Option>>
          /\ UNCHANGED <<commandLine, postRegisters, registers, outcome>>
          /\ UNCHANGED <<pipelining, initializers, testFile>>
      BY <1>4, <2>3 DEF SetDisassembly, Reading
    <3>2. next' = next + 1 /\ phase' = "options" /\ exitCode' = exitCode
      BY <2>1, <3>1 DEF AcceptOption, Continue
    <3>3. \E n \in DOMAIN commandLine'.options :
            /\ commandLine'.options[n].name \in {"x", "X"}
            /\ disassembly' = <<commandLine'.options[n]>>
      BY <2>1, <3>1
    <3>4. next \in 1 .. Len(commandLine.options)
      BY <1>0, <2>1
    <3>5. /\ next' \in 1 .. Len(commandLine.options) + Len(initializers) + 1
          /\ next' <= Len(commandLine.options) + 1
      BY <1>0, <3>2, <3>4
    <3> QED
      BY <1>0, <2>1, <3>1, <3>2, <3>3, <3>5 DEF SetUp
  <2> QED
    BY <2>2, <2>3
<1>5. CASE ShowHelp
  BY <1>0, <1>5 DEF SetUp, ShowHelp, Reading, RefuseOption, Exit, options, ExitCodes
<1>6. CASE Disassemble
  <2>1. PICK k \in DOMAIN commandLine.options :
          /\ commandLine.options[k].name \in {"x", "X"}
          /\ disassembly = <<commandLine.options[k]>>
    BY <1>6 DEF Disassemble, SetUp
  <2>2. disassembly[1].argument \in {"instruction", "elf", "elfWithoutText", "ascii", "text",
                                     "missing", "unreadable"}
    <3>1. disassembly[1] = commandLine.options[k]
      BY <2>1
    <3> QED
      BY <2>1, <3>1, CommandLineRead DEF SetUp
  <2>3. exitCode' \in ExitCodes /\ phase' = "exited"
    BY <1>6, <2>2 DEF Disassemble, Exit, ExitCodes
  <2>4. /\ UNCHANGED <<commandLine, pipelining, initializers, testFile, disassembly>>
        /\ UNCHANGED <<postRegisters, registers, outcome, next>>
    BY <1>6 DEF Disassemble, OptionsRead
  <2> QED
    BY <1>0, <2>3, <2>4 DEF SetUp
<1>7. CASE NoExecutable
  BY <1>0, <1>7 DEF SetUp, NoExecutable, OptionsRead, Exit, ExitCodes
<1>8. CASE Launch
  BY <1>0, <1>8 DEF SetUp, Launch, OptionsRead, Continue
<1>9. CASE LoadTest
  <2>1. CASE UNCHANGED <<initializers, postRegisters>>
    BY <1>0, <1>9, <2>1 DEF SetUp, LoadTest, Exit, Continue, ExitCodes
  <2>2. CASE /\ IsTest /\ IsTestFile(testFile[1].lines)
             /\ initializers' = GetRegisters(testFile[1].lines, "pre")
             /\ postRegisters' = GetRegisters(testFile[1].lines, "post")
             /\ Continue("open")
    <3>1. initializers' \in Seq(RegisterInits) /\ postRegisters' \in Seq(RegisterInits)
      <4> DEFINE lines == testFile[1].lines
      <4>1. Lines(lines, Len(lines)) /\ Len(lines) \in Nat /\ IsTestFile(lines)
        BY <2>2, TestRead
      <4> HIDE DEF lines
      <4>2. \A section \in {"pre", "post"} : GetRegisters(lines, section) \in Seq(RegisterInits)
        BY <4>1, RegistersOfSection
      <4> QED
        BY <2>2, <4>2 DEF lines
    <3>2. Len(initializers') \in Nat
      BY <3>1, LenProperties
    <3>3. /\ phase = "load" /\ phase' = "open" /\ exitCode' = exitCode
          /\ UNCHANGED <<commandLine, next, pipelining, testFile, disassembly, registers, outcome>>
      BY <1>9, <2>2 DEF LoadTest, Continue
    <3>4. next = 1 /\ next \in 1 .. Len(commandLine.options) + Len(initializers') + 1
      BY <1>0, <3>2, <3>3 DEF SetUp
    <3> QED
      BY <3>1, <3>3, <3>4 DEF SetUp
  <2> QED
    BY <1>9, <2>1, <2>2 DEF LoadTest
<1>10. CASE OpenProgram
  BY <1>0, <1>10 DEF SetUp, OpenProgram, Exit, Continue, options, ExitCodes
<1>11. CASE InitRegister
  <2> DEFINE i == initializers[next]
  <2>1. i \in RegisterInits /\ phase = "initialize" /\ next <= Len(initializers)
    BY <1>0, <1>11, ElementOfSeq DEF SetUp, InitRegister
  <2>2. CASE i.number >= NumRegs
    BY <1>0, <1>11, <2>2 DEF SetUp, InitRegister, Exit, ExitCodes
  <2>3. CASE ~(i.number >= NumRegs)
    <3>1. registers' = IF i.number = 0 THEN registers
                                       ELSE [registers EXCEPT ![i.number] = i.value]
      BY <1>11, <2>3 DEF InitRegister
    <3> HIDE DEF i
    <3>2. registers' \in [RegNumber -> Nat] /\ registers'[0] = 0
      <4>1. i.number \in RegNumber /\ i.value \in Nat
        BY <2>1, <2>3, NumRegsAssumption DEF RegisterInits, RegNumber
      <4> QED
        BY <3>1, <4>1 DEF SetUp
    <3>3. /\ next' = next + 1 /\ phase' = phase /\ exitCode' = exitCode
          /\ UNCHANGED <<commandLine, pipelining, initializers, testFile, disassembly,
                          postRegisters, outcome>>
      BY <1>11, <2>3 DEF InitRegister, Continue, i
    <3>4. /\ next' \in 1 .. Len(commandLine.options) + Len(initializers) + 1
          /\ next' <= Len(initializers) + 1
      BY <1>0, <2>1, <3>3 DEF SetUp
    <3> QED
      BY <2>1, <3>2, <3>3, <3>4 DEF SetUp
  <2> QED
    BY <2>2, <2>3
<1>12. CASE Run
  <2>1. registers' \in [RegNumber -> Nat] /\ registers'[0] = 0
    <3>1. PICK f \in [RegNumber -> Values \cup {0}] : f[0] = 0 /\ registers' = f
      BY <1>12 DEF Run
    <3>2. Values \cup {0} \subseteq Nat
      BY NumRegsAssumption
    <3>3. f \in [RegNumber -> Nat]
      BY <3>2
    <3> QED
      BY <3>1, <3>3
  <2> QED
    BY <1>0, <1>12, <2>1 DEF SetUp, Run, Continue, options
<1>13. CASE Validate
  BY <1>0, <1>13 DEF SetUp, Validate, Exit, options, ExitCodes
<1>14. CASE UNCHANGED vars
  BY <1>14 DEF SetUp, vars, options
<1> QED
  BY <1>1, <1>2, <1>3, <1>4, <1>5, <1>6, <1>7, <1>8, <1>9, <1>10, <1>11, <1>12, <1>13, <1>14
     DEF Next

LEMMA SetUpIsTyped ==
  ASSUME SetUp
  PROVE  TypeOK
<1>1. ASSUME NEW s \in Seq(RegisterInits), NEW i \in ToSet(s)
      PROVE  i.number \in 0 .. MaxRegs - 1 /\ i.value \in Nat
  <2>1. i \in RegisterInits
    BY LenProperties DEF ToSet
  <2> QED
    BY <2>1 DEF RegisterInits
<1>2. \A file : Len(<<file>>) = 1
  OBVIOUS
<1>3. Len(<<>>) = 0
  OBVIOUS
<1>4. Len(testFile) <= 1 /\ Len(disassembly) <= 1
  <2>1. Len(testFile) \in {0, 1}
    BY <1>2, <1>3 DEF SetUp
  <2>2. Len(disassembly) \in {0, 1}
    BY <1>2, <1>3 DEF SetUp
  <2>3. \A length \in {0, 1} : length <= 1
    OBVIOUS
  <2> QED
    BY <2>1, <2>2, <2>3
<1> QED
  BY <1>1, <1>4 DEF SetUp, TypeOK, Phases

(* The initializers are numbers of registers and values, the registers are   *)
(* values with zero in x0, one test and one disassembly at most is asked     *)
(* for, and the process ends with one of its exit codes: for every command   *)
(* line.                                                                     *)
THEOREM TypeCorrect == Spec => []TypeOK
<1>1. Spec => []SetUp
  <2>1. Init => SetUp
    BY SetUpInit
  <2>2. SetUp /\ [Next]_vars => SetUp'
    BY SetUpNext
  <2> QED
    BY <2>1, <2>2, PTL DEF Spec
<1>2. SetUp => TypeOK
  BY SetUpIsTyped
<1> QED
  BY <1>1, <1>2, PTL

----------------------------------------------------------------------------
(* Where the initializers and the expected registers come from.              *)

(* The last value of each register is the same in two lists; x0 has none.    *)
SameLatest(inits, others, n) ==
  \A r, value : r # 0 =>
    (Latest(inits, Len(inits), r, value) <=> Latest(others, n, r, value))

LEMMA SameLatestNext ==
  ASSUME NEW inits \in Seq(RegisterInits), NEW others, NEW n \in Nat,
         SameLatest(inits, others, n)
  PROVE  /\ others[n + 1].number = 0 => SameLatest(inits, others, n + 1)
         /\ others[n + 1] \in RegisterInits =>
              SameLatest(Append(inits, others[n + 1]), others, n + 1)
<1> DEFINE new == others[n + 1]
           m == Len(inits)
<1>1. \A r, value : Latest(others, n + 1, r, value) <=>
                      IF new.number = r THEN new.value = value
                                          ELSE Latest(others, n, r, value)
  BY LatestNext
<1>2. \A r, value : r # 0 => (Latest(inits, m, r, value) <=> Latest(others, n, r, value))
  BY DEF SameLatest
<1>3. ASSUME new.number = 0 PROVE SameLatest(inits, others, n + 1)
  <2> HIDE DEF new
  <2> QED
    BY <1>1, <1>2, <1>3 DEF SameLatest
<1>4. ASSUME new \in RegisterInits PROVE SameLatest(Append(inits, new), others, n + 1)
  <2> DEFINE after == Append(inits, new)
  <2> HIDE DEF new
  <2>1. /\ Len(after) = m + 1 /\ after[m + 1] = new /\ m \in Nat
        /\ \A i \in 1 .. m : after[i] = inits[i]
    BY <1>4, AppendProperties, LenProperties
  <2> HIDE DEF after, m
  <2>2. \A r, value : Latest(after, m, r, value) <=> Latest(inits, m, r, value)
    BY <2>1, LatestOfSame
  <2>3. \A r, value : Latest(after, m + 1, r, value) <=>
                        IF new.number = r THEN new.value = value
                                            ELSE Latest(after, m, r, value)
    BY <2>1, LatestNext
  <2>4. SameLatest(after, others, n + 1)
    BY <1>1, <1>2, <2>1, <2>2, <2>3 DEF SameLatest
  <2> QED
    BY <2>4 DEF after
<1> QED
  BY <1>3, <1>4

(* What each option says of a register. *)
OptionInits ==
  [k \in DOMAIN commandLine.options |->
     IF commandLine.options[k].name = "r"
       THEN RegisterInit(commandLine.options[k].specifier)
       ELSE [number |-> 0, value |-> 0]]

FromOptions ==
  /\ phase = "options" => SameLatest(initializers, OptionInits, next - 1)
  /\ \/ phase = "load"
     \/ phase \in {"open", "initialize"} /\ ~IsTest
     => SameLatest(initializers, OptionInits, Len(commandLine.options))

LEMMA FromOptionsInit ==
  ASSUME Init
  PROVE  FromOptions
<1>1. initializers = <<>> /\ Len(initializers) = 0 /\ next - 1 = 0 /\ phase = "options"
  BY DEF Init
<1>2. \A f, r, value : ~Latest(f, 0, r, value)
  BY DEF Latest
<1>3. SameLatest(initializers, OptionInits, 0)
  BY <1>1, <1>2 DEF SameLatest
<1> QED
  BY <1>1, <1>3 DEF FromOptions

LEMMA FromOptionsNext ==
  ASSUME SetUp, FromOptions, [Next]_vars
  PROVE  FromOptions'
<1>0. /\ Len(commandLine.options) \in Nat
      /\ DOMAIN commandLine.options = 1 .. Len(commandLine.options)
      /\ commandLine' = commandLine => OptionInits' = OptionInits
  BY CommandLineRead DEF SetUp, OptionInits
<1>1. ASSUME phase = "options", next <= Len(commandLine.options), phase' = phase,
             next' = next + 1, commandLine' = commandLine,
             \/ Option.name # "r" /\ initializers' = initializers
             \/ /\ Option.name = "r"
                /\ initializers' = Append(initializers, RegisterInit(Option.specifier))
      PROVE  FromOptions'
  <2> DEFINE inits == OptionInits
             n == next - 1
  <2>1. n \in Nat /\ n + 1 = next /\ next \in DOMAIN commandLine.options
    BY <1>0, <1>1 DEF SetUp
  <2>2. inits[next] = IF Option.name = "r" THEN RegisterInit(Option.specifier)
                                           ELSE [number |-> 0, value |-> 0]
    BY <2>1 DEF OptionInits, Option
  <2>3. Option.name = "r" => RegisterInit(Option.specifier) \in RegisterInits
    BY <2>1, CommandLineRead DEF SetUp, Option
  <2>4. initializers \in Seq(RegisterInits) /\ SameLatest(initializers, inits, n)
    BY <1>1 DEF SetUp, FromOptions
  <2> HIDE DEF inits, n
  <2>5. /\ inits[next].number = 0 => SameLatest(initializers, inits, next)
        /\ inits[next] \in RegisterInits =>
             SameLatest(Append(initializers, inits[next]), inits, next)
    BY <2>1, <2>4, SameLatestNext
  <2>6. SameLatest(initializers', inits, next)
    <3>1. CASE Option.name # "r" /\ initializers' = initializers
      BY <2>2, <2>5, <3>1
    <3>2. CASE /\ Option.name = "r"
               /\ initializers' = Append(initializers, RegisterInit(Option.specifier))
      BY <2>2, <2>3, <2>5, <3>2
    <3> QED
      BY <1>1, <3>1, <3>2
  <2>7. next' - 1 = next /\ OptionInits' = inits /\ phase' = "options"
    BY <1>0, <1>1, <2>1 DEF inits, n
  <2> QED
    BY <2>6, <2>7 DEF FromOptions
<1>2. CASE SetFlag
  <2>1. Option.name # "r" /\ initializers' = initializers
    BY <1>2 DEF SetFlag, Reading
  <2> QED
    BY <1>1, <1>2, <2>1 DEF SetFlag, Reading, AcceptOption, Continue
<1>3. CASE AddInitializer
  <2>1. CASE RefuseOption("InvalidArgument")
    BY <2>1 DEF FromOptions, RefuseOption, Exit
  <2>2. CASE ~RefuseOption("InvalidArgument")
    BY <1>1, <1>3, <2>2 DEF AddInitializer, Reading, AcceptOption, Continue
  <2> QED
    BY <2>1, <2>2
<1>4. CASE SetTestFile
  <2>1. CASE RefuseOption("InvalidArgument")
    BY <2>1 DEF FromOptions, RefuseOption, Exit
  <2>2. CASE ~RefuseOption("InvalidArgument")
    <3>1. Option.name # "r" /\ initializers' = initializers
      BY <1>4, <2>2 DEF SetTestFile, Reading
    <3> QED
      BY <1>1, <1>4, <2>2, <3>1 DEF SetTestFile, Reading, AcceptOption, Continue
  <2> QED
    BY <2>1, <2>2
<1>5. CASE SetDisassembly
  <2>1. CASE RefuseOption("InitializationError")
    BY <2>1 DEF FromOptions, RefuseOption, Exit
  <2>2. CASE ~RefuseOption("InitializationError")
    <3>1. Option.name # "r" /\ initializers' = initializers
      BY <1>5, <2>2 DEF SetDisassembly, Reading
    <3> QED
      BY <1>1, <1>5, <2>2, <3>1 DEF SetDisassembly, Reading, AcceptOption, Continue
  <2> QED
    BY <2>1, <2>2
<1>6. CASE ShowHelp \/ Disassemble \/ NoExecutable \/ Run \/ Validate
  <2>1. phase' \in {"validate", "exited"}
    BY <1>6 DEF ShowHelp, RefuseOption, Disassemble, NoExecutable, Run, Validate, Exit,
                Continue
  <2> QED
    BY <2>1 DEF FromOptions
<1>7. CASE Launch
  <2>1. next - 1 = Len(commandLine.options)
    <3>1. next \in Nat /\ next > Len(commandLine.options)
             /\ next <= Len(commandLine.options) + 1
      BY <1>0, <1>7 DEF SetUp, Launch, OptionsRead
    <3> QED
      BY <1>0, <3>1
  <2>2. SameLatest(initializers, OptionInits, Len(commandLine.options))
    BY <1>7, <2>1 DEF FromOptions, Launch, OptionsRead
  <2>3. phase' = "load" /\ commandLine' = commandLine /\ initializers' = initializers
    BY <1>7 DEF Launch, OptionsRead, Continue
  <2> QED
    BY <1>0, <2>2, <2>3 DEF FromOptions
<1>8. CASE LoadTest
  <2>1. commandLine' = commandLine /\ (IsTest' <=> IsTest) /\ phase = "load"
          /\ phase' \in {"open", "exited"}
    BY <1>8 DEF LoadTest, IsTest, Continue, Exit
  <2>2. ~IsTest => initializers' = initializers
    BY <1>8 DEF LoadTest
  <2> QED
    BY <1>0, <2>1, <2>2 DEF FromOptions
<1>9. CASE OpenProgram \/ InitRegister
  <2>1. /\ commandLine' = commandLine /\ (IsTest' <=> IsTest)
        /\ initializers' = initializers /\ phase \in {"open", "initialize"}
        /\ phase' \in {"initialize", "exited"}
    BY <1>9 DEF OpenProgram, InitRegister, IsTest, Continue, Exit, options
  <2> QED
    BY <1>0, <2>1 DEF FromOptions
<1>10. CASE UNCHANGED vars
  BY <1>0, <1>10 DEF FromOptions, vars, options, IsTest
<1> QED
  BY <1>2, <1>3, <1>4, <1>5, <1>6, <1>7, <1>8, <1>9, <1>10 DEF Next

FromFile ==
  IsTest /\ (phase \in {"open", "initialize", "validate"} \/ outcome # "none") =>
    /\ IsTestFile(testFile[1].lines)
    /\ initializers = GetRegisters(testFile[1].lines, "pre")
    /\ postRegisters = GetRegisters(testFile[1].lines, "post")

LEMMA FromFileNext ==
  ASSUME SetUp, FromFile, [Next]_vars
  PROVE  FromFile'
<1>1. CASE SetFlag \/ AddInitializer \/ SetTestFile \/ SetDisassembly \/ ShowHelp
  <2>1. phase = "options" /\ outcome' = outcome /\ phase' \in {"options", "exited"}
    BY <1>1 DEF SetFlag, AddInitializer, SetTestFile, SetDisassembly, ShowHelp, Reading,
                AcceptOption, RefuseOption, Continue, Exit
  <2> QED
    BY <2>1 DEF FromFile, SetUp
<1>2. CASE Disassemble \/ NoExecutable \/ Launch
  <2>1. phase = "options" /\ outcome' = outcome /\ phase' \in {"load", "exited"}
    BY <1>2 DEF Disassemble, NoExecutable, Launch, OptionsRead, Continue, Exit
  <2> QED
    BY <2>1 DEF FromFile, SetUp
<1>3. CASE LoadTest
  <2>1. outcome' = "none" /\ testFile' = testFile /\ phase' \in {"open", "exited"}
    BY <1>3 DEF LoadTest, SetUp, Continue, Exit
  <2>2. CASE IsTest /\ phase' = "open"
    <3>1. /\ IsTestFile(testFile[1].lines)
          /\ initializers' = GetRegisters(testFile[1].lines, "pre")
          /\ postRegisters' = GetRegisters(testFile[1].lines, "post")
      BY <1>3, <2>2 DEF LoadTest, Exit
    <3> QED
      BY <2>1, <3>1 DEF FromFile
  <2>3. CASE ~(IsTest /\ phase' = "open")
    BY <2>1, <2>3 DEF FromFile, IsTest
  <2> QED
    BY <2>2, <2>3
<1>4. CASE OpenProgram \/ InitRegister \/ Run \/ Validate
  <2>1. /\ UNCHANGED <<testFile, initializers, postRegisters>>
        /\ phase \in {"open", "initialize", "validate"}
    BY <1>4 DEF OpenProgram, InitRegister, Run, Validate, options
  <2> QED
    BY <2>1 DEF FromFile, IsTest
<1>5. CASE UNCHANGED vars
  BY <1>5 DEF FromFile, vars, options, IsTest
<1> QED
  BY <1>1, <1>2, <1>3, <1>4, <1>5 DEF Next

----------------------------------------------------------------------------
(* The registers before the run, and the verdict behind it.                  *)

Initialized ==
  /\ phase \in {"options", "load", "open"} => \A r \in RegNumber : registers[r] = 0
  /\ phase = "initialize" =>
       \A r \in RegNumber \ {0} :
         \/ Latest(initializers, next - 1, r, registers[r])
         \/ registers[r] = 0 /\ \A i \in 1 .. next - 1 : initializers[i].number # r

LEMMA InitializedNext ==
  ASSUME SetUp, Initialized, [Next]_vars
  PROVE  Initialized'
<1>1. CASE \/ SetFlag \/ AddInitializer \/ SetTestFile \/ SetDisassembly \/ ShowHelp
           \/ Disassemble \/ NoExecutable \/ Launch \/ LoadTest
  <2>1. /\ registers' = registers /\ phase \in {"options", "load"}
        /\ phase' \in {"options", "load", "open", "exited"}
    BY <1>1 DEF SetFlag, AddInitializer, SetTestFile, SetDisassembly, ShowHelp, Reading,
                Disassemble, NoExecutable, Launch, OptionsRead, LoadTest, AcceptOption,
                RefuseOption, Continue, Exit
  <2> QED
    BY <2>1 DEF Initialized
<1>2. CASE OpenProgram
  <2>1. /\ registers' = registers /\ phase = "open" /\ next' = 1
        /\ initializers' = initializers /\ phase' \in {"initialize", "exited"}
    BY <1>2 DEF OpenProgram, SetUp, options, Continue, Exit
  <2>2. 1 .. next' - 1 = {}
    BY <2>1
  <2>3. \A r \in RegNumber : registers'[r] = 0
    BY <2>1 DEF Initialized
  <2> QED
    BY <2>1, <2>2, <2>3 DEF Initialized
<1>3. CASE InitRegister
  <2> DEFINE new == initializers[next]
             n == next - 1
  <2>1. n \in Nat /\ n + 1 = next /\ next \in 1 .. Len(initializers)
    BY <1>3, LenProperties DEF InitRegister, SetUp
  <2>2. /\ phase = "initialize" /\ initializers' = initializers
        /\ \/ new.number >= NumRegs /\ phase' = "exited"
           \/ /\ ~(new.number >= NumRegs)
              /\ phase' = phase /\ next' = next + 1
              /\ registers' = IF new.number = 0 THEN registers
                                ELSE [registers EXCEPT ![new.number] = new.value]
    BY <1>3 DEF InitRegister, Exit, Continue
  <2>3. CASE new.number >= NumRegs /\ phase' = "exited"
    BY <2>3 DEF Initialized
  <2>4. CASE /\ ~(new.number >= NumRegs)
             /\ phase' = phase /\ next' = next + 1
             /\ registers' = IF new.number = 0 THEN registers
                               ELSE [registers EXCEPT ![new.number] = new.value]
    <3>1. new \in RegisterInits
      BY <2>1, ElementOfSeq DEF SetUp
    <3>2. new.number \in RegNumber /\ registers \in [RegNumber -> Nat]
      BY <2>4, <3>1, NumRegsAssumption DEF RegisterInits, RegNumber, SetUp
    <3>3. next' - 1 = n + 1
      BY <2>1, <2>4
    <3>4. ASSUME NEW r \in RegNumber \ {0}
          PROVE  \/ Latest(initializers, n + 1, r, registers'[r])
                 \/ registers'[r] = 0
                      /\ \A i \in 1 .. n + 1 : initializers[i].number # r
      <4>1. \/ Latest(initializers, n, r, registers[r])
            \/ registers[r] = 0 /\ \A i \in 1 .. n : initializers[i].number # r
        BY <2>2, <3>4 DEF Initialized
      <4>2. initializers[n + 1] = new
        BY <2>1
      <4>3. \A value : Latest(initializers, n + 1, r, value) <=>
                         IF new.number = r THEN new.value = value
                                           ELSE Latest(initializers, n, r, value)
        BY <2>1, <4>2, LatestNext
      <4> HIDE DEF new
      <4>4. CASE new.number = r
        <5>1. registers'[r] = new.value
          BY <2>4, <3>2, <4>4
        <5> QED
          BY <4>3, <4>4, <5>1
      <4>5. CASE new.number # r
        <5>1. registers'[r] = registers[r]
          BY <2>4, <3>2, <4>5
        <5>2. \A i \in 1 .. n + 1 : i \in 1 .. n \/ i = n + 1
          BY <2>1
        <5> QED
          BY <4>1, <4>2, <4>3, <4>5, <5>1, <5>2
      <4> QED
        BY <4>4, <4>5
    <3> HIDE DEF new, n
    <3> QED
      BY <2>2, <2>4, <3>3, <3>4 DEF Initialized
  <2> QED
    BY <2>2, <2>3, <2>4
<1>4. CASE Run \/ Validate
  <2>1. phase' \in {"validate", "exited"}
    BY <1>4 DEF Run, Validate, Continue, Exit
  <2> QED
    BY <2>1 DEF Initialized
<1>5. CASE UNCHANGED vars
  BY <1>5 DEF Initialized, vars, options
<1> QED
  BY <1>1, <1>2, <1>3, <1>4, <1>5 DEF Next

Judged ==
  phase = "exited" /\ outcome # "none" /\ exitCode # "InvalidArgument" =>
    (exitCode = "Success" <=> AsExpected)

LEMMA JudgedNext ==
  ASSUME SetUp, Judged, [Next]_vars
  PROVE  Judged'
<1>1. CASE \/ SetFlag \/ AddInitializer \/ SetTestFile \/ SetDisassembly \/ ShowHelp
           \/ Disassemble \/ NoExecutable \/ Launch \/ LoadTest \/ OpenProgram
           \/ InitRegister
  <2>1. outcome' = outcome /\ phase \in {"options", "load", "open", "initialize"}
    BY <1>1 DEF SetFlag, AddInitializer, SetTestFile, SetDisassembly, ShowHelp, Reading,
                Disassemble, NoExecutable, Launch, OptionsRead, LoadTest, OpenProgram,
                InitRegister
  <2> QED
    BY <2>1 DEF SetUp, Judged
<1>2. CASE Run
  BY <1>2 DEF Run, Continue, Judged
<1>3. CASE Validate
  <2>1. (AsExpected' <=> AsExpected)
    BY <1>3 DEF Validate, AsExpected
  <2>2. exitCode' = "InvalidArgument"
          \/ exitCode' = IF AsExpected THEN "Success" ELSE "UnitTestFailed"
    BY <1>3 DEF Validate, Exit
  <2> QED
    BY <2>1, <2>2 DEF Judged
<1>4. CASE UNCHANGED vars
  BY <1>4 DEF Judged, AsExpected, vars, options
<1> QED
  BY <1>1, <1>2, <1>3, <1>4 DEF Next

Inv == SetUp /\ FromOptions /\ FromFile /\ Initialized /\ Judged

LEMMA InvInit ==
  ASSUME Init
  PROVE  Inv
<1>1. FromFile /\ Initialized /\ Judged
  BY DEF Init, FromFile, Initialized, Judged, IsTest
<1> QED
  BY <1>1, SetUpInit, FromOptionsInit DEF Inv

LEMMA InvNext ==
  ASSUME Inv, [Next]_vars
  PROVE  Inv'
BY SetUpNext, FromOptionsNext, FromFileNext, InitializedNext, JudgedNext DEF Inv

LEMMA AlwaysInv == Spec => []Inv
<1>1. Init => Inv
  BY InvInit
<1>2. Inv /\ [Next]_vars => Inv'
  BY InvNext
<1> QED
  BY <1>1, <1>2, PTL DEF Spec

(* The registers a section of the test of a run names. *)
LEMMA TestRegisters ==
  ASSUME Inv, IsTest, phase \in {"initialize", "validate"} \/ outcome # "none",
         NEW section \in {"pre", "post"}
  PROVE  LET lines == testFile[1].lines
             given == IF section = "pre" THEN initializers ELSE postRegisters IN
           /\ \A i \in ToSet(given) :
                \E k \in LinesOf(lines, section) :
                  i.number = NumberOf(lines[k]) /\ i.value = lines[k].value
           /\ \A k \in LinesOf(lines, section) :
                \E i \in ToSet(given) :
                  i.number = NumberOf(lines[k]) /\ i.value = lines[k].value
<1> DEFINE lines == testFile[1].lines
<1>1. Lines(lines, Len(lines)) /\ Len(lines) \in Nat
  BY TestRead DEF Inv
<1>2. /\ IsTestFile(lines)
      /\ initializers = GetRegisters(lines, "pre")
      /\ postRegisters = GetRegisters(lines, "post")
  BY DEF Inv, FromFile
<1> HIDE DEF lines
<1>3. /\ \A i \in ToSet(GetRegisters(lines, section)) :
           \E k \in LinesOf(lines, section) :
             i.number = NumberOf(lines[k]) /\ i.value = lines[k].value
      /\ \A k \in LinesOf(lines, section) :
           \E i \in ToSet(GetRegisters(lines, section)) :
             i.number = NumberOf(lines[k]) /\ i.value = lines[k].value
  BY <1>1, <1>2, RegistersOfSection
<1> QED
  BY <1>2, <1>3 DEF lines

(* A unit test that was run exits with success exactly if every register the *)
(* section "post" of its file names has the value it gives: for every file,  *)
(* every command line and everything the program may leave in the registers. *)
THEOREM UnitTestVerdict == Spec => []VerdictIsRight
<1>1. ASSUME Inv, Tested, exitCode # "InvalidArgument"
      PROVE  exitCode = "Success" <=>
               \A k \in LinesOf(testFile[1].lines, "post") :
                 registers[NumberOf(testFile[1].lines[k])] = testFile[1].lines[k].value
  <2>1. phase = "exited" /\ outcome # "none" /\ IsTest
    BY <1>1 DEF Inv, SetUp, Tested
  <2>2. exitCode = "Success" <=> \A i \in ToSet(postRegisters) : i.value = registers[i.number]
    BY <1>1, <2>1 DEF Inv, Judged, AsExpected
  <2> DEFINE lines == testFile[1].lines
  <2>3. /\ \A i \in ToSet(postRegisters) :
             \E k \in LinesOf(lines, "post") :
               i.number = NumberOf(lines[k]) /\ i.value = lines[k].value
        /\ \A k \in LinesOf(lines, "post") :
             \E i \in ToSet(postRegisters) :
               i.number = NumberOf(lines[k]) /\ i.value = lines[k].value
    BY <1>1, <2>1, TestRegisters
  <2> HIDE DEF lines
  <2>4. exitCode = "Success" <=>
          \A k \in LinesOf(lines, "post") : registers[NumberOf(lines[k])] = lines[k].value
    BY <2>2, <2>3
  <2> QED
    BY <2>4 DEF lines
<1>2. Inv => VerdictIsRight
  BY <1>1 DEF VerdictIsRight
<1> QED
  BY <1>2, AlwaysInv, PTL

(* When the run starts every register but x0 has a value it was asked to     *)
(* have, or zero if it was not asked for at all: the section "pre" of the    *)
(* test alone, or the last option -r for it, of as many as there are.        *)
THEOREM RunStart == Spec => []RunStartsAsAsked
<1>1. ASSUME Inv, phase = "initialize", next > Len(initializers), NEW r \in RegNumber \ {0}
      PROVE  \/ Asked(r, registers[r])
             \/ registers[r] = 0 /\ \A value \in Values : ~Asked(r, value)
  <2> DEFINE n == Len(initializers)
  <2>1. n \in Nat /\ next - 1 = n /\ DOMAIN initializers = 1 .. n
    BY <1>1, LenProperties DEF Inv, SetUp
  <2>2. \/ Latest(initializers, n, r, registers[r])
        \/ registers[r] = 0 /\ \A i \in 1 .. n : initializers[i].number # r
    BY <1>1, <2>1 DEF Inv, Initialized
  <2> HIDE DEF n
  <2>3. CASE IsTest
    <3> DEFINE lines == testFile[1].lines
    <3>1. /\ \A i \in ToSet(initializers) :
               \E k \in LinesOf(lines, "pre") :
                 i.number = NumberOf(lines[k]) /\ i.value = lines[k].value
          /\ \A k \in LinesOf(lines, "pre") :
               \E i \in ToSet(initializers) :
                 i.number = NumberOf(lines[k]) /\ i.value = lines[k].value
      BY <1>1, <2>3, TestRegisters
    <3>2. \A value : Asked(r, value) <=>
            \E k \in LinesOf(lines, "pre") : NumberOf(lines[k]) = r /\ lines[k].value = value
      BY <2>3 DEF Asked
    <3> HIDE DEF lines
    <3>3. \A value : Asked(r, value) <=>
            \E i \in 1 .. n : initializers[i].number = r /\ initializers[i].value = value
      BY <2>1, <3>1, <3>2 DEF ToSet
    <3> QED
      BY <2>2, <3>3 DEF Latest
  <2>4. CASE ~IsTest
    <3> DEFINE m == Len(commandLine.options)
    <3>1. m \in Nat /\ DOMAIN commandLine.options = 1 .. m
      BY <1>1, CommandLineRead DEF Inv, SetUp
    <3>2. r \in Nat /\ r # 0
      BY NumRegsAssumption DEF RegNumber
    <3>3. \A value : Latest(initializers, n, r, value) <=> Latest(OptionInits, m, r, value)
      BY <1>1, <2>4, <3>2 DEF Inv, FromOptions, SameLatest, n
    <3>4. \A k \in 1 .. m : LET o == commandLine.options[k] IN
            /\ OptionInits[k].number = r <=>
                 /\ o.name = "r" /\ o.specifier.form = "matches"
                 /\ o.specifier.number = r
            /\ OptionInits[k].number = r => OptionInits[k].value = o.specifier.value
      BY <3>1, <3>2 DEF OptionInits, RegisterInit
    <3>5. \A value : Asked(r, value) <=> Latest(OptionInits, m, r, value)
      <4> HIDE DEF m
      <4>1. \A value : Asked(r, value) <=>
              \E k \in 1 .. m : LET o == commandLine.options IN
                /\ o[k].name = "r" /\ o[k].specifier.form = "matches"
                /\ o[k].specifier.number = r /\ o[k].specifier.value = value
                /\ \A j \in k + 1 .. m :
                     ~(o[j].name = "r" /\ o[j].specifier.form = "matches"
                         /\ o[j].specifier.number = r)
        BY <2>4, <3>1 DEF Asked, m
      <4>2. \A k \in 1 .. m : \A j \in k + 1 .. m : j \in 1 .. m
        BY <3>1
      <4> QED
        BY <3>4, <4>1, <4>2 DEF Latest
    <3>6. ASSUME \A i \in 1 .. n : initializers[i].number # r, NEW value
          PROVE  ~Asked(r, value)
      BY <3>3, <3>5, <3>6 DEF Latest
    <3> QED
      BY <2>2, <3>3, <3>5, <3>6
  <2> QED
    BY <2>3, <2>4
<1>2. Inv => RunStartsAsAsked
  BY <1>1 DEF RunStartsAsAsked
<1> QED
  BY <1>2, AlwaysInv, PTL
=============================================================================
