------------------------- MODULE FramebufferProofs -------------------------
(***************************************************************************)
(* What holds of the framebuffer for every program, size of the window,     *)
(* palette and user.                                                        *)
(***************************************************************************)
EXTENDS Framebuffer, NumberProofs

(* The context is a RenderContext, with a picture of at least one pixel. *)
IsContext(c) ==
  /\ c = [mem |-> c.mem, changed |-> c.changed, mode |-> c.mode, resx |-> c.resx,
          resy |-> c.resy]
  /\ c.changed \in BOOLEAN
  /\ c.resx \in Nat \ {0} /\ c.resy \in Nat \ {0}

ContextInv == active_window => IsContext(context)

ControlInv ==
  /\ control = [enable |-> control.enable, mode |-> control.mode, resx |-> control.resx,
                resy |-> control.resy]
  /\ control.mode \in Nat /\ control.resx \in Nat /\ control.resy \in Nat

(* The properties alone are not inductive: a window of no pixels would show  *)
(* the same as no window, and a context is only known to be one while there  *)
(* is a window.                                                              *)
IInv ==
  /\ active_window \in BOOLEAN
  /\ ContextInv
  /\ ControlInv
  /\ WindowConsistent
  /\ ShownIsCurrent

----------------------------------------------------------------------------
(* A picture of at least one pixel is not the absence of a window. *)
LEMMA PictureIsShown ==
  ASSUME NEW x \in Nat \ {0}, NEW y \in Nat \ {0}
  PROVE  \A f : DOMAIN f = 0 .. x * y - 1 => f # NoScreen
<1>1. x * y \in Nat /\ x * y > 0
  OBVIOUS
<1>2. 0 \in 0 .. x * y - 1
  BY <1>1
<1> QED
  BY <1>2 DEF NoScreen

(* A context is no null pointer, and stays a context however it is marked. *)
LEMMA ContextExists ==
  ASSUME NEW c, IsContext(c), NEW mark \in BOOLEAN
  PROVE  c # NoContext /\ IsContext([c EXCEPT !.changed = mark])
  BY DEF IsContext, NoContext

(* What is drawn does not depend on the mark. *)
LEMMA MarkIsNotDrawn ==
  ASSUME NEW c, IsContext(c), NEW mark, NEW colors
  PROVE  Rendered([c EXCEPT !.changed = mark], colors) = Rendered(c, colors)
<1> DEFINE d == [c EXCEPT !.changed = mark]
<1>1. d.mem = c.mem /\ d.mode = c.mode /\ d.resx = c.resx /\ d.resy = c.resy
  BY DEF IsContext
<1>2. \A n : Pixel(d, colors, n) = Pixel(c, colors, n)
  BY <1>1 DEF Pixel
<1> QED
  BY <1>1, <1>2 DEF Rendered

(* The program writes the registers at their own addresses. *)
LEMMA ControlAddress ==
  ASSUME NEW access \in Accesses, AccessTo(access[1], access[2], "CONTROL")
  PROVE  /\ access[1] - control_base \in {0, 4, 8, 12}
         /\ access[1] # control_base =>
              ControlRegister[access[1] - control_base] \in {"mode", "resx", "resy"}
<1> DEFINE addr == access[1]
           size == access[2]
<1>1. addr \in Nat /\ size \in {1, 2, 4, 8}
  BY ProgramAssumption
<1>2. GetZone(addr, size) = "CONTROL"
  BY DEF AccessTo
<1>3. addr >= control_base /\ size = 4 /\ addr % 4 = 0 /\ addr - control_base < ControlSize
  <2> DEFINE own == addr >= control_base
                      /\ addr + size <= control_base + ControlSize + PaletteSize
             refused == size > 0 /\ (size # 4 \/ addr % 4 # 0)
             low == addr - control_base < ControlSize
  <2>1. own
    <3>1. SUFFICES ASSUME ~own PROVE FALSE
      OBVIOUS
    <3>2. GetZone(addr, size) \in {"INVALID", "IllegalAccess", "BUFFER"}
      BY <3>1, Zenon DEF GetZone
    <3> QED
      BY <1>2, <3>2
  <2>2. GetZone(addr, size) = IF refused THEN "IllegalAccess"
                              ELSE IF low THEN "CONTROL" ELSE "PALETTE"
    BY <2>1, Zenon DEF GetZone
  <2> HIDE DEF own, refused, low
  <2>3. ~refused /\ low
    BY <1>2, <2>2
  <2> QED
    BY <1>1, <2>1, <2>3 DEF own, refused, low
<1>4. addr - control_base \in {0, 4, 8, 12}
  BY <1>1, <1>3, DeviceAssumption DEF ControlSize
<1>5. /\ ControlRegister[4] = "mode"
      /\ ControlRegister[8] = "resx"
      /\ ControlRegister[12] = "resy"
  BY DEF ControlRegister
<1>6. addr # control_base => addr - control_base # 0
  BY <1>1, DeviceAssumption
<1> QED
  BY <1>4, <1>5, <1>6

(* A window is closed with everything that says there is one. *)
LEMMA CloseWindowPreserves ==
  ASSUME ControlInv, CloseWindow, phase' = phase
  PROVE  IInv'
  BY DEF ControlInv, CloseWindow, IInv, ContextInv, WindowConsistent, ShownIsCurrent, NoContext

(* A window is opened with everything that says there is one. *)
LEMMA OpenWindowPreserves ==
  ASSUME ControlInv, OpenWindow, control.resx > 0, control.resy > 0, phase' = "running"
  PROVE  IInv'
<1>1. active_window' = TRUE /\ context'.changed = TRUE
  BY DEF OpenWindow
<1>2. IsContext(context')
  BY DEF OpenWindow, ControlInv, IsContext
<1>3. ControlInv'
  BY DEF OpenWindow, ControlInv
<1>4. context' # NoContext
  BY <1>2, ContextExists
<1>5. screen' # NoScreen
  <2>1. control.resx \in Nat \ {0} /\ control.resy \in Nat \ {0}
    BY DEF ControlInv
  <2>2. DOMAIN screen' = 0 .. control.resx * control.resy - 1
    BY DEF OpenWindow, Blank
  <2> QED
    BY <2>1, <2>2, PictureIsShown
<1>6. control'.enable = 1
  BY DEF OpenWindow, ControlInv
<1> QED
  BY <1>1, <1>2, <1>3, <1>4, <1>5, <1>6
     DEF IInv, ContextInv, WindowConsistent, ShownIsCurrent

(* What a refresh does, whether it draws or closes the window. *)
LEMMA ProcessEventsPreserves ==
  ASSUME IInv, ProcessEvents(TRUE), phase' = phase, palette' = palette
  PROVE  IInv'
<1>1. CASE ~active_window
  BY <1>1 DEF ProcessEvents, IInv, ContextInv, ControlInv, IsContext, WindowConsistent,
              ShownIsCurrent
<1>2. CASE active_window /\ QuitReleased
  BY <1>2, CloseWindowPreserves DEF ProcessEvents, IInv
<1>3. CASE active_window /\ ~QuitReleased
  <2>1. /\ screen' = Rendered(context, palette)
        /\ context' = [context EXCEPT !.changed = FALSE]
        /\ UNCHANGED <<active_window, control>>
    BY <1>3 DEF ProcessEvents, Draws
  <2>2. IsContext(context)
    BY <1>3 DEF IInv, ContextInv
  <2>3. context' # NoContext /\ IsContext(context')
    BY <2>1, <2>2, ContextExists
  <2>4. screen' = Rendered(context', palette')
    BY <2>1, <2>2, MarkIsNotDrawn
  <2>5. screen' # NoScreen
    BY <2>1, <2>2, PictureIsShown DEF Rendered, IsContext
  <2>6. ControlInv'
    BY <2>1 DEF IInv, ControlInv
  <2> QED
    BY <1>3, <2>1, <2>3, <2>4, <2>5, <2>6
       DEF IInv, ContextInv, WindowConsistent, ShownIsCurrent
<1> QED
  BY <1>1, <1>2, <1>3 DEF IInv

(* A step that draws nothing and marks the context, if there is one. *)
LEMMA MarkingPreserves ==
  ASSUME IInv, UNCHANGED <<active_window, control, screen, phase>>,
         active_window => IsContext(context') /\ context'.changed = TRUE,
         ~active_window => context' = context
  PROVE  IInv'
<1>1. active_window => context' # NoContext
  BY ContextExists
<1> QED
  BY <1>1 DEF IInv, ContextInv, ControlInv, WindowConsistent, ShownIsCurrent

(* Whatever the program writes. *)
LEMMA AccessPreserves ==
  ASSUME IInv, NEW access \in Accesses, Access(access[1], access[2])
  PROVE  IInv'
<1> DEFINE addr == access[1]
           size == access[2]
<1>1. CASE Refuse(addr, size)
  BY <1>1 DEF Refuse, IInv, ContextInv, ControlInv, IsContext, WindowConsistent, ShownIsCurrent
<1>2. ASSUME AccessTo(addr, size, "CONTROL"),
             NEW value \in ControlValues[ControlRegister[addr - control_base]],
             \/ Enable(addr, value)
             \/ WindowRefused(addr, value)
             \/ WindowHalfOpen(addr, value)
             \/ Disable(addr, value)
             \/ WriteControl(addr, value)
      PROVE  IInv'
  <2>1. CASE Enable(addr, value)
    BY <1>2, <2>1, OpenWindowPreserves DEF Enable, IInv, AccessTo
  <2>2. CASE WindowRefused(addr, value)
    BY <2>2 DEF WindowRefused, IInv, ContextInv, ControlInv, IsContext, WindowConsistent,
                ShownIsCurrent
  <2>5. CASE WindowHalfOpen(addr, value)
    BY <2>5 DEF WindowHalfOpen, IInv, ContextInv, ControlInv, IsContext, WindowConsistent,
                ShownIsCurrent
  <2>3. CASE Disable(addr, value)
    BY <2>3, CloseWindowPreserves DEF Disable, IInv
  <2>4. CASE WriteControl(addr, value)
    <3>1. ControlRegister[addr - control_base] \in {"mode", "resx", "resy"}
      BY <1>2, <2>4, ControlAddress DEF WriteControl
    <3>2. value \in Nat
      BY <1>2, <3>1, ProgramAssumption
    <3>3. ControlInv' /\ control'.enable = control.enable
      BY <2>4, <3>1, <3>2 DEF WriteControl, IInv, ControlInv
    <3> QED
      BY <2>4, <3>3 DEF WriteControl, IInv, ContextInv, IsContext, WindowConsistent,
                        ShownIsCurrent
  <2> QED
    BY <1>2, <2>1, <2>2, <2>3, <2>4, <2>5
<1>3. ASSUME NEW color \in Color, WritePalette(addr, size, color)
      PROVE  IInv'
  <2>1. active_window => IsContext(context') /\ context'.changed = TRUE
    BY <1>3, ContextExists DEF WritePalette, Marked, IInv, ContextInv, IsContext
  <2> QED
    BY <1>3, <2>1, MarkingPreserves DEF WritePalette, Marked
<1>4. ASSUME NEW byte \in Byte, WriteBuffer(addr, size, byte)
      PROVE  IInv'
  <2>1. active_window
    BY <1>4 DEF WriteBuffer, AccessTo, GetZone, IInv
  <2>2. IsContext(context') /\ context'.changed = TRUE
    BY <1>4, <2>1 DEF WriteBuffer, IInv, ContextInv, IsContext
  <2> QED
    BY <1>4, <2>1, <2>2, MarkingPreserves DEF WriteBuffer
<1> QED
  BY <1>1, <1>2, <1>3, <1>4 DEF Access

(* Before the first step there is no window. *)
LEMMA IInvInitially ==
  Init => IInv
<1> SUFFICES ASSUME Init
             PROVE  IInv
  OBVIOUS
<1>1. ~active_window /\ ContextInv /\ ShownIsCurrent
  BY DEF Init, ContextInv, ShownIsCurrent
<1>2. ControlInv
  BY DEF Init, ControlInv
<1>3. WindowConsistent
  BY DEF Init, WindowConsistent
<1> QED
  BY <1>1, <1>2, <1>3 DEF Init, IInv

(* Every step of the program, the user, the processor and the destructor. *)
LEMMA IInvPreserved ==
  IInv /\ [Next]_vars => IInv'
<1> SUFFICES ASSUME IInv, [Next]_vars
             PROVE  IInv'
  OBVIOUS
<1> USE DEF IInv, ContextInv, ControlInv, IsContext, WindowConsistent, ShownIsCurrent
<1>1. CASE \E access \in Accesses : Access(access[1], access[2])
  BY <1>1, AccessPreserves
<1>2. CASE RunEnds
  BY <1>2 DEF RunEnds
<1>3. ASSUME NEW key \in Key, ReleaseKey(key)
      PROVE  IInv'
  BY <1>3 DEF ReleaseKey
<1>4. CASE ClockPulse
  <2>1. CASE UpdateDue
    BY <1>4, <2>1, ProcessEventsPreserves DEF ClockPulse
  <2>2. CASE ~UpdateDue
    BY <1>4, <2>2 DEF ClockPulse
  <2> QED
    BY <2>1, <2>2
<1>5. CASE WaitForQuit
  BY <1>5, ProcessEventsPreserves DEF WaitForQuit
<1>6. CASE Destroy
  BY <1>6 DEF Destroy
<1>7. CASE UNCHANGED vars
  BY <1>7 DEF vars
<1> QED
  BY <1>1, <1>2, <1>3, <1>4, <1>5, <1>6, <1>7 DEF Next

(* active_window, the context and the register enable agree and only say     *)
(* there is a window if SDL shows one, whoever opened or closed it: writes of *)
(* the program, a constructor that throws before or after SDL opened the     *)
(* window, the handling of keys and the destructor in framebuffer.cc.  A     *)
(* window without a context is only there between a failed constructor and    *)
(* SDL_Quit.                                                                 *)
THEOREM WindowAlwaysConsistent == Spec => []WindowConsistent
<1>1. IInv => WindowConsistent
  BY DEF IInv
<1> QED
  BY IInvInitially, IInvPreserved, <1>1, PTL DEF Spec

(* A window whose context is not marked shows its memory in the present      *)
(* palette: every write of framebuffer.cc that changes either marks it.      *)
THEOREM ShownAlwaysCurrent == Spec => []ShownIsCurrent
<1>1. IInv => ShownIsCurrent
  BY DEF IInv
<1> QED
  BY IInvInitially, IInvPreserved, <1>1, PTL DEF Spec

----------------------------------------------------------------------------
(* The keys of a refresh.                                                    *)

(* The greatest place of a beginning of a sequence. *)
LEMMA LastPlace ==
  ASSUME NEW n \in Nat, NEW t, t \subseteq 1 .. n + 1, n + 1 \in t
  PROVE  Seqs!Max(t) = n + 1
<1>1. \A x \in t : x \in Int /\ x <= n + 1
  OBVIOUS
<1>2. \A x \in t : (\A y \in t : x >= y) <=> x = n + 1
  BY <1>1
<1> QED
  BY <1>2 DEF Seqs!Max

(* The frequencies after each of n keys. *)
KeyByKey(after, freq, keys, n) ==
  /\ FreqAfterAll(freq, keys) = after[n]
  /\ after[0] = freq
  /\ \A k \in 1 .. n : after[k] = FreqAfter(after[k - 1], keys[k])

(* FoldLeft goes through a sequence place by place. *)
LEMMA FrequencyByKey ==
  ASSUME NEW keys, NEW freq, NEW n \in Nat, DOMAIN keys = 1 .. n
  PROVE  \E after : KeyByKey(after, freq, keys, n)
<1> DEFINE One(f, t) ==
             IF t = {} THEN freq ELSE FreqAfter(f[t \ {Seqs!Max(t)}], keys[Seqs!Max(t)])
           IsFold(f, k) == f = [t \in SUBSET (1 .. k) |-> One(f, t)]
           Missing == {k \in 0 .. n : ~\E f : IsFold(f, k)}
           fold == CHOOSE f : IsFold(f, n)
<1>1. \E f : IsFold(f, 0)
  <2> DEFINE f == [t \in SUBSET (1 .. 0) |-> freq]
  <2>1. \A t \in SUBSET (1 .. 0) : t = {}
    OBVIOUS
  <2>2. [t \in SUBSET (1 .. 0) |-> One(f, t)] = [t \in SUBSET (1 .. 0) |-> freq]
    BY <2>1
  <2>3. IsFold(f, 0)
    BY <2>2
  <2> QED
    BY <2>3
<1>2. ASSUME NEW k \in 0 .. n - 1, NEW f, IsFold(f, k)
      PROVE  \E g : IsFold(g, k + 1)
  <2> DEFINE g == [t \in SUBSET (1 .. k + 1) |->
                     IF k + 1 \in t THEN FreqAfter(f[t \ {k + 1}], keys[k + 1]) ELSE f[t]]
  <2>1. ASSUME NEW t \in SUBSET (1 .. k + 1), k + 1 \in t PROVE g[t] = One(g, t)
    <3>1. Seqs!Max(t) = k + 1
      <4>1. k \in Nat /\ t \subseteq 1 .. k + 1
        OBVIOUS
      <4> HIDE DEF One, IsFold, g
      <4> QED
        BY <2>1, <4>1, LastPlace
    <3>2. t \ {k + 1} \in SUBSET (1 .. k + 1) /\ k + 1 \notin t \ {k + 1}
      BY <2>1
    <3>3. g[t \ {k + 1}] = f[t \ {k + 1}]
      BY <3>2
    <3> QED
      BY <2>1, <3>1, <3>3
  <2>2. ASSUME NEW t \in SUBSET (1 .. k + 1), k + 1 \notin t PROVE g[t] = One(g, t)
    <3>1. t \in SUBSET (1 .. k) /\ \A x : t \ {x} \in SUBSET (1 .. k)
      <4>1. \A i \in 1 .. k + 1 : i # k + 1 => i \in 1 .. k
        OBVIOUS
      <4>2. \A i \in t : i \in 1 .. k
        BY <2>2, <4>1
      <4> QED
        BY <4>2
    <3>2. g[t] = f[t]
      BY <2>2
    <3>3. f[t] = One(f, t)
      <4>1. f = [u \in SUBSET (1 .. k) |-> One(f, u)]
        BY <1>2
      <4> HIDE DEF One
      <4> QED
        BY <3>1, <4>1
    <3>4. \A x : g[t \ {x}] = f[t \ {x}]
      <4>1. \A x : t \ {x} \in SUBSET (1 .. k + 1) /\ k + 1 \notin t \ {x}
        BY <2>2
      <4> QED
        BY <4>1
    <3> HIDE DEF g
    <3> QED
      BY <3>2, <3>3, <3>4
  <2>3. g = [t \in SUBSET (1 .. k + 1) |-> g[t]]
    OBVIOUS
  <2> HIDE DEF g
  <2>4. IsFold(g, k + 1)
    <3>1. \A t \in SUBSET (1 .. k + 1) : g[t] = One(g, t)
      BY <2>1, <2>2
    <3> HIDE DEF One
    <3> QED
      BY <2>3, <3>1
  <2> QED
    BY <2>4
<1>3. \E f : IsFold(f, n)
  <2> HIDE DEF IsFold
  <2>1. Missing = {}
    <3> SUFFICES ASSUME Missing # {} PROVE FALSE
      OBVIOUS
    <3>1. PICK k \in Missing : \A l \in Missing : k <= l
      <4>1. Missing \in SUBSET Nat
        OBVIOUS
      <4> HIDE DEF Missing
      <4> QED
        BY <4>1, LeastNumber
    <3>2. k # 0 /\ k \in 0 .. n /\ ~\E f : IsFold(f, k)
      BY <1>1
    <3>3. k - 1 \in 0 .. n - 1 /\ k - 1 \notin Missing /\ (k - 1) + 1 = k
      BY <3>1, <3>2
    <3>4. \E f : IsFold(f, k - 1)
      BY <3>3
    <3> QED
      BY <1>2, <3>2, <3>3, <3>4
  <2> QED
    BY <2>1
<1>4. IsFold(fold, n)
  <2> HIDE DEF IsFold
  <2> QED
    BY <1>3
<1>5. FreqAfterAll(freq, keys) = fold[1 .. n]
  BY DEF FreqAfterAll, Seqs!FoldLeft, Seqs!MapThenFoldSet
<1> HIDE DEF fold
<1> DEFINE after == [k \in 0 .. n |-> fold[1 .. k]]
<1>6. \A t \in SUBSET (1 .. n) : fold[t] = One(fold, t)
  <2> HIDE DEF One
  <2> QED
    BY <1>4
<1>7. after[0] = freq
  <2>1. 1 .. 0 = {} /\ 0 \in 0 .. n /\ {} \in SUBSET (1 .. n)
    OBVIOUS
  <2>2. fold[{}] = freq
    BY <1>6, <2>1
  <2> QED
    BY <2>1, <2>2
<1>8. ASSUME NEW k \in 1 .. n PROVE after[k] = FreqAfter(after[k - 1], keys[k])
  <2>1. /\ 1 .. k \in SUBSET (1 .. n) /\ 1 .. k # {} /\ (1 .. k) \ {k} = 1 .. k - 1
        /\ k - 1 \in Nat /\ (k - 1) + 1 = k /\ k \in 1 .. k
    OBVIOUS
  <2>2. Seqs!Max(1 .. k) = k
    BY <2>1, LastPlace
  <2>3. fold[1 .. k] = FreqAfter(fold[1 .. k - 1], keys[k])
    BY <1>6, <2>1, <2>2
  <2> QED
    BY <2>3
<1>9. after[n] = fold[1 .. n]
  OBVIOUS
<1> HIDE DEF after
<1> QED
  BY <1>5, <1>7, <1>8, <1>9 DEF KeyByKey

(* The keys step through the rates of a scale and do not leave it: in the     *)
(* code the powers of ten from 10 to 10^7. *)
IsScale(rates) ==
  /\ rates \subseteq MinFreq .. MaxFreq
  /\ InitialFreq \in rates
  /\ \A freq \in rates :
       /\ freq > MinFreq => freq \div FreqStep \in rates
       /\ freq < MaxFreq => freq * FreqStep \in rates

(* All keys of a refresh lead from a rate of the scale to one. *)
LEMMA KeysKeepScale ==
  ASSUME NEW rates, IsScale(rates), NEW freq \in rates, NEW keys \in Seq(Key)
  PROVE  FreqAfterAll(freq, keys) \in rates
<1> DEFINE n == Len(keys)
<1>1. n \in Nat /\ DOMAIN keys = 1 .. n
  OBVIOUS
<1> HIDE DEF n
<1>2. PICK after : KeyByKey(after, freq, keys, n)
  BY <1>1, FrequencyByKey
<1>3. \A f \in rates : \A key : FreqAfter(f, key) \in rates
  BY DEF IsScale, FreqAfter
<1> DEFINE Left == {k \in 0 .. n : after[k] \notin rates}
<1>4. Left = {}
  <2> SUFFICES ASSUME Left # {} PROVE FALSE
    OBVIOUS
  <2>1. PICK k \in Left : \A l \in Left : k <= l
    <3>1. Left \in SUBSET Nat
      OBVIOUS
    <3> HIDE DEF Left
    <3> QED
      BY <3>1, LeastNumber
  <2>2. k \in 0 .. n /\ k # 0
    BY <1>2, <2>1 DEF KeyByKey
  <2>3. k \in 1 .. n /\ k - 1 \in 0 .. n /\ ~(k <= k - 1)
    BY <1>1, <2>2
  <2>4. k - 1 \notin Left
    BY <2>1, <2>3
  <2>5. after[k] = FreqAfter(after[k - 1], keys[k])
    BY <1>2, <2>3 DEF KeyByKey
  <2>6. after[k - 1] \in rates /\ after[k] \notin rates
    BY <2>1, <2>3, <2>4
  <2> QED
    BY <1>3, <2>5, <2>6
<1>5. after[n] \in rates
  BY <1>1, <1>4
<1> QED
  BY <1>2, <1>5 DEF KeyByKey

----------------------------------------------------------------------------
(* Types.                                                                    *)

(* A window was opened in a mode there is, which keeps the size of its memory *)
(* a number, and the frequency is one of the scale. *)
TypeInv(rates) ==
  /\ IInv
  /\ TypeOK
  /\ update_freq \in rates
  /\ active_window => context.mode \in Nat /\ IsMode(context.mode)

(* The memory of a window has a number of bytes. *)
LEMMA MemsizeType ==
  ASSUME NEW mode \in Nat, IsMode(mode), NEW resx \in Nat, NEW resy \in Nat
  PROVE  Memsize(mode, resx, resy) \in Nat
<1>1. mode \in 0 .. 5
  BY DEF IsMode, mem_mult
<1>2. PixelBytes(mode) \in Nat
  BY <1>1 DEF PixelBytes, mem_mult
<1>3. resx * resy \in Nat
  OBVIOUS
<1> QED
  BY <1>2, <1>3 DEF Memsize

(* The memory of an open window, marked or not, is that of the window. *)
LEMMA MarkKeepsMemory ==
  ASSUME NEW c, IsContext(c), NEW mark
  PROVE  LET d == [c EXCEPT !.changed = mark] IN
           d.mem = c.mem /\ d.mode = c.mode /\ d.resx = c.resx /\ d.resy = c.resy
  BY DEF IsContext

(* The access of a program keeps the types. *)
LEMMA AccessKeepsTypes ==
  ASSUME NEW rates, IsScale(rates), TypeInv(rates),
         NEW access \in Accesses, Access(access[1], access[2])
  PROVE  TypeInv(rates)'
<1> DEFINE addr == access[1]
           size == access[2]
<1>1. IInv'
  BY AccessPreserves DEF TypeInv
<1>2. addr \in Nat /\ size \in {1, 2, 4, 8}
  BY ProgramAssumption
<1>3. update_freq \in MinFreq .. MaxFreq /\ MinFreq \in Nat /\ MaxFreq \in Nat
  BY FreqAssumption DEF TypeInv, TypeOK
<1>4. CASE Refuse(addr, size)
  BY <1>1, <1>3, <1>4 DEF Refuse, TypeInv, TypeOK, Phase, Memsize, PixelBytes
<1>5. ASSUME AccessTo(addr, size, "CONTROL"),
             NEW value \in ControlValues[ControlRegister[addr - control_base]],
             \/ Enable(addr, value)
             \/ WindowRefused(addr, value)
             \/ WindowHalfOpen(addr, value)
             \/ Disable(addr, value)
             \/ WriteControl(addr, value)
      PROVE  TypeInv(rates)'
  <2>1. CASE Enable(addr, value)
    <3>1. /\ control.mode \in Nat /\ control.resx \in Nat /\ control.resy \in Nat
          /\ IsMode(control.mode) /\ OpenWindow
          /\ UNCHANGED <<update_freq, cycles_since_update, palette, events, phase>>
      BY <2>1 DEF Enable, TypeInv, IInv, ControlInv
    <3>2. Memsize(control.mode, control.resx, control.resy) \in Nat
      BY <3>1, MemsizeType
    <3>3. /\ context'.mode = control.mode /\ context'.resx = control.resx
          /\ context'.resy = control.resy
          /\ context'.mem \in [0 .. Memsize(control.mode, control.resx, control.resy) - 1 -> Byte]
      BY <3>1, <3>2, FreqAssumption DEF OpenWindow
    <3>4. DOMAIN control' = DOMAIN control /\ active_window' = TRUE
      BY <3>1 DEF OpenWindow
    <3> QED
      BY <1>1, <3>1, <3>3, <3>4 DEF TypeInv, TypeOK, Memsize, PixelBytes
  <2>2. CASE WindowRefused(addr, value)
    BY <1>1, <1>3, <2>2 DEF WindowRefused, TypeInv, TypeOK, Phase, Memsize, PixelBytes
  <2>5. CASE WindowHalfOpen(addr, value)
    BY <1>1, <1>3, <2>5 DEF WindowHalfOpen, TypeInv, TypeOK, Phase, Memsize, PixelBytes
  <2>3. CASE Disable(addr, value)
    BY <1>1, <2>3 DEF Disable, CloseWindow, TypeInv, TypeOK
  <2>4. CASE WriteControl(addr, value)
    BY <1>1, <2>4 DEF WriteControl, TypeInv, TypeOK, Memsize, PixelBytes
  <2> QED
    BY <1>5, <2>1, <2>2, <2>3, <2>4, <2>5
<1>6. ASSUME NEW color \in Color, WritePalette(addr, size, color)
      PROVE  TypeInv(rates)'
  <2>1. palette' \in [Byte -> Color]
    BY <1>6 DEF WritePalette, TypeInv, TypeOK
  <2>2. active_window =>
          /\ context'.mem = context.mem /\ context'.mode = context.mode
          /\ context'.resx = context.resx /\ context'.resy = context.resy
    BY <1>6, MarkKeepsMemory DEF WritePalette, Marked, TypeInv, IInv, ContextInv
  <2> QED
    BY <1>1, <1>6, <2>1, <2>2 DEF WritePalette, TypeInv, TypeOK, Memsize, PixelBytes
<1>7. ASSUME NEW byte \in Byte, WriteBuffer(addr, size, byte)
      PROVE  TypeInv(rates)'
  <2> DEFINE bytes == Memsize(context.mode, context.resx, context.resy)
             written == addr - framebuffer_base .. addr - framebuffer_base + size - 1
  <2>1. active_window /\ GetZone(addr, size) = "BUFFER"
    BY <1>7 DEF WriteBuffer, AccessTo, GetZone, TypeInv, IInv
  <2>2. bytes \in Nat /\ context.mem \in [0 .. bytes - 1 -> Byte] /\ IsContext(context)
    BY <2>1, MemsizeType DEF TypeInv, TypeOK, IInv, ContextInv, IsContext
  <2>3. addr >= framebuffer_base /\ addr + size <= framebuffer_base + bytes
    BY <2>1 DEF GetZone
  <2>4. /\ context' = [context EXCEPT
              !.mem = [o \in DOMAIN @ \cup written |-> IF o \in written THEN byte ELSE @[o]],
              !.changed = TRUE]
        /\ UNCHANGED <<active_window, update_freq, cycles_since_update, control, palette,
                       events, screen, phase>>
    BY <1>7 DEF WriteBuffer
  <2> HIDE DEF bytes
  <2>5. written \subseteq 0 .. bytes - 1
    <3> DEFINE at == addr - framebuffer_base
    <3>1. addr \in Int /\ size \in Int /\ framebuffer_base \in Int
      BY <1>2, DeviceAssumption
    <3>2. at \in Int /\ 0 <= at /\ at + size <= bytes
      BY <2>2, <2>3, <3>1
    <3> HIDE DEF at
    <3>3. at .. at + size - 1 \subseteq 0 .. bytes - 1
      BY <2>2, <3>1, <3>2
    <3> QED
      BY <3>3 DEF at
  <2> HIDE DEF written
  <2>6. /\ context'.mem = [o \in DOMAIN context.mem \cup written |->
                             IF o \in written THEN byte ELSE context.mem[o]]
        /\ context'.mode = context.mode
        /\ context'.resx = context.resx /\ context'.resy = context.resy
    BY <2>2, <2>4 DEF IsContext
  <2>7. context'.mem \in [0 .. bytes - 1 -> Byte]
    BY <2>2, <2>5, <2>6
  <2>8. bytes = Memsize(context'.mode, context'.resx, context'.resy)
    BY <2>6 DEF bytes
  <2>9. /\ update_freq' \in rates
        /\ context'.mode \in Nat /\ IsMode(context'.mode)
    BY <2>1, <2>4, <2>6 DEF TypeInv
  <2>10. TypeOK'
    BY <2>1, <2>4, <2>7, <2>8 DEF TypeInv, TypeOK, Memsize, PixelBytes
  <2> QED
    BY <1>1, <2>9, <2>10 DEF TypeInv, IsMode
<1> QED
  BY <1>4, <1>5, <1>6, <1>7 DEF Access

(* A refresh keeps the types. *)
LEMMA ProcessEventsKeepsTypes ==
  ASSUME NEW rates, IsScale(rates), TypeInv(rates), ProcessEvents(TRUE),
         phase' = phase, palette' = palette
  PROVE  /\ IInv' /\ active_window' \in BOOLEAN /\ update_freq' \in rates
         /\ DOMAIN control' = DOMAIN control
         /\ events' \in Seq(Key) /\ Len(events') <= MaxKeys
         /\ active_window' =>
              /\ context'.mode \in Nat /\ IsMode(context'.mode)
              /\ context'.mem \in
                   [0 .. Memsize(context'.mode, context'.resx, context'.resy) - 1 -> Byte]
<1>1. IInv'
  BY ProcessEventsPreserves DEF TypeInv
<1>2. CASE ~active_window
  BY <1>1, <1>2 DEF ProcessEvents, TypeInv, TypeOK
<1>3. CASE active_window
  <2>1. update_freq' \in rates
    BY <1>3, KeysKeepScale DEF ProcessEvents, TypeInv, TypeOK
  <2>2. events' \in Seq(Key) /\ Len(events') <= MaxKeys
    BY <1>3, FreqAssumption DEF ProcessEvents
  <2>3. CASE QuitReleased
    BY <1>1, <1>3, <2>1, <2>2, <2>3 DEF ProcessEvents, CloseWindow, TypeInv, TypeOK
  <2>4. CASE ~QuitReleased
    <3>1. /\ context' = [context EXCEPT !.changed = FALSE]
          /\ UNCHANGED <<active_window, control>>
      BY <1>3, <2>4 DEF ProcessEvents, Draws
    <3>2. /\ context'.mem = context.mem /\ context'.mode = context.mode
          /\ context'.resx = context.resx /\ context'.resy = context.resy
      BY <1>3, <3>1, MarkKeepsMemory DEF TypeInv, IInv, ContextInv
    <3> QED
      BY <1>1, <1>3, <2>1, <2>2, <3>1, <3>2 DEF TypeInv, TypeOK, Memsize, PixelBytes
  <2> QED
    BY <2>3, <2>4
<1> QED
  BY <1>2, <1>3 DEF TypeInv, IInv

(* No write reaches past the memory of a window, the keys keep the frequency *)
(* on its scale, and the counter of cycles passes it by one at the most, for *)
(* every program and user.                                                   *)
THEOREM TypeCorrect ==
  ASSUME NEW CONSTANT rates, IsScale(rates) PROVE Spec => []TypeOK
<1>1. Init => TypeInv(rates)
  <2> SUFFICES ASSUME Init PROVE TypeInv(rates)
    OBVIOUS
  <2>1. IInv
    BY IInvInitially
  <2>2. /\ InitialFreq \in rates /\ InitialFreq \in MinFreq .. MaxFreq
        /\ InitialFreq \in Nat /\ MaxKeys \in Nat /\ 0 \in Color
    BY FreqAssumption DEF IsScale
  <2>3. events \in Seq(Key) /\ Len(events) = 0
    BY DEF Init
  <2>4. DOMAIN control = {"enable", "mode", "resx", "resy"}
    BY DEF Init
  <2>5. /\ active_window = FALSE /\ phase = "running" /\ cycles_since_update = 0
        /\ update_freq = InitialFreq /\ palette \in [Byte -> Color]
    BY <2>2 DEF Init
  <2>6. cycles_since_update \in 0 .. update_freq + 1 /\ Len(events) <= MaxKeys
    BY <2>2, <2>3, <2>5
  <2>7. TypeOK
    BY <2>2, <2>3, <2>4, <2>5, <2>6 DEF TypeOK, Phase
  <2> QED
    BY <2>1, <2>2, <2>5, <2>7 DEF TypeInv
<1>2. TypeInv(rates) /\ [Next]_vars => TypeInv(rates)'
  <2> SUFFICES ASSUME TypeInv(rates), [Next]_vars PROVE TypeInv(rates)'
    OBVIOUS
  <2>1. IInv'
    BY IInvPreserved DEF TypeInv
  <2>2. /\ rates \subseteq MinFreq .. MaxFreq /\ MinFreq \in Nat /\ MaxFreq \in Nat
        /\ MinFreq > 0 /\ MaxFreq > 0 /\ update_freq \in rates
    BY FreqAssumption DEF IsScale, TypeInv
  <2>3. CASE \E access \in Accesses : Access(access[1], access[2])
    BY <2>3, AccessKeepsTypes
  <2>4. CASE RunEnds
    BY <2>1, <2>2, <2>4 DEF RunEnds, TypeInv, TypeOK, Phase
  <2>5. ASSUME NEW key \in Key, ReleaseKey(key) PROVE TypeInv(rates)'
    <3>1. /\ events \in Seq(Key) /\ Len(events) < MaxKeys /\ MaxKeys \in Nat
          /\ events' = Append(events, key)
          /\ UNCHANGED <<active_window, update_freq, cycles_since_update, control, context,
                         palette, screen, phase>>
      BY <2>5, FreqAssumption DEF ReleaseKey, TypeInv, TypeOK
    <3>2. events' \in Seq(Key) /\ Len(events') = Len(events) + 1 /\ Len(events) \in Nat
      BY <3>1
    <3>3. Len(events') <= MaxKeys
      BY <3>1, <3>2
    <3>4. TypeOK'
      BY <3>1, <3>2, <3>3 DEF TypeInv, TypeOK, Memsize, PixelBytes
    <3> QED
      BY <2>1, <3>1, <3>4 DEF TypeInv
  <2>6. CASE ClockPulse
    <3>1. CASE UpdateDue
      <4>1. /\ ProcessEvents(TRUE) /\ cycles_since_update' = 1
            /\ palette' = palette /\ phase' = phase /\ phase = "running"
        BY <2>6, <3>1 DEF ClockPulse
      <4>2. /\ active_window' \in BOOLEAN /\ update_freq' \in rates
            /\ DOMAIN control' = DOMAIN control
            /\ events' \in Seq(Key) /\ Len(events') <= MaxKeys
            /\ active_window' =>
                 /\ context'.mode \in Nat /\ IsMode(context'.mode)
                 /\ context'.mem \in
                      [0 .. Memsize(context'.mode, context'.resx, context'.resy) - 1 -> Byte]
        BY <4>1, ProcessEventsKeepsTypes
      <4>3. update_freq' \in Nat /\ cycles_since_update' \in 0 .. update_freq' + 1
        BY <2>2, <4>1, <4>2
      <4>4. TypeOK'
        BY <2>2, <4>1, <4>2, <4>3 DEF TypeInv, TypeOK, Memsize, PixelBytes
      <4> QED
        BY <2>1, <4>2, <4>4 DEF TypeInv
    <3>2. CASE ~UpdateDue
      BY <2>1, <2>2, <2>6, <3>2 DEF ClockPulse, UpdateDue, TypeInv, TypeOK
    <3> QED
      BY <3>1, <3>2
  <2>7. CASE WaitForQuit
    BY <2>1, <2>2, <2>7, ProcessEventsKeepsTypes DEF WaitForQuit, TypeInv, TypeOK
  <2>8. CASE Destroy
    BY <2>1, <2>2, <2>8 DEF Destroy, TypeInv, TypeOK, Phase
  <2>9. CASE UNCHANGED vars
    BY <2>1, <2>9 DEF vars, TypeInv, TypeOK
  <2> QED
    BY <2>3, <2>4, <2>5, <2>6, <2>7, <2>8, <2>9 DEF Next
<1>3. TypeInv(rates) => TypeOK
  BY DEF TypeInv
<1> QED
  BY <1>1, <1>2, <1>3, PTL DEF Spec
============================================================================
