---------------------------- MODULE Framebuffer ----------------------------
(***************************************************************************)
(* The framebuffer device (framebuffer.cc): a window a program opens by     *)
(* writing registers, the memory behind it, and the keys the user presses.  *)
(* The emulator is one thread; SDL, which owns the window and the queue of  *)
(* events, is not.  The device draws only in the clock pulses of the bus,   *)
(* so what the window shows lags behind the memory.                         *)
(*                                                                          *)
(* Scaled: a byte has the values of Byte, the palette one entry for each,    *)
(* the counts of bus cycles are small.  A color is a member of Color, a     *)
(* pixel says how it was made: from a grey value, a color of the palette,   *)
(* or the raw bytes of one of the modes SDL knows.                          *)
(***************************************************************************)
EXTENDS Integers, Sequences, FiniteSets

Seqs == INSTANCE SequencesExt

CONSTANTS
  control_base, framebuffer_base,   \* where the device is on the bus
  Byte,            \* values of a byte, from 0: 256 of them in the code
  Color,           \* words a program puts into the palette
  ControlValues,   \* words a program puts into each control register
  Accesses,        \* the accesses of the program: pairs of address and size
  MinFreq,         \* the up key divides no frequency of at most this (10)
  MaxFreq,         \* the down key multiplies no frequency from this on (10^7)
  FreqStep,        \* the factor of both (10)
  InitialFreq,     \* 1000000
  MaxKeys          \* bound on the events SDL keeps

ASSUME FreqAssumption ==
  /\ {MinFreq, MaxFreq, InitialFreq, FreqStep} \subseteq Nat \ {0}
  /\ 0 \in Color /\ 0 \in Byte
  /\ MaxKeys \in Nat
ASSUME DeviceAssumption ==
  control_base \in Nat /\ control_base % 4 = 0 /\ framebuffer_base \in Nat
ASSUME ProgramAssumption ==
  /\ \A r \in {"enable", "mode", "resx", "resy"} : ControlValues[r] \subseteq Nat
  /\ Accesses \subseteq Nat \X {1, 2, 4, 8}

VARIABLES
  active_window, update_freq, cycles_since_update, control,  \* of Framebuffer
  context,         \* of Framebuffer: its RenderContext, or NoContext
  palette,         \* static in framebuffer.cc
  events,          \* SDL: the keys released since the last poll
  screen,          \* SDL: the pixels an open window shows, or NoScreen
  phase            \* "running"; "finished", in the destructor; "destroyed"

vars == <<active_window, update_freq, cycles_since_update, control, context, palette,
          events, screen, phase>>

Key == {"q", "up", "down"}
Phase == {"running", "finished", "destroyed"}

NoContext == [mem |-> <<>>, changed |-> FALSE, mode |-> 0, resx |-> 0, resy |-> 0]
NoScreen == <<>>

(* struct ControlInterface, and the offsets of its registers. *)
ControlRegister ==
  [offset \in {0, 4, 8, 12} |-> <<"enable", "mode", "resx", "resy">>[offset \div 4 + 1]]
ControlSize == 16
PaletteSize == 4 * Cardinality(Byte)

(* mem_mult: bytes of a pixel in the modes 0 to 5. *)
mem_mult == <<1, 1, 1, 2, 3, 4>>
IsMode(mode) == mode + 1 \in DOMAIN mem_mult
PixelBytes(mode) == mem_mult[mode + 1]

Memsize(mode, resx, resy) == resx * resy * PixelBytes(mode)

----------------------------------------------------------------------------
(* RenderContext::redrawScreen: the pixels of a context, given a palette.    *)
Pixel(c, colors, n) ==
  CASE c.mode = 0 -> <<"grey", c.mem[n]>>
    [] c.mode = 1 -> <<"color", colors[c.mem[n]]>>
    [] OTHER      -> <<"raw">> \o [b \in 1 .. PixelBytes(c.mode) |->
                                    c.mem[n * PixelBytes(c.mode) + b - 1]]

Rendered(c, colors) == [n \in 0 .. c.resx * c.resy - 1 |-> Pixel(c, colors, n)]

(* SDL opens a window of at least one pixel, whatever size is asked for. *)
WindowSide(resolution) == IF resolution = 0 THEN 1 ELSE resolution

Blank(resx, resy) == [n \in 0 .. resx * resy - 1 |-> <<"blank">>]

----------------------------------------------------------------------------
(* Framebuffer::getZone.  A size of 0 asks for contains() and never throws.  *)
GetZone(addr, size) ==
  IF addr >= control_base /\ addr + size <= control_base + ControlSize + PaletteSize
    THEN IF size > 0 /\ (size # 4 \/ addr % 4 # 0) THEN "IllegalAccess"
         ELSE IF addr - control_base < ControlSize THEN "CONTROL"
         ELSE "PALETTE"
  ELSE IF ~active_window THEN IF size = 0 THEN "INVALID" ELSE "IllegalAccess"
  ELSE IF addr >= framebuffer_base
            /\ addr + size <= framebuffer_base
                                + Memsize(context.mode, context.resx, context.resy)
    THEN "BUFFER"
    ELSE "INVALID"

Contains(addr) == GetZone(addr, 0) # "INVALID"

Init ==
  /\ active_window = FALSE
  /\ update_freq = InitialFreq
  /\ cycles_since_update = 0
  /\ control = [enable |-> 0, mode |-> 0, resx |-> 0, resy |-> 0]
  /\ context = NoContext
  /\ palette = [b \in Byte |-> 0]
  /\ events = <<>>
  /\ screen = NoScreen
  /\ phase = "running"

(* The access goes to a zone of the device. *)
AccessTo(addr, size, zone) ==
  phase = "running" /\ Contains(addr) /\ GetZone(addr, size) = zone

(* A refused access, read or write, ends the run of the program. *)
Refuse(addr, size) ==
  /\ \/ AccessTo(addr, size, "IllegalAccess")
     \/ AccessTo(addr, size, "INVALID")
  /\ phase' = "finished"
  /\ UNCHANGED <<active_window, update_freq, cycles_since_update, control, context,
                 palette, events, screen>>

(* The program is over, or stopped for a reason of its own. *)
RunEnds ==
  /\ phase = "running"
  /\ phase' = "finished"
  /\ UNCHANGED <<active_window, update_freq, cycles_since_update, control, context,
                 palette, events, screen>>

(* context.reset(nullptr): the window is gone with its memory. *)
CloseWindow ==
  /\ active_window' = FALSE
  /\ context' = NoContext
  /\ screen' = NoScreen
  /\ control' = [control EXCEPT !.enable = 0]

(* RenderContext::RenderContext: a new window over cleared memory.  A mode   *)
(* beyond 5 would read past the end of the tables, and is left out.          *)
OpenWindow ==
  LET memsize == Memsize(control.mode, control.resx, control.resy) IN
    /\ context' = [mem |-> [o \in 0 .. memsize - 1 |-> 0], changed |-> TRUE,
                   mode |-> control.mode, resx |-> control.resx, resy |-> control.resy]
    /\ screen' = Blank(control.resx, control.resy)
    /\ active_window' = TRUE
    /\ control' = [control EXCEPT !.enable = 1]

Enable(addr, value) ==
  /\ addr = control_base
  /\ ~active_window /\ value > 0
  /\ control.resx > 0 /\ control.resy > 0 /\ IsMode(control.mode)
  /\ OpenWindow
  /\ UNCHANGED <<update_freq, cycles_since_update, palette, events, phase>>

(* SDL gives no window: the constructor throws, writeWord does not come to    *)
(* its assignments, and the runtime_error ends the run.                      *)
WindowRefused(addr, value) ==
  /\ addr = control_base
  /\ ~active_window /\ value > 0
  /\ phase' = "finished"
  /\ UNCHANGED <<active_window, update_freq, cycles_since_update, control, context,
                 palette, events, screen>>

(* Mutant: writeWord says that there is a window before it makes the context. *)
HalfOpenMarked(addr, value) ==
  /\ addr = control_base
  /\ ~active_window /\ value > 0
  /\ phase' = "finished"
  /\ screen' = Blank(WindowSide(control.resx), WindowSide(control.resy))
  /\ active_window' = TRUE
  /\ control' = [control EXCEPT !.enable = 1]
  /\ UNCHANGED <<update_freq, cycles_since_update, context, palette, events>>

(* SDL opened the window and then gives no renderer, or no texture of this   *)
(* size, of 0 never.  The constructor throws, no destructor runs: the window *)
(* stays without a context.                                                  *)
WindowHalfOpen(addr, value) ==
  /\ addr = control_base
  /\ ~active_window /\ value > 0
  /\ phase' = "finished"
  /\ screen' = Blank(WindowSide(control.resx), WindowSide(control.resy))
  /\ UNCHANGED <<active_window, update_freq, cycles_since_update, control, context,
                 palette, events>>

Disable(addr, value) ==
  /\ addr = control_base
  /\ active_window /\ value = 0
  /\ CloseWindow
  /\ UNCHANGED <<update_freq, cycles_since_update, palette, events, phase>>

(* The other registers are written as they are: an open window keeps the     *)
(* mode and the size it was opened with.                                     *)
WriteControl(addr, value) ==
  /\ addr # control_base
  /\ control' = [control EXCEPT ![ControlRegister[addr - control_base]] = value]
  /\ UNCHANGED <<active_window, update_freq, cycles_since_update, context, palette,
                 events, screen, phase>>

(* Mutant: a new color of the palette is not drawn. *)
MarkedForgetful == context

(* The context marked as changed, if there is one. *)
Marked == IF active_window THEN [context EXCEPT !.changed = TRUE] ELSE context

WritePalette(addr, size, color) ==
  /\ AccessTo(addr, size, "PALETTE")
  /\ palette' = [palette EXCEPT ![(addr - control_base - ControlSize) \div 4] = color]
  /\ context' = Marked
  /\ UNCHANGED <<active_window, update_freq, cycles_since_update, control, events, screen,
                 phase>>

WriteBuffer(addr, size, byte) ==
  LET offset == addr - framebuffer_base
      written == offset .. offset + size - 1
  IN
    /\ AccessTo(addr, size, "BUFFER")
    /\ context' = [context EXCEPT
                     !.mem = [o \in DOMAIN @ \cup written |-> IF o \in written THEN byte ELSE @[o]],
                     !.changed = TRUE]
    /\ UNCHANGED <<active_window, update_freq, cycles_since_update, control, palette,
                   events, screen, phase>>

Access(addr, size) ==
  \/ Refuse(addr, size)
  \/ /\ AccessTo(addr, size, "CONTROL")
     /\ \E value \in ControlValues[ControlRegister[addr - control_base]] :
          \/ Enable(addr, value)
          \/ WindowRefused(addr, value)
          \/ WindowHalfOpen(addr, value)
          \/ Disable(addr, value)
          \/ WriteControl(addr, value)
  \/ \E color \in Color : WritePalette(addr, size, color)
  \/ \E byte \in Byte : WriteBuffer(addr, size, byte)

----------------------------------------------------------------------------
(* SDL: the user releases a key while the window is open; the device ignores *)
(* all others.                                                               *)
ReleaseKey(key) ==
  /\ active_window
  /\ Len(events) < MaxKeys
  /\ events' = Append(events, key)
  /\ UNCHANGED <<active_window, update_freq, cycles_since_update, control, context,
                 palette, screen, phase>>

(* Mutant: the frequency is divided without a bound. *)
FreqAfterUnbounded(freq, key) ==
  CASE key = "up"                     -> freq \div FreqStep
    [] key = "down" /\ freq < MaxFreq -> freq * FreqStep
    [] OTHER                          -> freq

FreqAfter(freq, key) ==
  CASE key = "up" /\ freq > MinFreq   -> freq \div FreqStep
    [] key = "down" /\ freq < MaxFreq -> freq * FreqStep
    [] OTHER                          -> freq

FreqAfterAll(freq, keys) == Seqs!FoldLeft(FreqAfter, freq, keys)

(* Mutant: only the last event counts. *)
QuitReleasedLast == events # <<>> /\ events[Len(events)] = "q"

QuitReleased == \E i \in DOMAIN events : events[i] = "q"

(* Mutant: while keys come in nothing is drawn. *)
DrawsWhenIdle(redraw) == redraw /\ events = <<>>

Draws(redraw) == context.changed \/ redraw

(* Framebuffer::processEvents: all events of the queue are handled, those    *)
(* behind a q as well, and a window that is left is drawn.                   *)
ProcessEvents(redraw) ==
  IF ~active_window
    THEN UNCHANGED <<active_window, update_freq, control, context, events, screen>>
    ELSE /\ events' = <<>>
         /\ update_freq' = FreqAfterAll(update_freq, events)
         /\ IF QuitReleased THEN CloseWindow
            ELSE /\ IF Draws(redraw)
                      THEN /\ screen' = Rendered(context, palette)
                           /\ context' = [context EXCEPT !.changed = FALSE]
                      ELSE UNCHANGED <<screen, context>>
                 /\ UNCHANGED <<active_window, control>>

UpdateDue == cycles_since_update > update_freq

(* One pulse in five clock cycles of the processor. *)
ClockPulse ==
  /\ phase = "running"
  /\ IF UpdateDue THEN ProcessEvents(TRUE) /\ cycles_since_update' = 1
     ELSE /\ cycles_since_update' = cycles_since_update + 1
          /\ UNCHANGED <<active_window, update_freq, control, context, events, screen>>
  /\ UNCHANGED <<palette, phase>>

(* The loop of ~Framebuffer, which waits for the user to close the window.   *)
WaitForQuit ==
  /\ phase = "finished"
  /\ active_window
  /\ ProcessEvents(TRUE)
  /\ UNCHANGED <<cycles_since_update, palette, phase>>

(* SDL_Quit closes a window a failed constructor left open.                  *)
Destroy ==
  /\ phase = "finished"
  /\ ~active_window
  /\ phase' = "destroyed"
  /\ screen' = NoScreen
  /\ UNCHANGED <<active_window, update_freq, cycles_since_update, control, context,
                 palette, events>>

Next ==
  \/ \E access \in Accesses : Access(access[1], access[2])
  \/ RunEnds
  \/ \E key \in Key : ReleaseKey(key)
  \/ ClockPulse
  \/ WaitForQuit
  \/ Destroy

(* The processor pulses the bus as long as the program runs, and its         *)
(* destructor loops; neither the program nor the user has to do anything.    *)
Spec == Init /\ [][Next]_vars /\ WF_vars(ClockPulse) /\ WF_vars(WaitForQuit) /\ WF_vars(Destroy)

----------------------------------------------------------------------------
(* The memory of a window has the size of its mode and resolution whatever   *)
(* is written to it, the keys keep the frequency in its range, and while     *)
(* the program runs the counter of cycles passes it by one at the most.      *)
TypeOK ==
  /\ active_window \in BOOLEAN
  /\ update_freq \in MinFreq .. MaxFreq
  /\ cycles_since_update \in 0 .. (IF phase = "running" THEN update_freq ELSE MaxFreq) + 1
  /\ DOMAIN control = {"enable", "mode", "resx", "resy"}
  /\ palette \in [Byte -> Color]
  /\ events \in Seq(Key) /\ Len(events) <= MaxKeys
  /\ phase \in Phase
  /\ active_window =>
       context.mem \in [0 .. Memsize(context.mode, context.resx, context.resy) - 1 -> Byte]

(* Whether the program writes the register, the user presses q, SDL refuses  *)
(* a part of the window or the run is over: active_window, the context and    *)
(* the register enable, which the program can read, agree, and they only say *)
(* there is a window if SDL shows one.  A window they do not know of is left *)
(* by a constructor that threw half way: no program runs any more that could *)
(* open a second one, and no window outlives the device.                     *)
WindowConsistent ==
  /\ active_window <=> context # NoContext
  /\ control.enable = IF active_window THEN 1 ELSE 0
  /\ active_window => screen # NoScreen
  /\ phase = "running" => (active_window <=> screen # NoScreen)
  /\ phase = "destroyed" => ~active_window /\ screen = NoScreen

(* A window that is not marked as changed shows its memory in the present    *)
(* palette, in the mode and resolution it was opened with.                   *)
ShownIsCurrent ==
  active_window /\ ~context.changed => screen = Rendered(context, palette)

(* What was changed is drawn, or its window is closed, without the help of   *)
(* the program or the user.                                                  *)
ChangesAreShown == (active_window /\ context.changed) ~> (~active_window \/ ~context.changed)

(* The key q closes the window, while the program runs and after it.         *)
QuitCloses ==
  (active_window /\ \E i \in DOMAIN events : events[i] = "q") ~> ~active_window
=============================================================================
