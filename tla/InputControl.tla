----------------------------- MODULE InputControl -----------------------------
(***************************************************************************)
(* The knob and the Play button: src/src/input.cpp, with what the loop of  *)
(* main.cpp does with them up to the volume overlay.  The contacts of the  *)
(* knob raise an interrupt whose handler decodes them and counts detents;  *)
(* the loop takes one, or on the screens with a volume all of them.  The   *)
(* overlay is drawn when the knob has been quiet, over whatever screen is  *)
(* there by then.                                                          *)
(*                                                                         *)
(* External: the contacts, their interrupt, and Bounce2, which tells a     *)
(* change of a button at most once in an update.                           *)
(* Abstracted: the screens are those that change the volume and the rest;  *)
(* the volume itself, which TunerControl's controls set; the other keys    *)
(* are one; times have passed or not.  The keys typed at the serial port   *)
(* are left out.                                                           *)
(***************************************************************************)
EXTENDS Integers

CONSTANTS
  Detent,    \* ENCODER_STEPS_PER_DETENT: 4
  Largest,   \* INT16_MAX
  Lag,       \* transitions the handler may be behind the contacts
  MaxTurn,   \* Bound of the knob's position, in transitions.
  Presses    \* whether Play may be down

ASSUME InputConstants ==
  /\ Detent \in Nat \ {0} /\ Largest \in Nat \ {0} /\ Lag \in {1, 2} /\ MaxTurn \in Nat
  /\ FALSE \in Presses /\ Presses \subseteq BOOLEAN

VARIABLES
  turned,     \* where the knob is, in transitions
  edge,       \* a contact changed since the interrupt was last taken
  isr,        \* the handler has read CLK: its level, and where the knob was
  lastState,  \* encoderLastState
  accumulator, pending,
  seen,       \* History: where lastState was read.
  missed,     \* History: a transition or a detent could not be counted.
  taken,      \* History: the detents the loop has taken, while none is missed.
  button,     \* Play is down, as Bounce2 tells it
  armed, inProgress, longPressing,
  owed,       \* History: presses of Play since boot less their commands.
  pc, event,
  mode,       \* the screen: "volume" (playing, Bluetooth) or "menu"
  undrawn,    \* REMOTE has changed the screen, updateUI has not drawn it yet
  overlay,    \* volumeOverlayPending
  quiet,      \* for VOLUME_OVERLAY_QUIET_MS since it was requested
  until,      \* volumeDisplayUntil is set
  overlaid    \* the panel shows the overlay

knobVars == <<turned, edge>>
decoderVars == <<isr, lastState, accumulator, seen>>
countVars == <<pending, missed, taken>>
buttonVars == <<button, armed, inProgress, longPressing, owed>>
screenVars == <<mode, undrawn, overlay, until, overlaid>>
inputVars == <<knobVars, decoderVars, countVars, buttonVars, pc, event, screenVars, quiet>>

-----------------------------------------------------------------------------
(* The contacts: <<CLK, DT>> goes 00, 10, 11, 01 and around.               *)
Level(high) == IF high THEN 1 ELSE 0

Contacts(position) == <<Level(position % 4 \in {1, 2}), Level(position % 4 \in {2, 3})>>

Forward(s) == <<1 - s[2], s[1]>>

InputInit ==
  /\ turned = 0 /\ edge = FALSE /\ isr = <<>>
  /\ lastState = Contacts(0) /\ accumulator = 0 /\ pending = 0
  /\ seen = 0 /\ missed = FALSE /\ taken = 0
  /\ button \in Presses /\ armed = ~button /\ inProgress = FALSE /\ longPressing = FALSE
  /\ owed = 0
  /\ pc = "init" /\ event = "none"
  /\ mode = "menu" /\ undrawn = FALSE
  /\ overlay = FALSE /\ quiet = FALSE /\ until = FALSE /\ overlaid = FALSE

Within(a, b, distance) == a - b <= distance /\ b - a <= distance

(* One contact changes, by the hand or by bouncing.  Until the interrupt   *)
(* is attached nobody sees it.                                             *)
Turn(by) ==
  /\ turned' = turned + by /\ turned' \in (-MaxTurn)..MaxTurn
  /\ Within(turned', seen, Lag) /\ (isr # <<>> => Within(turned', isr[2], 1))
  /\ IF pc = "init" THEN missed' = TRUE /\ UNCHANGED edge
                    ELSE edge' = TRUE /\ UNCHANGED missed
  /\ UNCHANGED <<decoderVars, pending, taken, buttonVars, pc, event, screenVars, quiet>>

-----------------------------------------------------------------------------
(* encoderISR.  It reads the two contacts one after the other.             *)
ReadClk ==
  /\ edge /\ isr = <<>> /\ pc # "init"
  /\ edge' = FALSE /\ isr' = <<Contacts(turned)[1], turned>>
  /\ UNCHANGED <<turned, lastState, accumulator, seen, countVars, buttonVars, pc, event,
                 screenVars, quiet>>

DecodedAll(was, now, sum) ==  \* Mutant: an unchanged reading is an invalid one.
  IF now = Forward(was) THEN sum + 1 ELSE IF was = Forward(now) THEN sum - 1 ELSE 0

(* What is not a legal transition discards the detent under way.           *)
Decoded(was, now, sum) ==
  IF now = was THEN sum
  ELSE IF now = Forward(was) THEN sum + 1
  ELSE IF was = Forward(now) THEN sum - 1 ELSE 0

RoomAlways(n) == TRUE  \* Mutant: the counter is not kept from its limits.

Room(n) == n \in (-Largest - 1)..Largest

ReadDt ==
  /\ isr # <<>> /\ isr' = <<>>
  /\ lastState' = <<isr[1], Contacts(turned)[2]>>
  /\ seen' = IF lastState' = Contacts(turned) THEN turned ELSE isr[2]
  /\ LET sum == Decoded(lastState, lastState', accumulator)
         step == IF sum >= Detent THEN 1 ELSE IF sum <= -Detent THEN -1 ELSE 0
         room == Room(pending + step)
     IN  /\ accumulator' = sum - Detent * step
         /\ pending' = IF room THEN pending + step ELSE pending
         /\ missed' = (missed \/ ~room \/ ~Within(seen', seen, 1))
  /\ taken' = IF missed' THEN 0 ELSE taken
  /\ UNCHANGED <<knobVars, buttonVars, pc, event, screenVars, quiet>>

-----------------------------------------------------------------------------
Counted(n) == taken' = IF missed THEN 0 ELSE taken + n

Attach ==
  /\ pc = "init" /\ pc' = "loop"
  /\ UNCHANGED <<knobVars, decoderVars, countVars, buttonVars, event, screenVars, quiet>>

(* One detent, with the interrupt masked.                                  *)
StepOf(n) == IF n > 0 THEN 1 ELSE IF n < 0 THEN -1 ELSE 0

PlayOnPress(down, long) ==  \* Mutant: the short press is told when it begins.
  LET begins == down /\ ~button
      ends == ~down /\ button
      going == IF begins THEN armed ELSE inProgress
      fires == armed /\ going /\ down /\ long /\ ~longPressing
  IN  [event |-> IF fires THEN "long" ELSE IF begins /\ armed THEN "play" ELSE "none",
       inProgress |-> ~ends /\ going /\ ~fires,
       longPressing |-> ~ends /\ (longPressing \/ fires),
       armed |-> armed \/ ends \/ ~down]

(* The Play button: a short press is told when it ends, a long one once;   *)
(* one that was held at boot is neither.                                   *)
Play(down, long) ==
  LET begins == down /\ ~button
      ends == ~down /\ button
      going == IF begins THEN armed ELSE inProgress
      fires == armed /\ going /\ down /\ long /\ ~longPressing
      short == ends /\ armed /\ going /\ ~longPressing
  IN  [event |-> IF fires THEN "long" ELSE IF short THEN "play" ELSE "none",
       inProgress |-> ~ends /\ going /\ ~fires,
       longPressing |-> ~ends /\ (longPressing \/ fires),
       armed |-> armed \/ ends \/ ~down]

(* update() and getEvent(): the knob goes before the other keys, and Play  *)
(* before the knob, whose detent is then lost.                             *)
Update(down, long, key) ==
  /\ pc = "loop" /\ pc' = "handle" /\ (long => down /\ button)
  /\ button' = down
  /\ LET play == Play(down, long)
         step == StepOf(pending)
     IN  /\ inProgress' = play.inProgress /\ longPressing' = play.longPressing
         /\ armed' = play.armed
         /\ owed' = owed + (IF down /\ ~button THEN 1 ELSE 0)
                        - (IF play.event # "none" THEN 1 ELSE 0)
         /\ pending' = pending - step /\ Counted(step)
         /\ event' = IF play.event # "none" THEN "key"
                     ELSE IF step # 0 THEN "step" ELSE key
  /\ UNCHANGED <<knobVars, decoderVars, missed, screenVars, quiet>>

-----------------------------------------------------------------------------
(* The handlers.  A screen that is entered is drawn.                       *)
Enter(screen) == mode' = screen /\ undrawn' = FALSE /\ overlaid' = FALSE

Handled ==
  /\ pc = "handle" /\ pc' = "service" /\ event' = "none"
  /\ UNCHANGED <<knobVars, decoderVars, missed, buttonVars, until>>

(* applyLocalEncoderVolume: all the detents there are.                     *)
TurnVolume ==
  /\ Handled /\ event = "step" /\ mode = "volume"
  /\ pending' = 0 /\ Counted(pending) /\ overlay' = TRUE /\ quiet' = FALSE
  /\ UNCHANGED <<mode, undrawn, overlaid>>

TurnMenu ==
  /\ Handled /\ event = "step" /\ mode = "menu"
  /\ Enter("menu") \/ UNCHANGED <<mode, undrawn, overlaid>>
  /\ UNCHANGED <<pending, taken, overlay, quiet>>

HandleKey ==
  /\ Handled /\ event # "step"
  /\ \/ event = "key" /\ \E screen \in {"volume", "menu"} : Enter(screen)
     \/ UNCHANGED <<mode, undrawn, overlaid>>
  /\ UNCHANGED <<pending, taken, overlay, quiet>>

(* REMOTE is served, at its place in the loop and while the overlay is     *)
(* drawn: it draws the screen it changes to, or leaves it to updateUI.     *)
RemoteEnters(screen) ==
  /\ pc \in {"service", "drawing"}
  /\ \/ Enter(screen)
     \/ screen = "volume" /\ mode' = screen /\ undrawn' = TRUE /\ UNCHANGED overlaid
  /\ UNCHANGED <<knobVars, decoderVars, countVars, buttonVars, pc, event, overlay, quiet, until>>

Served ==
  /\ pc = "service" /\ pc' = "overlay"
  /\ UNCHANGED <<knobVars, decoderVars, countVars, buttonVars, event, screenVars, quiet>>

QuietPasses ==
  /\ overlay /\ ~quiet /\ quiet' = TRUE
  /\ UNCHANGED <<knobVars, decoderVars, countVars, buttonVars, pc, event, screenVars>>

-----------------------------------------------------------------------------
(* The overlay, and its end in updateUI.                                   *)
DrawOverlay ==
  /\ pc = "overlay"
  /\ IF overlay /\ pending = 0 /\ quiet
       THEN /\ overlay' = FALSE /\ quiet' = FALSE /\ overlaid' = TRUE /\ pc' = "drawing"
       ELSE pc' = "ui" /\ UNCHANGED <<overlay, quiet, overlaid>>
  /\ UNCHANGED <<knobVars, decoderVars, countVars, buttonVars, event, mode, undrawn, until>>

OverlayDrawnForGood ==  \* Mutant: its end is not set.
  /\ pc = "drawing" /\ pc' = "ui"
  /\ UNCHANGED <<knobVars, decoderVars, countVars, buttonVars, event, mode, undrawn, overlay,
                 until, quiet, overlaid>>

OverlayDrawn ==
  /\ pc = "drawing" /\ pc' = "ui" /\ until' = TRUE
  /\ UNCHANGED <<knobVars, decoderVars, countVars, buttonVars, event, mode, undrawn, overlay,
                 quiet, overlaid>>

(* updateUI, when its second is over, and the idle clock after it.         *)
UpdateUI(drawsChange, expired, idles) ==
  /\ pc = "ui" /\ pc' = "loop"
  /\ (drawsChange => mode = "volume") /\ (idles => mode = "menu")
  /\ until' = (until /\ ~expired)
  /\ undrawn' = (undrawn /\ ~drawsChange)
  /\ overlaid' = (overlaid /\ ~drawsChange /\ ~idles
                           /\ ~(until /\ expired /\ mode = "volume"))
  /\ UNCHANGED <<knobVars, decoderVars, countVars, buttonVars, event, mode, overlay, quiet>>

Interrupt == ReadClk \/ ReadDt

(* The loop runs on the handler's core: never inside it.                   *)
Masked == isr # <<>>

Loop ==
  /\ ~Masked
  /\ \/ Attach
     \/ \E down, long \in Presses, key \in {"none", "key"} : Update(down, long, key)
     \/ TurnVolume \/ TurnMenu \/ HandleKey
     \/ Served \/ DrawOverlay \/ OverlayDrawn
     \/ \E drawsChange, expired, idles \in BOOLEAN : UpdateUI(drawsChange, expired, idles)

InputNext ==
  \/ \E by \in {1, -1} : Turn(by)
  \/ Interrupt \/ Loop \/ QuietPasses
  \/ ~Masked /\ \E screen \in {"volume", "menu"} : RemoteEnters(screen)

InputSpec == InputInit /\ [][InputNext]_inputVars

-----------------------------------------------------------------------------
(* Types; the accumulator and the counter stay within an int8_t and an     *)
(* int16_t, and the last reading is one the knob has really been at.       *)
InputTypeOK ==
  /\ turned \in (-MaxTurn)..MaxTurn /\ {edge, missed} \subseteq BOOLEAN
  /\ lastState = Contacts(seen) /\ Within(turned, seen, Lag)
  /\ accumulator \in (1 - Detent)..(Detent - 1) /\ pending \in (-Largest - 1)..Largest
  /\ button \in Presses /\ {armed, inProgress, longPressing} \subseteq BOOLEAN
  /\ pc \in {"init", "loop", "handle", "service", "overlay", "drawing", "ui"}
  /\ event \in {"none", "step", "key"} /\ mode \in {"volume", "menu"}
  /\ {undrawn, overlay, quiet, until, overlaid} \subseteq BOOLEAN

(* As long as the handler keeps up, the detents the loop has taken and     *)
(* those that wait are those the knob was turned by, in their direction,   *)
(* whatever the contacts bounced in between and however the handler's two  *)
(* readings and the loop's takings fall (CHANGELOG.md:1409).  Of what the  *)
(* loop makes of a detent it has taken this says nothing: a key in the     *)
(* same update replaces its event.                                         *)
DetentsAreCounted ==
  ~missed => /\ Detent * (taken + pending) + accumulator = seen
             /\ ~edge /\ isr = <<>> => seen = turned

(* Each press of Play is one command, short or long, and none when the     *)
(* button was down at boot; the release of a long press does not act again *)
(* on the screen the press has opened.                                     *)
OnePressOneCommand ==
  /\ owed \in {0, 1} /\ (~button => owed = 0)

(* No overlay is left on a screen with a volume when its time is over,     *)
(* wherever it was drawn and whatever REMOTE changed meanwhile.  Other     *)
(* screens are not cleared of it (main.cpp:1738-1757): on the list of      *)
(* stations it stays until something else redraws.                         *)
OverlayEnds == mode = "volume" /\ pc = "loop" /\ ~undrawn /\ ~until => ~overlaid

=============================================================================
