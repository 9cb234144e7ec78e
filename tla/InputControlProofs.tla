-------------------------- MODULE InputControlProofs --------------------------
(* Theorems about InputControl, for any number of transitions to a detent, *)
(* any limit of the counter and any lag of the handler.                    *)
EXTENDS InputControl, TLAPS

(* The handler between its two readings.                                   *)
ReadingOK ==
  isr = <<>> \/ \E p \in Int : isr = <<Contacts(p)[1], p>> /\ Within(turned, p, 1)

TypeInv == InputTypeOK /\ ReadingOK /\ seen \in Int /\ taken \in Int

(* What is counted is what was seen, and what was not seen is announced.   *)
CountInv ==
  ~missed => /\ Detent * (taken + pending) + accumulator = seen
             /\ isr = <<>> \/ isr[2] = turned \/ edge
             /\ seen = turned \/ edge \/ isr # <<>>

(* A press that has not been told is under way.                            *)
PressInv ==
  /\ owed = IF inProgress THEN 1 ELSE 0
  /\ inProgress => button /\ armed /\ ~longPressing
  /\ longPressing => button
  /\ ~button => armed

(* An overlay has an end, or is on a screen that is left or drawn again.   *)
OverlayInv == overlaid => pc = "drawing" \/ until \/ undrawn \/ mode = "menu"

-----------------------------------------------------------------------------
(* The contacts: neighbouring positions differ in one of them.             *)
LEMMA Quarters ==
  \A x \in Int : /\ x % 4 \in 0..3
                 /\ (x + 1) % 4 = IF x % 4 = 3 THEN 0 ELSE (x % 4) + 1
  BY SMT

(* One transition forward is told as such, and is not one backward.        *)
LEMMA NextContacts ==
  ASSUME NEW x \in Int
  PROVE  /\ Contacts(x + 1) = Forward(Contacts(x))
         /\ Contacts(x) # Forward(Contacts(x + 1))
         /\ Contacts(x) # Contacts(x + 1)
<1>1. x % 4 = 0 \/ x % 4 = 1 \/ x % 4 = 2 \/ x % 4 = 3
  BY Quarters
<1>2. CASE x % 4 = 0
  <2>1. Contacts(x) = <<0, 0>> /\ Contacts(x + 1) = <<1, 0>>
    BY <1>2, Quarters DEF Contacts, Level
  <2> QED BY <2>1 DEF Forward
<1>3. CASE x % 4 = 1
  <2>1. Contacts(x) = <<1, 0>> /\ Contacts(x + 1) = <<1, 1>>
    BY <1>3, Quarters DEF Contacts, Level
  <2> QED BY <2>1 DEF Forward
<1>4. CASE x % 4 = 2
  <2>1. Contacts(x) = <<1, 1>> /\ Contacts(x + 1) = <<0, 1>>
    BY <1>4, Quarters DEF Contacts, Level
  <2> QED BY <2>1 DEF Forward
<1>5. CASE x % 4 = 3
  <2>1. Contacts(x) = <<0, 1>> /\ Contacts(x + 1) = <<0, 0>>
    BY <1>5, Quarters DEF Contacts, Level
  <2> QED BY <2>1 DEF Forward
<1> QED BY <1>1, <1>2, <1>3, <1>4, <1>5

(* A handler that reads the contacts while one of them changes reads them  *)
(* as they were or as they are.                                            *)
LEMMA TornReading ==
  ASSUME NEW p \in Int, NEW t \in Int, Within(t, p, 1),
         <<Contacts(p)[1], Contacts(t)[2]>> # Contacts(t)
  PROVE  <<Contacts(p)[1], Contacts(t)[2]>> = Contacts(p)
<1>1. t = p \/ t = p + 1 \/ p = t + 1
  BY DEF Within
<1>2. CASE t = p
  BY <1>2 DEF Contacts
<1>3. CASE t = p + 1
  BY <1>3, Quarters DEF Contacts, Level
<1>4. CASE p = t + 1
  BY <1>4, Quarters DEF Contacts, Level
<1> QED BY <1>1, <1>2, <1>3, <1>4

(* The accumulator follows the knob over one transition, or none.          *)
LEMMA DecodedIsMoved ==
  ASSUME NEW x \in Int, NEW y \in Int, Within(y, x, 1), NEW sum \in Int
  PROVE  Decoded(Contacts(x), Contacts(y), sum) = sum + (y - x)
<1>1. y = x \/ y = x + 1 \/ x = y + 1
  BY DEF Within
<1>2. CASE y = x
  BY <1>2 DEF Decoded
<1>3. CASE y = x + 1
  BY <1>3, NextContacts DEF Decoded
<1>4. CASE x = y + 1
  <2>1. Contacts(x) = Forward(Contacts(y)) /\ Contacts(y) # Forward(Contacts(x)) /\ Contacts(y) # Contacts(x)
    BY <1>4, NextContacts
  <2> QED BY <2>1, <1>4 DEF Decoded
<1> QED BY <1>1, <1>2, <1>3, <1>4

(* What a decoded transition may make of the accumulator.                  *)
LEMMA DecodedRange ==
  ASSUME NEW was, NEW now, NEW sum \in Int
  PROVE  Decoded(was, now, sum) \in {sum, sum + 1, sum - 1, 0}
  BY DEF Decoded

(* What is counted stays what was seen when both move.                     *)
LEMMA Follows ==
  ASSUME NEW d \in Int, NEW n \in Int, NEW sum \in Int, NEW x \in Int, NEW y \in Int,
         d * n + sum = x
  PROVE  d * n + (sum + (y - x)) = y
<1>1. d * n \in Int
  OBVIOUS
<1> QED BY <1>1

LEMMA LagCovers ==
  ASSUME NEW a \in Int, NEW b \in Int, Within(a, b, 1)
  PROVE  Within(a, b, Lag)
  BY InputConstants DEF Within

(* One detent more in the counter is one less in the accumulator.          *)
LEMMA OneMore ==
  ASSUME NEW d \in Int, NEW n \in Int, NEW step \in {-1, 0, 1}, NEW sum \in Int
  PROVE  d * (n + step) + (sum - d * step) = d * n + sum
<1>1. d * (n + 1) = d * n + d /\ d * (n - 1) = d * n - d /\ d * n \in Int
  BY SMT
<1>2. CASE step = 1
  BY <1>1, <1>2
<1>3. CASE step = 0
  BY <1>1, <1>3
<1>4. CASE step = -1
  <2>1. n + step = n - 1 /\ d * step = -d
    BY <1>4
  <2> QED BY <1>1, <2>1
<1> QED BY <1>2, <1>3, <1>4

-----------------------------------------------------------------------------
KnobTypes == turned \in (-MaxTurn)..MaxTurn /\ {edge, missed} \subseteq BOOLEAN /\ seen \in Int
             /\ lastState = Contacts(seen) /\ Within(turned, seen, Lag) /\ ReadingOK
             /\ accumulator \in (1 - Detent)..(Detent - 1)

LoopTypes ==
  /\ button \in Presses /\ {armed, inProgress, longPressing} \subseteq BOOLEAN
  /\ pc \in {"init", "loop", "handle", "service", "overlay", "drawing", "ui"}
  /\ event \in {"none", "step", "key"} /\ mode \in {"volume", "menu"}
  /\ {undrawn, overlay, quiet, until, overlaid} \subseteq BOOLEAN

CountTypes == pending \in (-Largest - 1)..Largest /\ taken \in Int

LEMMA TypeParts == TypeInv <=> KnobTypes /\ LoopTypes /\ CountTypes
  BY DEF TypeInv, InputTypeOK, KnobTypes, LoopTypes, CountTypes

LEMMA TypeInit == InputInit => TypeInv
<1> SUFFICES ASSUME InputInit PROVE KnobTypes /\ LoopTypes /\ CountTypes
  BY TypeParts
<1> USE InputConstants
<1>1. KnobTypes
  <2>1. lastState = Contacts(seen) /\ ReadingOK
    BY DEF InputInit, ReadingOK
  <2>2. turned = 0 /\ seen = 0 /\ accumulator = 0 /\ Within(turned, seen, Lag)
    BY DEF InputInit, Within
  <2>3. turned \in (-MaxTurn)..MaxTurn /\ accumulator \in (1 - Detent)..(Detent - 1)
    BY <2>2
  <2>4. {edge, missed} \subseteq BOOLEAN
    BY DEF InputInit
  <2> QED BY <2>1, <2>2, <2>3, <2>4 DEF KnobTypes
<1>2. LoopTypes
  BY DEF InputInit, LoopTypes
<1>3. CountTypes
  BY DEF InputInit, CountTypes
<1> QED BY <1>1, <1>2, <1>3

(* The handler's second reading leaves lastState at a position of the knob,*)
(* where it is or where it was at the first reading.                       *)
LEMMA SeenIsReal ==
  ASSUME KnobTypes, ReadDt
  PROVE  /\ seen' \in {turned, isr[2]} /\ isr[2] \in Int /\ Within(turned, isr[2], 1)
         /\ lastState' = Contacts(seen')
<1>1. PICK p \in Int : isr = <<Contacts(p)[1], p>> /\ Within(turned, p, 1)
  BY DEF KnobTypes, ReadingOK, ReadDt
<1>2. turned \in Int /\ isr[1] = Contacts(p)[1] /\ isr[2] = p
  BY <1>1 DEF KnobTypes
<1>3. lastState' = <<Contacts(p)[1], Contacts(turned)[2]>>
  BY <1>2 DEF ReadDt
<1>4. CASE lastState' = Contacts(turned)
  BY <1>1, <1>2, <1>4 DEF ReadDt
<1>5. CASE lastState' # Contacts(turned)
  <2>1. seen' = p
    BY <1>2, <1>5 DEF ReadDt
  <2>2. lastState' = Contacts(p)
    BY <1>1, <1>2, <1>3, <1>5, TornReading
  <2> QED BY <2>1, <2>2, <1>1, <1>2
<1> QED BY <1>4, <1>5

(* What the handler does with the sum of a detent.                         *)
Sum == Decoded(lastState, lastState', accumulator)
Step == IF Sum >= Detent THEN 1 ELSE IF Sum <= -Detent THEN -1 ELSE 0

LEMMA SumStep ==
  ASSUME KnobTypes, CountTypes, ReadDt
  PROVE  /\ Sum \in Int /\ Step \in {-1, 0, 1}
         /\ accumulator' = Sum - Detent * Step
         /\ accumulator' \in (1 - Detent)..(Detent - 1)
         /\ pending' = IF Room(pending + Step) THEN pending + Step ELSE pending
         /\ missed' = (missed \/ ~Room(pending + Step) \/ ~Within(seen', seen, 1))
<1> USE InputConstants
<1>1. Sum \in {accumulator, accumulator + 1, accumulator - 1, 0} /\ accumulator \in Int
  BY DecodedRange DEF Sum, KnobTypes
<1>2. Sum \in Int /\ Sum \in (-Detent)..Detent
  BY <1>1 DEF KnobTypes
<1>3. Step \in {-1, 0, 1}
  BY DEF Step
<1>4. accumulator' = Sum - Detent * Step
  BY DEF ReadDt, Sum, Step
<1>5. Sum - Detent * Step \in (1 - Detent)..(Detent - 1)
  <2>1. CASE Sum = Detent
    <3>1. Step = 1 /\ Detent * 1 = Detent
      BY <2>1 DEF Step
    <3> QED BY <3>1, <2>1
  <2>2. CASE Sum = -Detent
    <3>1. Step = -1 /\ Detent * (-1) = -Detent
      BY <2>2 DEF Step
    <3> QED BY <3>1, <2>2
  <2>3. CASE Sum \in (1 - Detent)..(Detent - 1)
    <3>1. Step = 0 /\ Detent * 0 = 0
      BY <2>3 DEF Step
    <3> QED BY <3>1, <2>3
  <2> QED BY <1>2, <2>1, <2>2, <2>3
<1>6. /\ pending' = IF Room(pending + Step) THEN pending + Step ELSE pending
      /\ missed' = (missed \/ ~Room(pending + Step) \/ ~Within(seen', seen, 1))
  BY DEF ReadDt, Sum, Step
<1> QED BY <1>2, <1>3, <1>4, <1>5, <1>6

(* The steps of the loop, which leave the knob and the decoder alone.      *)
LoopSteps ==
  \/ Attach
  \/ \E down, long \in Presses, key \in {"none", "key"} : Update(down, long, key)
  \/ TurnVolume \/ TurnMenu \/ HandleKey
  \/ Served \/ DrawOverlay \/ OverlayDrawn
  \/ \E drawsChange, expired, idles \in BOOLEAN : UpdateUI(drawsChange, expired, idles)
  \/ QuietPasses
  \/ \E screen \in {"volume", "menu"} : RemoteEnters(screen)

LEMMA Steps ==
  ASSUME InputNext
  PROVE  (\E by \in {1, -1} : Turn(by)) \/ ReadClk \/ ReadDt \/ LoopSteps
  BY DEF InputNext, Interrupt, Loop, LoopSteps

(* The play of one update is of its type.                                  *)
LEMMA PlayTypes ==
  ASSUME NEW down \in BOOLEAN, NEW long \in BOOLEAN,
         {button, armed, inProgress, longPressing} \subseteq BOOLEAN
  PROVE  /\ {Play(down, long).armed, Play(down, long).inProgress,
              Play(down, long).longPressing} \subseteq BOOLEAN
         /\ Play(down, long).event \in {"none", "play", "long"}
  BY DEF Play

LEMMA LoopFrame ==
  ASSUME LoopSteps
  PROVE  UNCHANGED <<turned, edge, isr, lastState, accumulator, seen, missed>>
  BY DEF LoopSteps, Attach, Update, TurnVolume, TurnMenu, HandleKey, Served, DrawOverlay,
         OverlayDrawn, UpdateUI, QuietPasses, RemoteEnters, Handled, knobVars, decoderVars, countVars

LEMMA LoopCounts ==
  ASSUME LoopSteps, TypeInv
  PROVE  CountTypes' /\ (~missed => taken' + pending' = taken + pending)
<1> USE InputConstants
<1> pending \in (-Largest - 1)..Largest /\ taken \in Int /\ pending \in Int
  BY TypeParts DEF CountTypes
<1>1. ASSUME NEW down \in Presses, NEW long \in Presses, NEW key, Update(down, long, key)
      PROVE  CountTypes' /\ (~missed => taken' + pending' = taken + pending)
  <2>1. pending' = pending - StepOf(pending) /\ taken' = IF missed THEN 0 ELSE taken + StepOf(pending)
    BY <1>1 DEF Update, Counted
  <2>2. CASE pending > 0
    BY <2>1, <2>2 DEF StepOf, CountTypes
  <2>3. CASE pending < 0
    BY <2>1, <2>3 DEF StepOf, CountTypes
  <2>4. CASE pending = 0
    BY <2>1, <2>4 DEF StepOf, CountTypes
  <2> QED BY <2>2, <2>3, <2>4
<1>2. CASE TurnVolume
  <2>1. pending' = 0 /\ taken' = IF missed THEN 0 ELSE taken + pending
    BY <1>2 DEF TurnVolume, Counted
  <2> QED BY <2>1 DEF CountTypes
<1>3. CASE UNCHANGED <<pending, taken>>
  BY <1>3 DEF CountTypes
<1>4. \/ \E down, long \in Presses, key \in {"none", "key"} : Update(down, long, key)
      \/ TurnVolume \/ UNCHANGED <<pending, taken>>
  BY DEF LoopSteps, Attach, TurnMenu, HandleKey, Served, DrawOverlay, OverlayDrawn, UpdateUI,
         QuietPasses, RemoteEnters, countVars
<1> QED BY <1>1, <1>2, <1>3, <1>4

LEMMA LoopTypesKept ==
  ASSUME TypeInv, LoopSteps
  PROVE  LoopTypes'
<1> USE InputConstants
<1> LoopTypes
  BY TypeParts
<1>1. ASSUME NEW down \in Presses, NEW long \in Presses, NEW key \in {"none", "key"},
             Update(down, long, key)
      PROVE  LoopTypes'
  <2>1. down \in BOOLEAN /\ long \in BOOLEAN
    OBVIOUS
  <2>2. {Play(down, long).armed, Play(down, long).inProgress,
         Play(down, long).longPressing} \subseteq BOOLEAN
    BY <2>1, PlayTypes DEF LoopTypes
  <2>3. button' \in Presses /\ {armed', inProgress', longPressing'} \subseteq BOOLEAN
    BY <1>1, <2>2 DEF Update
  <2>4. pc' = "handle" /\ event' \in {"none", "step", "key"} /\ UNCHANGED <<screenVars, quiet>>
    BY <1>1 DEF Update
  <2> QED BY <2>3, <2>4 DEF LoopTypes, screenVars
<1>2. CASE Attach
  BY <1>2 DEF LoopTypes, Attach, buttonVars, screenVars
<1>3. CASE TurnVolume
  BY <1>3 DEF LoopTypes, TurnVolume, Handled, buttonVars
<1>4. CASE TurnMenu
  BY <1>4 DEF LoopTypes, TurnMenu, Handled, Enter, buttonVars
<1>5. CASE HandleKey
  BY <1>5 DEF LoopTypes, HandleKey, Handled, Enter, buttonVars
<1>6. CASE Served
  BY <1>6 DEF LoopTypes, Served, buttonVars, screenVars
<1>7. CASE DrawOverlay
  BY <1>7 DEF LoopTypes, DrawOverlay, buttonVars
<1>8. CASE OverlayDrawn
  BY <1>8 DEF LoopTypes, OverlayDrawn, buttonVars
<1>9. ASSUME NEW drawsChange \in BOOLEAN, NEW expired \in BOOLEAN, NEW idles \in BOOLEAN,
             UpdateUI(drawsChange, expired, idles)
      PROVE  LoopTypes'
  BY <1>9 DEF LoopTypes, UpdateUI, buttonVars
<1>10. CASE QuietPasses
  BY <1>10 DEF LoopTypes, QuietPasses, buttonVars, screenVars
<1>11. ASSUME NEW screen \in {"volume", "menu"}, RemoteEnters(screen)
       PROVE  LoopTypes'
  BY <1>11 DEF LoopTypes, RemoteEnters, Enter, buttonVars
<1> QED BY <1>1, <1>2, <1>3, <1>4, <1>5, <1>6, <1>7, <1>8, <1>9, <1>10, <1>11 DEF LoopSteps

LEMMA TypeStep == TypeInv /\ [InputNext]_inputVars => TypeInv'
<1> SUFFICES ASSUME TypeInv, [InputNext]_inputVars PROVE (KnobTypes /\ LoopTypes /\ CountTypes)'
  BY TypeParts, PTL
<1> USE InputConstants
<1> KnobTypes /\ LoopTypes /\ CountTypes
  BY TypeParts
<1>1. ASSUME NEW by \in {1, -1}, Turn(by) PROVE (KnobTypes /\ LoopTypes /\ CountTypes)'
  <2>1. /\ UNCHANGED <<isr, lastState, accumulator, seen, pending, taken, pc, event, quiet>>
        /\ UNCHANGED <<button, armed, inProgress, longPressing>>
        /\ UNCHANGED <<mode, undrawn, overlay, until, overlaid>>
    BY <1>1 DEF Turn, decoderVars, buttonVars, screenVars
  <2>2. ReadingOK'
    BY <1>1, <2>1 DEF Turn, KnobTypes, ReadingOK
  <2>3. {edge, missed}' \subseteq BOOLEAN
    BY <1>1 DEF Turn, KnobTypes
  <2>4. turned' \in (-MaxTurn)..MaxTurn /\ Within(turned', seen, Lag)
    BY <1>1 DEF Turn
  <2>5. KnobTypes'
    BY <2>1, <2>2, <2>3, <2>4 DEF KnobTypes
  <2> QED BY <2>1, <2>5 DEF LoopTypes, CountTypes
<1>2. CASE ReadClk
  <2>1. /\ UNCHANGED <<turned, lastState, accumulator, seen, missed, pending, taken, pc, event, quiet>>
        /\ UNCHANGED <<button, armed, inProgress, longPressing>>
        /\ UNCHANGED <<mode, undrawn, overlay, until, overlaid>>
        /\ edge' = FALSE
    BY <1>2 DEF ReadClk, countVars, buttonVars, screenVars
  <2>2. turned \in Int /\ Within(turned, turned, 1)
    BY DEF KnobTypes, Within
  <2>3. ReadingOK'
    BY <1>2, <2>1, <2>2 DEF ReadClk, ReadingOK
  <2>4. KnobTypes'
    BY <2>1, <2>3 DEF KnobTypes
  <2> QED BY <2>1, <2>4 DEF LoopTypes, CountTypes
<1>3. CASE ReadDt
  <2>1. /\ UNCHANGED <<turned, edge, pc, event, quiet>>
        /\ UNCHANGED <<button, armed, inProgress, longPressing>>
        /\ UNCHANGED <<mode, undrawn, overlay, until, overlaid>>
        /\ isr' = <<>> /\ taken' \in {0, taken}
    BY <1>3 DEF ReadDt, knobVars, buttonVars, screenVars
  <2>2. /\ seen' \in Int /\ lastState' = Contacts(seen') /\ Within(turned, seen', 1)
    BY <1>3, SeenIsReal DEF KnobTypes, Within
  <2>3. Within(turned, seen', Lag)
    <3>1. turned \in Int
      BY DEF KnobTypes
    <3> QED BY <2>2, <3>1, LagCovers
  <2>4. accumulator' \in (1 - Detent)..(Detent - 1) /\ missed' \in BOOLEAN
    BY <1>3, SumStep DEF KnobTypes
  <2>5. pending' \in (-Largest - 1)..Largest
    BY <1>3, SumStep DEF CountTypes, Room
  <2>6. KnobTypes'
    BY <2>1, <2>2, <2>3, <2>4 DEF KnobTypes, ReadingOK
  <2> QED BY <2>1, <2>5, <2>6 DEF LoopTypes, CountTypes
<1>4. CASE LoopSteps
  <2>1. KnobTypes'
    BY <1>4, LoopFrame DEF KnobTypes, ReadingOK
  <2> QED BY <1>4, <2>1, LoopCounts, LoopTypesKept
<1>5. CASE UNCHANGED inputVars
  BY <1>5 DEF inputVars, knobVars, decoderVars, countVars, buttonVars, screenVars, KnobTypes,
              LoopTypes, CountTypes, ReadingOK
<1> QED BY <1>1, <1>2, <1>3, <1>4, <1>5, Steps

(* The model's states are well typed: the decoder's accumulator stays      *)
(* within a detent and the counter within its 16 bits, and encoderLastState*)
(* is always a position the knob was at (input.cpp:47-112).                *)
THEOREM InputTypeCorrect == InputSpec => []InputTypeOK
<1>1. TypeInv => InputTypeOK
  BY DEF TypeInv
<1> QED BY TypeInit, TypeStep, <1>1, PTL DEF InputSpec

-----------------------------------------------------------------------------
LEMMA CountInit == InputInit => CountInv
  BY InputConstants DEF InputInit, CountInv

LEMMA CountStep == TypeInv /\ CountInv /\ [InputNext]_inputVars => CountInv'
<1> SUFFICES ASSUME TypeInv, CountInv, [InputNext]_inputVars, ~missed' PROVE CountInv'
  BY DEF CountInv
<1> USE InputConstants
<1> KnobTypes /\ LoopTypes /\ CountTypes
  BY TypeParts
<1>1. ASSUME NEW by \in {1, -1}, Turn(by) PROVE CountInv'
  <2>1. edge' = TRUE /\ ~missed
    BY <1>1 DEF Turn
  <2>2. UNCHANGED <<taken, pending, accumulator, seen>>
    BY <1>1 DEF Turn, decoderVars
  <2> QED BY <2>1, <2>2 DEF CountInv
<1>2. CASE ReadClk
  <2>1. UNCHANGED <<taken, pending, accumulator, seen, turned>> /\ ~missed
    BY <1>2 DEF ReadClk, countVars
  <2>2. isr' = <<Contacts(turned)[1], turned>>
    BY <1>2 DEF ReadClk
  <2>3. isr' # <<>> /\ isr'[2] = turned'
    BY <2>1, <2>2
  <2> QED BY <2>1, <2>3 DEF CountInv
<1>3. CASE ReadDt
  <2>1. ~missed /\ Room(pending + Step) /\ Within(seen', seen, 1)
    BY <1>3, SumStep
  <2>2. Detent * (taken + pending) + accumulator = seen
    BY <2>1 DEF CountInv
  <2>3. seen' \in {turned, isr[2]} /\ seen' \in Int /\ lastState' = Contacts(seen')
    BY <1>3, SeenIsReal DEF KnobTypes
  <2>4. Sum = accumulator + (seen' - seen)
    BY <2>1, <2>3, DecodedIsMoved DEF Sum, KnobTypes
  <2>5. pending' = pending + Step /\ taken' = taken /\ accumulator' = Sum - Detent * Step
        /\ Step \in {-1, 0, 1}
    BY <1>3, <2>1, SumStep DEF ReadDt
  <2>6. /\ taken' + pending' = (taken + pending) + Step
        /\ taken + pending \in Int /\ Detent \in Int /\ Sum \in Int
    BY <1>3, <2>5, SumStep DEF CountTypes
  <2>7. Detent * (taken' + pending') + accumulator' = seen'
    <3>1. Detent * (taken' + pending') + accumulator' = Detent * (taken + pending) + Sum
      BY <2>5, <2>6, OneMore
    <3>2. accumulator \in Int /\ seen \in Int /\ seen' \in Int
      BY <2>3 DEF KnobTypes
    <3>3. Detent * (taken + pending) + (accumulator + (seen' - seen)) = seen'
      BY <2>2, <2>6, <3>2, Follows
    <3> QED BY <2>4, <3>1, <3>3
  <2>8. seen' = turned \/ edge
    BY <1>3, <2>1, <2>3 DEF CountInv, ReadDt
  <2>9. UNCHANGED <<turned, edge>> /\ isr' = <<>>
    BY <1>3 DEF ReadDt, knobVars
  <2> QED BY <2>7, <2>8, <2>9 DEF CountInv
<1>4. CASE LoopSteps
  <2>1. UNCHANGED <<turned, edge, isr, accumulator, seen, missed>>
    BY <1>4, LoopFrame
  <2>2. taken' + pending' = taken + pending
    BY <1>4, <2>1, LoopCounts
  <2> QED BY <2>1, <2>2 DEF CountInv
<1>5. CASE UNCHANGED inputVars
  BY <1>5 DEF inputVars, knobVars, decoderVars, countVars, CountInv
<1> QED BY <1>1, <1>2, <1>3, <1>4, <1>5, Steps

(* As long as the handler keeps up, the detents the loop has taken and     *)
(* those that wait are exactly those the knob was turned by, in their      *)
(* direction, whatever bounces and torn readings came in between           *)
(* (input.cpp:47-112, 271-284, 354-360).                                   *)
THEOREM EveryDetentCounts == InputSpec => []DetentsAreCounted
<1>1. CountInv => DetentsAreCounted
  BY DEF CountInv, DetentsAreCounted
<1> QED BY TypeInit, TypeStep, CountInit, CountStep, <1>1, PTL DEF InputSpec

-----------------------------------------------------------------------------
LEMMA PressInit == InputInit => PressInv
  BY InputConstants DEF InputInit, PressInv

LEMMA PressStep == TypeInv /\ PressInv /\ [InputNext]_inputVars => PressInv'
<1> SUFFICES ASSUME TypeInv, PressInv, [InputNext]_inputVars PROVE PressInv'
  OBVIOUS
<1> LoopTypes
  BY TypeParts
<1>1. ASSUME NEW down \in Presses, NEW long \in Presses, NEW key, Update(down, long, key)
      PROVE  PressInv'
  <2> DEFINE begins == down /\ ~button
             ends == ~down /\ button
             going == IF begins THEN armed ELSE inProgress
             fires == armed /\ going /\ down /\ long /\ ~longPressing
             short == ends /\ armed /\ going /\ ~longPressing
  <2>1. /\ button' = down /\ (long => down /\ button)
        /\ inProgress' = (~ends /\ going /\ ~fires)
        /\ longPressing' = (~ends /\ (longPressing \/ fires))
        /\ armed' = (armed \/ ends \/ ~down)
    BY <1>1 DEF Update, Play
  <2>2. Play(down, long).event = IF fires THEN "long" ELSE IF short THEN "play" ELSE "none"
    BY DEF Play
  <2>3. owed' = owed + (IF begins THEN 1 ELSE 0)
                     - (IF Play(down, long).event # "none" THEN 1 ELSE 0)
    BY <1>1 DEF Update
  <2>4. owed' = owed + (IF begins THEN 1 ELSE 0) - (IF fires \/ short THEN 1 ELSE 0)
    <3>1. Play(down, long).event # "none" <=> fires \/ short
      BY <2>2
    <3> QED BY <2>3, <3>1
  <2>5. {down, button, armed, inProgress, longPressing} \subseteq BOOLEAN
    BY InputConstants DEF LoopTypes
  <2>6. /\ button' /\ inProgress' => armed' /\ ~longPressing'
        /\ inProgress' => button'
        /\ longPressing' => button'
        /\ ~button' => armed'
    BY <2>1, <2>5 DEF PressInv
  <2>7. owed' = IF inProgress' THEN 1 ELSE 0
    <3>1. CASE begins
      <4>1. ~inProgress /\ owed = 0 /\ armed /\ ~fires /\ ~ends
        BY <2>1, <2>5, <3>1 DEF PressInv
      <4>2. inProgress'
        BY <2>1, <3>1, <4>1
      <4>3. ~(fires \/ short)
        BY <4>1
      <4>4. owed' = 0 + 1 - 0
        BY <2>4, <3>1, <4>1, <4>3
      <4> QED BY <4>2, <4>4
    <3>2. CASE ends
      BY <2>1, <2>4, <2>5, <3>2 DEF PressInv
    <3>3. CASE ~begins /\ ~ends
      BY <2>1, <2>4, <2>5, <3>3 DEF PressInv
    <3> QED BY <3>1, <3>2, <3>3
  <2> QED BY <2>6, <2>7 DEF PressInv
<1>2. CASE UNCHANGED buttonVars
  BY <1>2 DEF buttonVars, PressInv
<1>3. \/ \E down, long \in Presses, key \in {"none", "key"} : Update(down, long, key)
      \/ UNCHANGED buttonVars
  <2>1. CASE UNCHANGED inputVars
    BY <2>1 DEF inputVars
  <2>2. CASE \E by \in {1, -1} : Turn(by)
    BY <2>2 DEF Turn
  <2>3. CASE ReadClk \/ ReadDt
    BY <2>3 DEF ReadClk, ReadDt
  <2>4. CASE LoopSteps
    BY <2>4 DEF LoopSteps, Attach, TurnVolume, TurnMenu, HandleKey, Handled, Served, DrawOverlay,
                OverlayDrawn, UpdateUI, QuietPasses, RemoteEnters
  <2> QED BY <2>1, <2>2, <2>3, <2>4, Steps
<1> QED BY <1>1, <1>2, <1>3

(* A press of Play gives one command, short or long, or is under way; the  *)
(* one that was held at boot gives none (input.cpp:178-181, 304-333).      *)
THEOREM EachPressIsOneCommand == InputSpec => []OnePressOneCommand
<1>1. PressInv => OnePressOneCommand
  BY DEF PressInv, OnePressOneCommand
<1> QED BY TypeInit, TypeStep, PressInit, PressStep, <1>1, PTL DEF InputSpec

-----------------------------------------------------------------------------
LEMMA OverlayInit == InputInit => OverlayInv
  BY DEF InputInit, OverlayInv

LEMMA OverlayStep == TypeInv /\ OverlayInv /\ [InputNext]_inputVars => OverlayInv'
<1> SUFFICES ASSUME TypeInv, OverlayInv, [InputNext]_inputVars PROVE OverlayInv'
  OBVIOUS
<1> LoopTypes
  BY TypeParts
<1>1. CASE UNCHANGED <<screenVars, pc>>
  BY <1>1 DEF OverlayInv, screenVars
<1>2. CASE (\E by \in {1, -1} : Turn(by)) \/ ReadClk \/ ReadDt
  BY <1>1, <1>2 DEF Turn, ReadClk, ReadDt
<1>3. CASE UNCHANGED inputVars
  BY <1>1, <1>3 DEF inputVars
<1>4. CASE LoopSteps
  <2>1. ASSUME NEW down, NEW long, NEW key, Update(down, long, key) PROVE OverlayInv'
    BY <2>1 DEF Update, OverlayInv, screenVars
  <2>2. CASE Attach \/ Served
    BY <2>2 DEF Attach, Served, OverlayInv, screenVars
  <2>3. CASE TurnVolume \/ TurnMenu \/ HandleKey
    BY <2>3 DEF TurnVolume, TurnMenu, HandleKey, Handled, Enter, OverlayInv
  <2>4. CASE DrawOverlay \/ OverlayDrawn
    BY <2>4 DEF DrawOverlay, OverlayDrawn, OverlayInv
  <2>5. ASSUME NEW drawsChange, NEW expired, NEW idles, UpdateUI(drawsChange, expired, idles)
        PROVE  OverlayInv'
    BY <2>5 DEF UpdateUI, OverlayInv, LoopTypes
  <2>6. CASE QuietPasses
    BY <1>1, <2>6 DEF QuietPasses
  <2>7. ASSUME NEW screen, RemoteEnters(screen) PROVE OverlayInv'
    BY <2>7 DEF RemoteEnters, Enter, OverlayInv
  <2> QED BY <1>4, <2>1, <2>2, <2>3, <2>4, <2>5, <2>6, <2>7 DEF LoopSteps
<1> QED BY <1>2, <1>3, <1>4, Steps

(* Whatever screens are entered while the volume overlay waits, is drawn   *)
(* or is shown, none is left on a screen with a volume when its time is    *)
(* over (main.cpp:803-807, 1738-1757).                                     *)
THEOREM OverlaysEnd == InputSpec => []OverlayEnds
<1>1. OverlayInv => OverlayEnds
  BY DEF OverlayInv, OverlayEnds
<1> QED BY TypeInit, TypeStep, OverlayInit, OverlayStep, <1>1, PTL DEF InputSpec

=============================================================================
