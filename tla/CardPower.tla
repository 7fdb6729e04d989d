----------------------------- MODULE CardPower -----------------------------
(***************************************************************************)
(* Power of the card reader: ccr_power_on and ccr_power_off of             *)
(* ccr.origin/cmgrapi.c.  The reader may break when it is switched on      *)
(* within five seconds of having been switched off, or off while it        *)
(* starts; both functions therefore sleep, with ccr_power_mutex held, for  *)
(* what is left of a delay measured with the wall clock.                   *)
(*                                                                         *)
(* The wall clock may be set back, never forward.  The port is switched by *)
(* nobody else.  ccr_power_handler and set_op_state are called by nobody.  *)
(***************************************************************************)
EXTENDS Integers

CONSTANTS
  POWERON_DELAY, POWERDOWN_DELAY,
  MaxTime  \* bound on the time that passes, and on how far the clock is set back

PowerConstants ==
  /\ POWERON_DELAY \in Nat /\ POWERDOWN_DELAY \in Nat /\ MaxTime \in Nat

VARIABLES
  powered,     \* the reader has power
  holder,      \* who holds ccr_power_mutex and sleeps: "none", "on", "off"
  until,       \* when its sleep is over
  timestamp_on, timestamp_off,
  timestamp_on_s, timestamp_off_s,
  now,         \* the time
  clock,       \* what gettimeofday says
  onAt, offAt  \* when the port was last switched on and off

stamps == <<timestamp_on, timestamp_off, timestamp_on_s, timestamp_off_s>>
time == <<now, clock>>
vars == <<powered, holder, until, stamps, time, onAt, offAt>>

\* the library may be loaded right after somebody switched the port
Init ==
  /\ powered \in BOOLEAN /\ holder = "none" /\ until = 0
  /\ timestamp_on = 0 /\ timestamp_off = 0
  /\ timestamp_on_s = FALSE /\ timestamp_off_s = FALSE
  /\ now = MaxTime /\ clock = MaxTime /\ onAt = MaxTime /\ offAt = MaxTime

\* mutant: nothing is left when the clock was set back
LeftNoneBack(delay, stamp) ==
  LET diff == clock - stamp IN IF diff >= delay \/ diff < 0 THEN 0 ELSE delay - diff

\* what is left of a delay; a clock that was set back gives a difference below zero and
\* so the whole delay
Left(delay, stamp) ==
  LET diff == clock - stamp IN
  IF diff >= delay THEN 0 ELSE IF diff < 0 THEN delay ELSE delay - diff

\* the difference is taken before the sleep, with the mutex held; the port is not asked
ccr_power_on ==
  /\ holder = "none" /\ holder' = "on"
  /\ IF timestamp_off_s
     THEN until' = now + Left(POWERON_DELAY, timestamp_off) /\ UNCHANGED stamps
     ELSE /\ until' = now + POWERON_DELAY
          /\ timestamp_off' = clock
          /\ UNCHANGED <<timestamp_on, timestamp_on_s, timestamp_off_s>>
  /\ UNCHANGED <<powered, time, onAt, offAt>>

\* after the sleep; the first time only the other flag is set
PowerUp ==
  /\ holder = "on" /\ now >= until /\ holder' = "none"
  /\ powered' = TRUE /\ onAt' = IF powered THEN onAt ELSE now
  /\ timestamp_on' = clock
  /\ timestamp_on_s' = (timestamp_on_s \/ timestamp_off_s) /\ timestamp_off_s' = TRUE
  /\ UNCHANGED <<until, timestamp_off, time, offAt>>

ccr_power_off ==
  /\ holder = "none" /\ powered /\ holder' = "off"
  /\ IF timestamp_on_s
     THEN until' = now + Left(POWERDOWN_DELAY, timestamp_on) /\ UNCHANGED stamps
     ELSE /\ until' = now + POWERDOWN_DELAY
          /\ timestamp_on' = clock /\ timestamp_on_s' = TRUE
          /\ UNCHANGED <<timestamp_off, timestamp_off_s>>
  /\ UNCHANGED <<powered, time, onAt, offAt>>

PowerDown ==
  /\ holder = "off" /\ now >= until /\ holder' = "none"
  /\ powered' = FALSE /\ offAt' = now
  /\ timestamp_off' = clock /\ timestamp_off_s' = TRUE
  /\ UNCHANGED <<until, timestamp_on, timestamp_on_s, time, onAt>>

\* a port without power: nothing to switch, but the stamps change
PowerOffAlready ==
  /\ holder = "none" /\ ~powered /\ ~timestamp_on_s
  /\ timestamp_off' = clock /\ timestamp_on_s' = TRUE
  /\ UNCHANGED <<powered, holder, until, timestamp_on, timestamp_off_s, time, onAt, offAt>>

Tick ==
  /\ now < 2 * MaxTime
  /\ now' = now + 1 /\ clock' = clock + 1
  /\ UNCHANGED <<powered, holder, until, stamps, onAt, offAt>>

ClockSet ==
  /\ clock >= MaxTime
  /\ \E c \in 0..(clock - 1) : clock' = c
  /\ UNCHANGED <<powered, holder, until, stamps, now, onAt, offAt>>

Next ==
  \/ ccr_power_on \/ PowerUp \/ ccr_power_off \/ PowerDown \/ PowerOffAlready
  \/ Tick \/ ClockSet

Spec == Init /\ [][Next]_vars

----------------------------------------------------------------------------

TypeOK ==
  /\ powered \in BOOLEAN /\ holder \in {"none", "on", "off"} /\ until \in Nat
  /\ timestamp_on \in Nat /\ timestamp_off \in Nat
  /\ timestamp_on_s \in BOOLEAN /\ timestamp_off_s \in BOOLEAN
  /\ now \in Nat /\ clock \in Nat /\ onAt \in Nat /\ offAt \in Nat

\* The reader is switched on no sooner than POWERON_DELAY after it was switched off, and off
\* no sooner than POWERDOWN_DELAY after it was switched on, in whatever order the functions
\* are called and however the clock is set back between them.
PowerRules ==
  [][/\ ~powered /\ powered' => now - offAt >= POWERON_DELAY
     /\ powered /\ ~powered' => now - onAt >= POWERDOWN_DELAY]_vars

=============================================================================
