------------------------------- MODULE GpioCmd -------------------------------
(***************************************************************************)
(* A pin that consoles control (librfn/libopencm3/console_cmd_gpio.c), on  *)
(* the families F1 and F4 (F0 is like F4).  A command's step is its whole  *)
(* handler; "pulse" waits a second, and other consoles' commands come in   *)
(* between.                                                                *)
(***************************************************************************)
EXTENDS Naturals, FiniteSets

CONSTANT Consoles

VARIABLES
    family, flags,      \* the build, and gpio->flags
    latch, mode,        \* the output register's bit, and the pin's mode
    pulsing,            \* consoles whose "pulse" waits
    asked, known        \* is the pin to be on, after what was asked for; may
                        \* one tell? (only properties read them)

vars == <<family, flags, latch, mode, pulsing, asked, known>>
pin == <<latch, mode>>

Flags == {"active_low", "default_on", "open_drain", "explore"}
ActiveLow == "active_low" \in flags
Explore == "explore" \in flags

\* On F4 an open-drain pin is an input, or an output that is low.
Switched == family = "F4" /\ "open_drain" \in flags

\* console_gpio_register
Init ==
    /\ family \in {"F1", "F4"} /\ flags \in SUBSET Flags
    /\ latch = (ActiveLow # ("default_on" \in flags))
    /\ mode = CASE Switched \/ (family = "F1" /\ Explore) -> "float"
                [] family = "F1" /\ ~ Explore /\ "open_drain" \in flags -> "opendrain"
                [] OTHER -> "pushpull"
    /\ pulsing = {}
    /\ asked = ("default_on" \in flags) /\ known = (Switched => latch)

\* parse_args: what a word means; "usage" and "read" change nothing.
Action(word) ==
    CASE word = "on" /\ ActiveLow -> "off"
      [] word = "off" /\ ActiveLow -> "on"
      [] word \notin {"on", "off", "toggle", "pulse"} /\ ~ Explore -> "usage"
      [] OTHER -> word

Drive(high) ==
    CASE ~ Switched -> latch' = high /\ UNCHANGED mode
      [] Switched /\ high -> mode' = "float" /\ UNCHANGED latch
      [] OTHER -> latch' = FALSE /\ mode' = "pushpull"

BugToggle ==
    IF ~ Switched THEN latch' = ~ latch /\ UNCHANGED mode
    ELSE mode' = (IF mode = "float" THEN "pushpull" ELSE "float") /\ UNCHANGED latch

\* gpio_toggle, or do_opendrain_toggle
Toggle == IF Switched THEN Drive(mode # "float") ELSE Drive(~ latch)

\* console_gpio_do_cmd and do_opendrain_cmd.  A console whose pulse waits reads
\* no commands.
Switch(word) ==
    /\ Consoles # pulsing
    /\ Drive(Action(word) = "on")
    /\ asked' = (word = "on") /\ known' = (pulsing = {})
    /\ UNCHANGED <<family, flags, pulsing>>

ToggleCmd ==
    /\ Consoles # pulsing
    /\ Toggle /\ asked' = ~ asked
    /\ UNCHANGED <<family, flags, pulsing, known>>

Pulse(c) ==
    /\ c \notin pulsing
    /\ Toggle /\ pulsing' = pulsing \cup {c}
    /\ UNCHANGED <<family, flags, asked, known>>

\* fibre_timeout(*t) is true: after a second.
EndOfPulse(c) ==
    /\ c \in pulsing
    /\ Toggle /\ pulsing' = pulsing \ {c}
    /\ UNCHANGED <<family, flags, asked, known>>

\* Other modes of the pin: on F1 only
Configure(word) ==
    /\ Consoles # pulsing /\ family = "F1" /\ Action(word) = word
    /\ mode' = CASE word = "hiz" -> "float" [] word = "pullupdown" -> "pull" [] OTHER -> word
    /\ UNCHANGED <<family, flags, latch, pulsing, asked, known>>

\* gpio_is_connected pulls the pin up, reads it, pulls it down, reads it again,
\* and leaves it so.
Detect ==
    /\ Consoles # pulsing /\ family = "F1" /\ Action("detect") = "detect"
    /\ latch' = FALSE /\ mode' = "float" /\ known' = FALSE
    /\ UNCHANGED <<family, flags, pulsing, asked>>

Next ==
    \/ Switch("on") \/ Switch("off") \/ ToggleCmd
    \/ \E c \in Consoles : Pulse(c) \/ EndOfPulse(c)
    \/ \E word \in {"hiz", "pullupdown", "opendrain", "pushpull"} : Configure(word)
    \/ Detect

Spec == Init /\ [][Next]_vars

-----------------------------------------------------------------------------
(* Properties *)

Driven == Switched \/ mode \in {"pushpull", "opendrain"}
High == latch \/ (Switched /\ mode = "float")

\* An open-drain pin is never driven high.  A pin that is driven has the level
\* that "on" and "off" ask for, whichever level is the active one and through
\* however many toggles, changes of mode and pulses, those of two consoles that
\* overlap too: when all are over the pin is as it was.  One cannot tell after an
\* "on" or "off" during a pulse, which the end of the pulse undoes, and after
\* "detect", until the next one.
PinAsAsked ==
    /\ Switched /\ mode # "float" => ~ latch
    /\ Driven /\ known => (High # ActiveLow) = (asked # (Cardinality(pulsing) % 2 = 1))
=============================================================================
