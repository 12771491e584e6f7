--------------------------- MODULE CaptiveWindow ---------------------------
(***************************************************************************)
(* AppleProbe decides whether the captive-portal sheet of a phone stays    *)
(* open, from when the page was last served.  The time is a u32 of         *)
(* milliseconds that wraps.  The web tasks that serve the page and answer  *)
(* the probe do each without an await in between.                          *)
(***************************************************************************)
EXTENDS Integers

CONSTANTS
    UiWindow,       \* UI_CAPTIVE_MS
    ClockMod        \* 2^32, the period of Instant as u32 milliseconds

ASSUME WindowAssumption == ClockMod \in Nat \ {0} /\ UiWindow \in 0..ClockMod

VARIABLES
    served, lastUi, \* SERVED_UI and LAST_UI_MS
    now,            \* Instant::now() as u32
    idle            \* history: the time since the page was last served, capped

portal == <<served, lastUi, now, idle>>

-----------------------------------------------------------------------------
\* MarkUi: the page is served.
mark_ui_served ==
    /\ served' = TRUE /\ lastUi' = now /\ idle' = 0
    /\ UNCHANGED now

\* Mutation of apple_probe_done: the subtraction does not wrap.
probe_done_signed == served /\ now - lastUi < UiWindow

\* The Apple probe is told that there is no portal (any more).
apple_probe_done == served /\ (now - lastUi + ClockMod) % ClockMod < UiWindow

Tick ==
    /\ now' = (now + 1) % ClockMod
    /\ idle' = IF idle < ClockMod THEN idle + 1 ELSE idle
    /\ UNCHANGED <<served, lastUi>>

WindowInit == served = FALSE /\ lastUi = 0 /\ now = 0 /\ idle = ClockMod

WindowNext == mark_ui_served \/ Tick

WindowSpec == WindowInit /\ [][WindowNext]_portal

-----------------------------------------------------------------------------
(* Properties.                                                             *)

\* Within the window after the page was served, and only then, the probe is
\* told so, wherever the clock wraps; an idle portal opens the window again
\* only after a whole period of the clock (49 days).
WindowIsExact == idle < ClockMod => (apple_probe_done <=> served /\ idle < UiWindow)
=============================================================================
