------------------------------- MODULE Screen -------------------------------
(***************************************************************************)
(* screen.c: what the small display shows.  Every half second a callback   *)
(* of the graphics task picks the screen for the most urgent condition, or *)
(* moves a carousel on; the button moves it on too.  The conditions are    *)
(* set by the other tasks.  The logo screens are deleted when they are     *)
(* left.  Times are in periods of the callback; what the labels say is     *)
(* left out.                                                               *)
(***************************************************************************)
EXTENDS Integers, Sequences

CONSTANTS
    CarouselDelay, \* delays_ms of a carousel screen
    WakeTime,      \* BUTTON_WAKE_MS
    Timeouts,      \* display timeouts: negative is always on, 0 is off
    IdentifyTime,  \* identify_mode_time_ms of a request
    MaxChanges     \* bound: changes of the conditions

VARIABLES
    onScreen,   \* get_current_screen(), 0 before the first one
    alive,      \* the screens that lv_obj_is_valid accepts
    shownFor,   \* current_screen_time_ms
    shownDelay, \* current_screen_delay_ms
    timeout,    \* NVS_CONFIG_DISPLAY_TIMEOUT
    idle,       \* lv_display_get_inactive_time
    lit,        \* display_state_on: the panel is on
    covered,    \* the top layer is opaque and shows only the identify image
    identify,   \* identify_mode_time_ms
    idRead,     \* identify_mode_time_ms as the callback read it; none outside it
    cond,       \* the conditions that hold
    changes,    \* history, for the bound
    settled     \* history: whole callbacks, with the panel obeying, since a condition changed,
                \* a button was pressed or the device was asked to identify itself

screenVars == <<onScreen, alive, shownFor, shownDelay, timeout, idle, lit, covered, identify,
                idRead, cond, changes, settled>>

None == -100

\* screen_t, counted from 1.
Names == <<"selftest", "overheat", "asic", "welcome", "firmware", "connection", "bitaxe", "osmu",
           "urls", "stats", "mining", "wifi">>
Number(name) == CHOOSE i \in DOMAIN Names : Names[i] = name
CarouselStart == Number("urls")
Logos == {Number("bitaxe"), Number("osmu")}

Delay(s) == IF s \in Logos \cup {Number("connection")} THEN 1
            ELSE IF s >= CarouselStart THEN CarouselDelay ELSE 0

\* What can hold: a test, an update, a chip or heat alarm, no network configured, a
\* new WiFi status, no connection, a block found.
Conditions == {"selftest", "firmware", "asic", "overheat", "welcome", "changed", "offline", "block"}

\* Clocks saturate; the callback is between two reads of the identify time at most.
ScreenTypeOK ==
    /\ onScreen \in 0 .. Len(Names) /\ alive \subseteq DOMAIN Names
    /\ shownFor \in 0 .. CarouselDelay + 1 /\ idle \in 0 .. WakeTime + 1
    /\ identify \in -1 .. IdentifyTime /\ idRead \in {None} \cup 0 .. IdentifyTime
    /\ cond \subseteq Conditions /\ {lit, covered} \subseteq BOOLEAN

ScreenInit ==
    /\ onScreen = 0 /\ alive = DOMAIN Names /\ shownFor = 0 /\ shownDelay = 0
    /\ timeout \in Timeouts /\ idle = 0 /\ lit = TRUE /\ covered = FALSE
    /\ identify = 0 /\ idRead = None
    /\ cond \in {{"changed", "offline"}, {"welcome", "offline"}, {"selftest"}} /\ changes = 0 /\ settled = 0

-----------------------------------------------------------------------------

Capped(n, top) == IF n > top THEN top ELSE n

\* Mutant: every index of the table is a screen.
Mut_IsValid(s) == s \in DOMAIN Names

\* lv_obj_is_valid, which both a direct show and the search for the next ask.
IsValid(s) == s \in alive

\* screen_show: the screen that is left is deleted if it was a logo.
ScreenShow(s, trigger) ==
    /\ idle' = IF trigger THEN 0 ELSE Capped(idle + 1, WakeTime + 1)
    /\ IF onScreen # s /\ IsValid(s)
       THEN onScreen' = s /\ alive' = alive \ (Logos \cap {onScreen})
       ELSE UNCHANGED <<onScreen, alive>>

\* Its time starts again when the picture changes.
Timed(s, now) ==
    IF onScreen # s THEN shownFor' = 0 /\ shownDelay' = Delay(s)
    ELSE shownFor' = now /\ UNCHANGED shownDelay

Show(s, now) == ScreenShow(s, s < CarouselStart) /\ Timed(s, now)

After(s) == IF s = Len(Names) THEN CarouselStart ELSE s + 1

\* The screens that screen_next tries, in order, up to the first that is valid: a
\* logo may be gone, and both, but what follows them never is.
Candidates ==
    LET first == After(onScreen)
        second == After(first)
    IN  IF IsValid(first) THEN <<first>>
        ELSE IF IsValid(second) THEN <<first, second>>
        ELSE <<first, second, After(second)>>

ScreenNext(now) ==
    LET next == Candidates[Len(Candidates)]
    IN  /\ ScreenShow(next, \E i \in DOMAIN Candidates : Candidates[i] < CarouselStart)
        /\ Timed(next, now)

-----------------------------------------------------------------------------
(* The callback *)

\* It reads the identify time; other tasks may write it before it is stored.
ReadIdentify ==
    /\ idRead = None
    /\ idRead' = IF identify > 0 THEN identify ELSE 0
    /\ UNCHANGED <<onScreen, alive, shownFor, shownDelay, timeout, idle, lit, covered, identify, cond,
                   changes, settled>>

\* enable_display
Enabled(identifying) ==
    \/ timeout < 0
    \/ timeout = 0 /\ (onScreen \in 1 .. CarouselStart - 1 \/ idle < WakeTime)
    \/ timeout > 0 /\ (idle < timeout \/ onScreen \in 1 .. CarouselStart - 1 \/ identifying)

\* The most urgent condition, in the order of the callback's early returns.
Urgent ==
    CASE "selftest" \in cond -> "selftest"
      [] "selftest" \notin cond /\ "firmware" \in cond -> "firmware"
      [] cond \cap {"selftest", "firmware"} = {} /\ "asic" \in cond -> "asic"
      [] cond \cap {"selftest", "firmware", "asic"} = {} /\ "overheat" \in cond -> "overheat"
      [] cond \cap {"selftest", "firmware", "asic", "overheat"} = {} /\ "welcome" \in cond -> "welcome"
      [] cond \cap {"selftest", "firmware", "asic", "overheat", "welcome"} = {}
         /\ cond \cap {"changed", "offline"} # {} -> "connection"
      [] OTHER -> "carousel"

\* screen_update_cb: the identify time counts down, the panel is switched (or its
\* driver fails, and it stays as it was), identifying covers all screens, then the
\* first condition decides; a new WiFi status is shown once.  A request that comes
\* between the test and the subtraction is subtracted from, or lost.
Update ==
    /\ idRead # None /\ idRead' = None
    /\ identify' \in IF idRead > 0 THEN {idRead - 1, identify - 1} ELSE {identify}
    /\ lit' \in {lit, Enabled(identify' > 0)}
    /\ covered' = IF Urgent = "selftest" THEN covered ELSE identify' > 0
    /\ LET now == Capped(shownFor + 1, CarouselDelay + 1)
       IN  IF Urgent # "carousel" THEN Show(Number(Urgent), shownFor)
           ELSE IF "block" \in cond
           THEN ScreenShow(Number("stats"), TRUE) /\ Timed(Number("stats"), now)
           ELSE IF now <= shownDelay
           THEN /\ shownFor' = now /\ idle' = Capped(idle + 1, WakeTime + 1)
                /\ UNCHANGED <<onScreen, alive, shownDelay>>
           ELSE ScreenNext(now)
    /\ cond' = IF Urgent = "connection" THEN cond \ {"changed"} ELSE cond
    /\ settled' = IF lit' = Enabled(identify' > 0) THEN Capped(settled + 1, 2) ELSE 0
    /\ UNCHANGED <<timeout, changes>>

\* screen_button_press, which a self test does not register; any press is activity
\* of the input device.
ButtonPress ==
    /\ "selftest" \notin cond /\ idRead = None /\ changes < MaxChanges /\ changes' = changes + 1
    /\ IF identify > 0
       THEN /\ identify' = 0 /\ idle' = 0 /\ UNCHANGED <<onScreen, alive, shownFor, shownDelay>>
       ELSE /\ UNCHANGED identify
            /\ LET next == Candidates[Len(Candidates)]
               IN  ScreenShow(next, TRUE) /\ Timed(next, shownFor)
    /\ settled' = 0
    /\ UNCHANGED <<timeout, lit, covered, idRead, cond>>

\* POST_identify, from the web server's task: on, or off again.
PostIdentify ==
    /\ changes < MaxChanges /\ changes' = changes + 1
    /\ identify' = IF identify > 0 THEN 0 ELSE IdentifyTime
    /\ settled' = 0
    /\ UNCHANGED <<onScreen, alive, shownFor, shownDelay, timeout, idle, lit, covered, idRead, cond>>

\* Another task raises or clears a condition: POST_dismiss_block_found, the power
\* task, an upload, the WiFi events.
Change ==
    /\ changes < MaxChanges /\ changes' = changes + 1
    /\ \E c \in Conditions \ {"selftest", "welcome"} :
          cond' = IF c \in cond THEN cond \ {c} ELSE cond \cup {c}
    /\ settled' = 0
    /\ UNCHANGED <<onScreen, alive, shownFor, shownDelay, timeout, idle, lit, covered, identify,
                   idRead>>

ScreenStep == ReadIdentify \/ Update \/ ButtonPress \/ PostIdentify \/ Change

ScreenSpec == ScreenInit /\ [][ScreenStep]_screenVars

-----------------------------------------------------------------------------
(* Properties *)

\* The display never keeps a screen that was deleted, whatever interrupts the
\* logos, and two callbacks after the last change an alarm is on the panel and the
\* panel is on, whatever the display timeout and however long nobody touched it:
\* unless the device is identifying itself, which hides every screen.
AlarmOnDisplay ==
    /\ onScreen \in alive \cup {0}
    /\ settled = 2 /\ Urgent \in {"firmware", "asic", "overheat"}
          => Names[onScreen] = Urgent /\ lit /\ (covered => identify > 0)
=============================================================================
