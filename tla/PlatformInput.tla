--------------------------- MODULE PlatformInput ---------------------------
(***************************************************************************)
(* The host's input injection (a fixed-window rate limiter in front of     *)
(* SendInput or a recording stub) and the kill-switch registrar.           *)
(* Time is counted in ticks, Second of them to a second; positions are     *)
(* fractions n/Grid of the screen.                                         *)
(***************************************************************************)
EXTENDS Integers, Sequences, FiniteSets

CONSTANTS Second,      \* ticks in a second
          MaxTime,     \* bound on time
          MaxPerSec,   \* max_events_per_sec as configured
          Grid, Positions,   \* positions n stand for n / Grid
          Spots,       \* positions of events
          Widths,      \* screen sizes the stub is tried with
          Keys,        \* scan codes; those above MaxScancode are invalid
          MaxScancode,
          Handles      \* registrations of the kill-switch

ASSUME InputAssumption ==
    /\ Second \in Nat \ {0} /\ MaxTime \in Nat /\ MaxPerSec \in Nat
    /\ Grid \in Nat \ {0} /\ Positions \subseteq Int /\ Spots \subseteq Int
    /\ Widths \subseteq Nat /\ Keys \subseteq Nat /\ MaxScancode \in Nat
    /\ 0 \notin Handles

VARIABLES
    part,           \* "inject" or "kill": what this behaviour drives
    now, backend,
    window_start, window_count, metrics,
    admitted,       \* when each accepted event was accepted
    os,             \* pointer, keys and buttons held, last button's position
    remote,         \* keys the viewer holds down
    lost,           \* keys with an event dropped or failed since last in step
    registrar,      \* the registration it holds, and the armed flags
    handles,        \* handles alive
    trigger         \* callback a trigger has taken from the registrar

limiter == <<window_start, window_count, metrics, admitted>>
kill == <<registrar, handles, trigger>>
ivars == <<part, now, backend, window_start, window_count, metrics, admitted, os,
           remote, lost, registrar, handles, trigger>>
-----------------------------------------------------------------------------
(* Where a normalised position lands *)

Clamp(n) == IF n < 0 THEN 0 ELSE IF n > Grid THEN Grid ELSE n

\* round(n / Grid * top), halves away from zero.
Scale(n, top) == (2 * Clamp(n) * top + Grid) \div (2 * Grid)

\* StubInjector::map_to_pixels, one axis.
MapToPixels(width, n) == Scale(n, (IF width = 0 THEN 1 ELSE width) - 1)

\* WindowsInjector::map_abs, one axis: SendInput's own grid.
AbsMax == 65535
MapAbs(n) == Scale(n, AbsMax)
-----------------------------------------------------------------------------
(* Opening *)

Modes == {"prefer_native", "stub_only", "native_only"}

\* opens: GetSystemMetrics gives a size for the screen.
OpenInjector(mode, windows, opens) ==
    CASE mode = "stub_only" -> "stub"
      [] mode = "prefer_native" -> IF windows /\ opens THEN "sendinput" ELSE "stub"
      [] mode = "native_only" -> IF windows /\ opens THEN "sendinput" ELSE "error"

MaxEvents == IF MaxPerSec = 0 THEN 1 ELSE MaxPerSec

\* KillSwitchRegistrar::new
NewRegistrar == [of |-> 0, armed |-> [h \in Handles \cup {0} |-> FALSE]]

InputInit ==
    /\ now = 0 /\ window_start = 0 /\ window_count = 0
    /\ backend \in {OpenInjector(m, w, o) : m \in Modes, w \in BOOLEAN, o \in BOOLEAN} \ {"error"}
    /\ metrics = [accepted |-> 0, dropped |-> 0]
    /\ admitted = <<>>
    /\ os = [pointer |-> 0, keys |-> {}, buttons |-> {}, clicked |-> <<>>]
    /\ remote = {} /\ lost = {}
    /\ registrar = NewRegistrar
    /\ handles = {} /\ trigger = 0
-----------------------------------------------------------------------------
(* SendInput calls of one event, in order.  A failing call ends the event
   with what was sent so far: done is how many calls succeeded. *)

Pointer(o, n) == [o EXCEPT !.pointer = MapAbs(n)]
Button(o, n, pressed) ==
    [o EXCEPT !.buttons = IF pressed THEN {"left"} ELSE {},
              !.clicked = <<o.pointer, MapAbs(n)>>]
Key(o, k, pressed) ==
    [o EXCEPT !.keys = IF pressed THEN @ \cup {k} ELSE @ \ {k}]

InjectKey(k, pressed, done) == IF done = 0 THEN os ELSE Key(os, k, pressed)

InjectMouseMove(n, done) == IF done = 0 THEN os ELSE Pointer(os, n)

InjectMouseButton(n, pressed, done) ==
    CASE done = 0 -> os
      [] done = 1 -> Pointer(os, n)
      [] OTHER -> Button(Pointer(os, n), n, pressed)

\* Position, then one call per axis that turns; the turn itself leaves no
\* state behind.
InjectMouseWheel(n, done) == IF done = 0 THEN os ELSE Pointer(os, n)

Events ==
    [kind : {"key"}, k : Keys, pressed : BOOLEAN] \cup
    [kind : {"move"}, n : Spots] \cup
    [kind : {"button"}, n : Spots, pressed : BOOLEAN] \cup
    [kind : {"wheel"}, n : Spots, axes : 0 .. 2]

Calls(e) ==
    CASE e.kind = "key" -> IF e.k > MaxScancode THEN 0 ELSE 1
      [] e.kind = "move" -> 1
      [] e.kind = "button" -> 2
      [] e.kind = "wheel" -> 1 + e.axes

Valid(e) == e.kind = "key" => e.k <= MaxScancode

Inject(e, done) ==
    CASE e.kind = "key" -> InjectKey(e.k, e.pressed, done)
      [] e.kind = "move" -> InjectMouseMove(e.n, done)
      [] e.kind = "button" -> InjectMouseButton(e.n, e.pressed, done)
      [] e.kind = "wheel" -> InjectMouseWheel(e.n, done)
-----------------------------------------------------------------------------
(* The rate limiter: try_inject *)

\* Mutant: a new window keeps the old start, so that every later event opens
\* a window of its own.
RollWithoutStart ==
    IF now - window_start >= Second THEN [start |-> window_start, count |-> 0]
    ELSE [start |-> window_start, count |-> window_count]

RollWindowIfNeeded ==
    IF now - window_start >= Second THEN [start |-> now, count |-> 0]
    ELSE [start |-> window_start, count |-> window_count]

Held(e) == IF e.kind # "key" THEN remote ELSE IF e.pressed THEN remote \cup {e.k} ELSE remote \ {e.k}
KeysOf(e) == IF e.kind = "key" THEN {e.k} ELSE {}

\* The stub records, SendInput acts.
Accept1(e) ==
    LET w == RollWindowIfNeeded IN
    /\ w.count < MaxEvents /\ (backend = "sendinput" => Valid(e))
    /\ window_start' = w.start /\ window_count' = w.count + 1
    /\ metrics' = [metrics EXCEPT !.accepted = @ + 1]
    /\ admitted' = Append(admitted, now)
    /\ os' = IF backend = "stub" THEN os ELSE Inject(e, Calls(e))
    /\ remote' = Held(e) /\ lost' = lost \ KeysOf(e)

DropByRate(e) ==
    LET w == RollWindowIfNeeded IN
    /\ w.count >= MaxEvents
    /\ window_start' = w.start /\ window_count' = w.count
    /\ metrics' = [metrics EXCEPT !.dropped = @ + 1]
    /\ remote' = Held(e) /\ lost' = lost \cup KeysOf(e)
    /\ UNCHANGED <<admitted, os>>

\* The event is invalid or a call fails: the window has rolled, nothing is
\* counted, and the calls before the failing one have had their effect.
InjectFails(e) ==
    LET w == RollWindowIfNeeded IN
    /\ w.count < MaxEvents /\ backend = "sendinput"
    /\ window_start' = w.start /\ window_count' = w.count
    /\ \E done \in 0 .. Calls(e) : (Valid(e) => done < Calls(e)) /\ os' = Inject(e, done)
    /\ remote' = Held(e) /\ lost' = lost \cup KeysOf(e)
    /\ UNCHANGED <<metrics, admitted>>

TryInject ==
    /\ part = "inject" /\ Len(admitted) + metrics.dropped < 4 * MaxEvents
    /\ \E e \in Events : Accept1(e) \/ DropByRate(e) \/ InjectFails(e)
    /\ UNCHANGED <<part, now, backend, kill>>

Tick ==
    /\ part = "inject" /\ now < MaxTime
    /\ now' = now + 1
    /\ UNCHANGED <<part, backend, limiter, os, remote, lost, kill>>
-----------------------------------------------------------------------------
(* The kill-switch registrar *)

\* Every registration has an armed flag of its own.
Register(h) ==
    /\ h \notin handles
    /\ ~registrar.armed[registrar.of]
    /\ registrar' = [of |-> h, armed |-> [registrar.armed EXCEPT ![h] = TRUE]]
    /\ handles' = handles \cup {h} /\ UNCHANGED trigger

\* KillSwitchHandle's drop stores into the flag, outside the registrar's lock.
DropHandle(h) ==
    /\ h \in handles /\ handles' = handles \ {h}
    /\ registrar' = [registrar EXCEPT !.armed[h] = FALSE]
    /\ UNCHANGED trigger

\* trigger takes the callback under the lock ...
TriggerTakes ==
    /\ trigger = 0 /\ registrar.armed[registrar.of]
    /\ trigger' = registrar.of /\ UNCHANGED <<registrar, handles>>

\* ... and calls it after the lock is released.
TriggerCalls ==
    /\ trigger # 0 /\ trigger' = 0 /\ UNCHANGED <<registrar, handles>>

KillSwitchStep ==
    /\ part = "kill"
    /\ \/ \E h \in Handles : Register(h) \/ DropHandle(h)
       \/ TriggerTakes \/ TriggerCalls
    /\ UNCHANGED <<part, now, backend, limiter, os, remote, lost>>

InputNext == TryInject \/ Tick \/ KillSwitchStep

InputSpec == part \in {"inject", "kill"} /\ InputInit /\ [][InputNext]_ivars
-----------------------------------------------------------------------------
(* Properties *)

\* Type correctness.
InputTypeOK ==
    /\ now \in 0 .. MaxTime /\ backend \in {"stub", "sendinput"}
    /\ window_start \in 0 .. now /\ window_count \in 0 .. MaxEvents
    /\ os.keys \subseteq Keys /\ remote \subseteq Keys /\ lost \subseteq Keys
    /\ handles \subseteq Handles /\ trigger \in Handles \cup {0}

\* No second, wherever it starts, sees more than twice the cap of accepted
\* events (RateLimitedInjector: "up to ~2x max_per_sec across the boundary").
BurstBounded ==
    \A t \in 0 .. now :
        Cardinality({i \in DOMAIN admitted : admitted[i] \in t .. (t + Second - 1)})
            <= 2 * MaxEvents

\* The host holds exactly the keys the viewer holds, except those an event
\* of which was dropped by the limiter or refused by SendInput.
KeysInStep == backend = "sendinput" => os.keys \ lost = remote \ lost

\* A button goes down or up where the viewer clicked, also when the call
\* that positions the pointer or the one after it fails.
ClickAtPointer == os.clicked # <<>> => os.clicked[1] = os.clicked[2]

\* Every position of the picture lands on the screen, the corners on the
\* corners, and left stays left (map_to_pixels, map_abs).
PointerCoversScreen ==
    /\ os.pointer \in 0 .. AbsMax
    /\ \A w \in Widths : LET top == IF w = 0 THEN 0 ELSE w - 1 IN
        /\ \A m, n \in Positions : m <= n => MapToPixels(w, m) <= MapToPixels(w, n)
        /\ MapToPixels(w, 0) = 0 /\ MapToPixels(w, Grid) = top
        /\ \A n \in Positions : MapToPixels(w, n) \in 0 .. top
    /\ MapAbs(0) = 0 /\ MapAbs(Grid) = AbsMax

\* As long as its handle is kept, a registration is the one a hotkey
\* triggers: no later registration or dropped handle disarms it.
LiveHandleTriggers ==
    \A h \in handles : registrar.of = h /\ registrar.armed[h]

\* Remote input stays within its bounds and in step with the viewer, and the
\* local kill-switch armed for as long as its handle is kept.
InputSound ==
    /\ InputTypeOK /\ BurstBounded /\ KeysInStep /\ ClickAtPointer
    /\ PointerCoversScreen /\ LiveHandleTriggers
=============================================================================
