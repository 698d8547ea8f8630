---------------------------- MODULE ConsoleShell ----------------------------
(***************************************************************************)
(* The settings of the console (lib/settings.ts) and the views that load   *)
(* from the backend by themselves: the status in the header, mission       *)
(* control, the task board, the tasks of the directive that is selected,   *)
(* the tasks in the sandbox portal and the probes of telemetry.            *)
(*                                                                         *)
(* A view loads when it appears and whenever its effect runs again, then by *)
(* a timer, and after what its user does; the next load does not wait for  *)
(* the last.  Every request reads the stored settings when it is made.     *)
(* Effects run with the step that makes them due.                          *)
(***************************************************************************)
EXTENDS Naturals, Sequences, FiniteSets

CONSTANTS Settings,   \* what a save may store: [url, rate], the rate in seconds
          Default,    \* DEFAULT_SETTINGS
          Pages,      \* pages that are entered
          Keys,       \* what a view may be asked to show
          Has,        \* the pairs of a key and a backend that comes to have data for it
          Own,        \* keys the client's own data have tasks for
          Slots,      \* bound: loads of a view under way
          MaxVersion, \* bound: changes of the data
          MaxSteps    \* bound: saves, selections, gestures and changes of the page

Site == [header |-> "every", home |-> "home", board |-> "tasks", plan |-> "directives",
         portal |-> "sandbox", probes |-> "telemetry"]
Views == DOMAIN Site
Paced == {"header", "home"}          \* the timer follows the settings
Timed == Views \ {"probes"}
Selecting == {"board", "plan"}       \* the effect depends on a selection
KeepsEmpty == {"board"}              \* an empty answer is not shown
Acting == {"home", "plan"}           \* gestures wait for a request, then load
Reading == Views \ {"header"}         \* the health is in the answer, no data are read
\* The requests of a load, made in turn: mission control asks for the directives,
\* then for the tasks (the previews are the client's own).  Bound: two of telemetry's six.
Requests == [v \in Views |-> IF v \in {"home", "probes"} THEN 2 ELSE 1]
Subscribers == {"header", "sidebar", "home"}
Nothing == <<>>
Urls == {s.url : s \in Settings}

ASSUME SettingsAssumption ==
    /\ Default \in Settings /\ \A s \in Settings : DOMAIN s = {"url", "rate"}
    /\ Slots \in [Views -> Nat \ {0}] /\ MaxVersion \in Nat
    /\ "all" \in Own /\ Own \subseteq Keys /\ "every" \notin Pages

VARIABLES
    stored,   \* localStorage: the settings stored last, if any
    synced,   \* no write has failed and no other tab has written since the last save
    known,    \* the settings each subscriber has in its state
    page,     \* the page shown
    key,      \* what each view is asked to show
    timers,   \* the intervals that are set, with what their callbacks have captured
    loads,    \* loads under way
    gestures, \* what waits for a request before it loads, with the key it has captured
    shows,    \* what each view shows: the key it was loaded for and the answers
    version,  \* of the data in the backends, none at first
    steps     \* of the user, for the bound

settings == <<stored, synced, known>>
screen == <<page, key, timers>>
vars == <<settings, screen, loads, gestures, shows, version, steps>>

-----------------------------------------------------------------------------
\* getStoredSettings
Effective(st) == IF st = {} THEN Default ELSE CHOOSE s \in st : TRUE
Backend == Effective(stored).url

Mounted(v, p) == Site[v] \in {"every", p}
Listening(p) == {v \in Subscribers : v = "sidebar" \/ Mounted(v, p)}

\* A rate of 0, which the editors call disabled, sets an interval of 10 seconds too.
Interval(v, s) == IF v \notin Paced THEN 3 ELSE IF s[v].rate = 0 THEN 10 ELSE s[v].rate
Timer(v, k, s) == [view |-> v, key |-> k, rate |-> Interval(v, s)]
TimersOf(v) == {t \in timers : t.view = v}

Free(v, ls) == {i \in 1 .. Slots[v] : \A l \in ls : l.view = v => l.slot # i}
Load(v, k, i, url) ==
    [view |-> v, slot |-> i, key |-> k, url |-> url, got |-> {}, had |-> <<>>]
First(v, ls) == CHOOSE i \in Free(v, ls) : \A j \in Free(v, ls) : i <= j

\* The effect of a view: a load at once and, if it has a timer, an interval.
Begins(v, k, url, ls) == ls \cup {Load(v, k, First(v, ls), url)}

\* The console is opened at some page, with what an earlier session has stored.
Init ==
    /\ stored \in {{}} \cup {{s} : s \in Settings} /\ synced = TRUE
    /\ known = [v \in Subscribers |-> Effective(stored)]
    /\ page \in Pages
    /\ key = [v \in Views |-> "all"]
    /\ timers = {Timer(v, "all", known) : v \in {w \in Timed : Mounted(w, page)}}
    /\ loads = {Load(v, "all", 1, Backend) : v \in {w \in Views : Mounted(w, page)}}
    /\ gestures = {}
    /\ shows = [v \in Views |-> Nothing]
    /\ version = 0
    /\ steps = 0

-----------------------------------------------------------------------------
(* The settings                                                            *)

\* The listeners hear of new settings; where the rate is another one the effect
\* runs again.
Announce(s, url) ==
    LET again == {v \in Paced \cap Listening(page) : known[v].rate # s.rate} IN
    /\ \A v \in again : Free(v, loads) # {}
    /\ known' = [v \in Subscribers |-> IF v \in Listening(page) THEN s ELSE known[v]]
    /\ timers' = {t \in timers : t.view \notin again} \cup {Timer(v, key[v], known') : v \in again}
    /\ loads' = loads \cup {Load(v, key[v], First(v, loads), url) : v \in again}

Edit == /\ steps < MaxSteps
        /\ steps' = steps + 1
        /\ UNCHANGED <<page, key, gestures, shows, version>>

\* saveStoredSettings: an editor saves all its fields.  A write that fails is
\* swallowed and the listeners hear of the settings all the same.
Save(s) ==
    /\ Edit
    /\ \/ stored' = {s} /\ synced' = TRUE
       \/ stored' = stored /\ synced' = FALSE
    /\ Announce(s, Effective(stored').url)

\* Mutant: the listeners are not told of the defaults.
ResetSilently ==
    /\ Edit
    /\ stored' = {} /\ synced' = TRUE
    /\ UNCHANGED <<known, timers, loads>>

\* resetStoredSettings
Reset ==
    /\ Edit
    /\ stored' = {} /\ synced' = TRUE
    /\ Announce(Default, Default.url)

\* Another tab saves: no listener of this one hears of it.
OtherTab(s) ==
    /\ Edit
    /\ stored' = {s} /\ synced' = FALSE
    /\ UNCHANGED <<known, timers, loads>>

-----------------------------------------------------------------------------
(* The screen                                                              *)

\* Mutant: the intervals of the page that is left stay set.
LeaveRunning(p) == timers
\* What the clean-up of the effects leaves.
Leave(p) == {t \in timers : Mounted(t.view, p)}

\* A page appears as it is when new: its views show nothing, have read the
\* settings and load.  What was loading for the page that is left is not shown, nor
\* what a gesture there still loads.
Enter(p) ==
    LET views == {v \in Views : Site[v] = p} IN
    /\ p # page /\ steps < MaxSteps
    /\ steps' = steps + 1
    /\ page' = p
    /\ key' = [v \in Views |-> IF Site[v] = "every" THEN key[v] ELSE "all"]
    /\ known' = [v \in Subscribers |->
                    IF v \in Listening(page) /\ v \in Listening(p) THEN known[v]
                    ELSE Effective(stored)]
    /\ timers' = Leave(p) \cup {Timer(v, "all", known') : v \in views \cap Timed}
    /\ loads' = {l \in loads : Mounted(l.view, p)} \cup {Load(v, "all", 1, Backend) : v \in views}
    /\ gestures' = {}
    /\ shows' = [v \in Views |-> IF Site[v] = "every" THEN shows[v] ELSE Nothing]
    /\ UNCHANGED <<stored, synced, version>>

\* Mutant: the effect runs again and does not clear the interval of the last one.
SelectKeepingTimer(v, k) ==
    /\ v \in Selecting /\ Mounted(v, page) /\ k # key[v]
    /\ steps < MaxSteps /\ Free(v, loads) # {}
    /\ steps' = steps + 1
    /\ key' = [key EXCEPT ![v] = k]
    /\ timers' = timers \cup {Timer(v, k, known)}
    /\ loads' = Begins(v, k, Backend, loads)
    /\ UNCHANGED <<settings, page, gestures, shows, version>>

\* Another filter or directive is selected: the rows stay until a load replaces them.
Select(v, k) ==
    /\ v \in Selecting /\ Mounted(v, page) /\ k # key[v]
    /\ steps < MaxSteps /\ Free(v, loads) # {}
    /\ steps' = steps + 1
    /\ key' = [key EXCEPT ![v] = k]
    /\ timers' = (timers \ TimersOf(v)) \cup {Timer(v, k, known)}
    /\ loads' = Begins(v, k, Backend, loads)
    /\ UNCHANGED <<settings, page, gestures, shows, version>>

\* The interval calls what it has captured, whether the last load has ended or not.
\* The wait for the headers of its first request is over by then: 2.5 s, or 1.5 s
\* for the health, are less than any interval.
Tick(t) ==
    /\ t \in timers /\ Free(t.view, loads) # {}
    /\ \A l \in loads : l.view = t.view => l.got # {} \/ l.had # <<>>
    /\ loads' = Begins(t.view, t.key, Backend, loads)
    /\ UNCHANGED <<settings, screen, gestures, shows, version, steps>>

\* A task is advanced, or all are, in the client's own data: no request is waited for.
Advance ==
    /\ Mounted("board", page) /\ steps < MaxSteps /\ Free("board", loads) # {}
    /\ steps' = steps + 1
    /\ loads' = Begins("board", key["board"], Backend, loads)
    /\ UNCHANGED <<settings, screen, gestures, shows, version>>

\* A directive is launched or run: the handler waits for the request, with the
\* directive that was selected.  Bound: one at a time in a view.
Click(v) ==
    /\ v \in Acting /\ Mounted(v, page) /\ steps < MaxSteps
    /\ \A h \in gestures : h.view # v
    /\ steps' = steps + 1
    /\ gestures' = gestures \cup {[view |-> v, key |-> key[v]]}
    /\ UNCHANGED <<settings, screen, loads, shows, version>>

\* The request has ended, one way or the other, and the handler loads.
Reload(h) ==
    /\ h \in gestures /\ Free(h.view, loads) # {}
    /\ gestures' = gestures \ {h}
    /\ loads' = Begins(h.view, h.key, Backend, loads)
    /\ UNCHANGED <<settings, screen, shows, version, steps>>

-----------------------------------------------------------------------------
(* Loads                                                                   *)

Serve(l) ==
    /\ l \in loads /\ l.view \in Reading /\ l.got = {}
    /\ loads' = (loads \ {l}) \cup {[l EXCEPT !.got = {version}]}
    /\ UNCHANGED <<settings, screen, gestures, shows, version, steps>>

\* The version a request has read; none if it was refused or lost, and the client's
\* own data is taken.
Answer(l, g) == [url |-> l.url, got |-> g]

\* An answer without rows: of a backend that has none for the key, or of the
\* client's own data, filtered to nothing.
Empty(k, url, g) == IF g = {} THEN k \notin Own ELSE g = {0} \/ <<k, url>> \notin Has

\* The next request of the load, or the end of it.
Continue(l, g) ==
    LET had == Append(l.had, Answer(l, g)) IN
    IF Len(had) < Requests[l.view]
    THEN /\ loads' = (loads \ {l}) \cup {[Load(l.view, l.key, l.slot, Backend) EXCEPT !.had = had]}
         /\ UNCHANGED shows
    ELSE /\ loads' = loads \ {l}
         /\ shows' = IF l.view \in KeepsEmpty /\ Empty(l.key, l.url, g) THEN shows
                     ELSE [shows EXCEPT ![l.view] = [key |-> l.key, had |-> had]]

Return(l) ==
    /\ l \in loads
    /\ Continue(l, l.got) \/ Continue(l, {})
    /\ UNCHANGED <<settings, screen, gestures, version, steps>>

Change ==
    /\ version < MaxVersion /\ version' = version + 1
    /\ UNCHANGED <<settings, screen, loads, gestures, shows, steps>>

-----------------------------------------------------------------------------
Next ==
    \/ \E s \in Settings : Save(s) \/ OtherTab(s)
    \/ Reset
    \/ \E p \in Pages : Enter(p)
    \/ \E v \in Views, k \in Keys : Select(v, k)
    \/ \E t \in timers : Tick(t)
    \/ Advance
    \/ \E v \in Views : Click(v)
    \/ \E h \in gestures : Reload(h)
    \/ \E l \in loads : Serve(l) \/ Return(l)
    \/ Change

\* An interval that is set goes off, and every request ends: the client stops
\* waiting for headers, and the connection brings the body or breaks.
Fairness ==
    /\ \A v \in Views : WF_vars(\E t \in TimersOf(v) : Tick(t))
    /\ \A v \in Views : \A i \in 1 .. Slots[v] :
        WF_vars(\E l \in loads : l.view = v /\ l.slot = i /\ Return(l))

Spec == Init /\ [][Next]_vars /\ Fairness

-----------------------------------------------------------------------------
\* Every subscriber on the screen has the settings that requests are made with,
\* unless they could not be written or come from another tab (saveStoredSettings,
\* resetStoredSettings, subscribeSettings).
ListenersAgree ==
    synced => \A v \in Listening(page) : known[v] = Effective(stored)

\* A view on the screen has one interval, for what is selected now and at the rate
\* it knows; no view of another page has any (the effects and their clean-up).
OneTimerEach ==
    \A v \in Timed : TimersOf(v) = IF Mounted(v, page) THEN {Timer(v, key[v], known)} ELSE {}

\* A view shows what its user asked for as the backend of the settings has it now,
\* or the client's own data.
Current(v) ==
    /\ shows[v] # Nothing /\ shows[v].key = key[v]
    /\ \A i \in DOMAIN shows[v].had :
         shows[v].had[i].url = Backend /\ shows[v].had[i].got \in {{version}, {}}

\* The board keeps its rows while the answers are empty, if need be for good: those
\* of the filter or the backend before.  Nothing is said of it where an answer may be.
MayKeep(v) ==
    v \in KeepsEmpty /\ \E g \in {{version}, {}} : Empty(key[v], Backend, g)

\* Whatever was saved, selected, left and loaded in whatever order, what a polling
\* view shows is at last, and for good, current, unless its answers may be empty and
\* it keeps its rows then (the effects and fetchTasks).
ViewsCatchUp ==
    <>[](\A v \in Timed : Mounted(v, page) => Current(v) \/ MayKeep(v))

=============================================================================
