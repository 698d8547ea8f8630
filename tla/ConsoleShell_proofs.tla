------------------------ MODULE ConsoleShell_proofs ------------------------
(***************************************************************************)
(* What the console shell keeps true whatever the settings, the pages and  *)
(* the bounds are: who listens has the settings that requests are made     *)
(* with, and an interval is set exactly for what is on the screen.         *)
(***************************************************************************)
EXTENDS ConsoleShell, TLAPS

\* The sorts of what the two invariants read.
Sorts == /\ page \in Pages
         /\ key \in [Views -> Keys]
         /\ DOMAIN known = Subscribers

\* Both invariants, and that each interval belongs to a view that has one: the
\* clean-up of an effect finds the intervals of its view and no others.
IInv == /\ Sorts
        /\ \A t \in timers : t.view \in Timed
        /\ ListenersAgree
        /\ OneTimerEach

-----------------------------------------------------------------------------
(* The views                                                               *)

LEMMA Sites ==
    /\ Views = {"header", "home", "board", "plan", "portal", "probes"}
    /\ Site["header"] = "every"
    /\ \A v \in Views : v # "header" => Site[v] # "every"
  BY DEF Views, Site

\* The views with a pace of their own are subscribers, and listen while mounted.
LEMMA PacedListen ==
    /\ Paced \subseteq Timed /\ Paced \subseteq Subscribers /\ "sidebar" \notin Paced
    /\ Timed \subseteq Views
    /\ \A v \in Paced, p \in Pages : v \in Listening(p) <=> Mounted(v, p)
  BY Sites DEF Paced, Timed, Subscribers, Listening

LEMMA StoredAlone == \A s : Effective({s}) = s
  BY DEF Effective

LEMMA StoredNothing == Effective({}) = Default
  BY DEF Effective

\* The settings matter to a timer by the rate of its own view alone.
LEMMA SamePace ==
    ASSUME NEW v, NEW k, NEW s, NEW r, v \in Paced => s[v].rate = r[v].rate
    PROVE  Timer(v, k, s) = Timer(v, k, r)
  BY DEF Timer, Interval

LEMMA TimerView == \A v, k, s : Timer(v, k, s).view = v
  BY DEF Timer

-----------------------------------------------------------------------------
(* The steps                                                               *)

THEOREM InitIInv == Init => IInv
<1> SUFFICES ASSUME Init PROVE IInv
  OBVIOUS
<1>1. Sorts
  BY SettingsAssumption DEF Init, Sorts
<1>2. \A t \in timers : t.view \in Timed
  BY TimerView DEF Init
<1>3. ListenersAgree
  BY DEF Init, ListenersAgree, Listening
<1>4. OneTimerEach
  <2> SUFFICES ASSUME NEW v \in Timed
               PROVE  TimersOf(v) = IF Mounted(v, page) THEN {Timer(v, key[v], known)} ELSE {}
    BY DEF OneTimerEach
  <2>1. key[v] = "all"
    BY PacedListen DEF Init
  <2>2. timers = {Timer(w, "all", known) : w \in {u \in Timed : Mounted(u, page)}}
    BY DEF Init
  <2> QED
    BY <2>1, <2>2, TimerView DEF TimersOf
<1> QED
  BY <1>1, <1>2, <1>3, <1>4 DEF IInv

\* New settings are announced: what is on the screen hears of them, and where the
\* rate changes the interval is set anew.
LEMMA AnnounceKeeps ==
    ASSUME IInv, NEW s, NEW url, Announce(s, url), UNCHANGED <<page, key>>,
           synced' => Effective(stored') = s
    PROVE  IInv'
<1> DEFINE again == {v \in Paced \cap Listening(page) : known[v].rate # s.rate}
<1>1. known' = [v \in Subscribers |-> IF v \in Listening(page) THEN s ELSE known[v]]
  BY DEF Announce
<1>2. timers' = {t \in timers : t.view \notin again} \cup {Timer(v, key[v], known') : v \in again}
  BY DEF Announce
<1>3. Sorts'
  BY <1>1 DEF IInv, Sorts
<1>4. \A t \in timers' : t.view \in Timed
  BY <1>2, TimerView, PacedListen DEF IInv
<1>5. ListenersAgree'
  BY <1>1 DEF ListenersAgree, Listening, Mounted
<1>6. OneTimerEach'
  <2> SUFFICES ASSUME NEW v \in Timed
               PROVE  TimersOf(v)' = IF Mounted(v, page) THEN {Timer(v, key[v], known')} ELSE {}
    BY DEF OneTimerEach, TimersOf, Mounted
  <2>1. TimersOf(v) = IF Mounted(v, page) THEN {Timer(v, key[v], known)} ELSE {}
    BY DEF IInv, OneTimerEach
  <2>2. CASE v \in again
    <3>1. Mounted(v, page)
      BY <2>2, PacedListen DEF IInv, Sorts
    <3>2. TimersOf(v)' = {Timer(v, key[v], known')}
      BY <1>2, <2>2, TimerView DEF TimersOf
    <3> QED
      BY <3>1, <3>2
  <2>3. CASE v \notin again
    <3>1. TimersOf(v)' = TimersOf(v)
      BY <1>2, <2>3, TimerView DEF TimersOf
    <3>2. ASSUME Mounted(v, page) PROVE Timer(v, key[v], known') = Timer(v, key[v], known)
      <4>1. v \in Paced => known'[v] = s /\ known[v].rate = s.rate
        BY <1>1, <2>3, <3>2, PacedListen DEF IInv, Sorts
      <4> QED
        BY <4>1, SamePace
    <3> QED
      BY <2>1, <3>1, <3>2
  <2> QED
    BY <2>2, <2>3
<1> HIDE DEF again
<1> QED
  BY <1>3, <1>4, <1>5, <1>6 DEF IInv

\* A page appears: the intervals of the last one are cleared, those of its own views
\* are set, and who was not on the screen reads the settings.
LEMMA EnterKeeps == ASSUME IInv, NEW p \in Pages, Enter(p) PROVE IInv'
<1> DEFINE views == {v \in Views : Site[v] = p}
<1>1. page' = p /\ p # page /\ UNCHANGED <<stored, synced>>
  BY DEF Enter
<1>2. key' = [v \in Views |-> IF Site[v] = "every" THEN key[v] ELSE "all"]
  BY DEF Enter
<1>3. known' = [v \in Subscribers |->
                   IF v \in Listening(page) /\ v \in Listening(p) THEN known[v]
                   ELSE Effective(stored)]
  BY DEF Enter
<1>4. timers' = Leave(p) \cup {Timer(v, "all", known') : v \in views \cap Timed}
  BY DEF Enter
<1>5. Sorts'
  BY <1>1, <1>2, <1>3, SettingsAssumption DEF IInv, Sorts
<1>6. \A t \in timers' : t.view \in Timed
  BY <1>4, TimerView DEF IInv, Leave
<1>7. ListenersAgree'
  <2> SUFFICES ASSUME synced, NEW v \in Listening(p) PROVE known'[v] = Effective(stored)
    BY <1>1 DEF ListenersAgree, Effective
  <2> QED
    BY <1>3 DEF IInv, ListenersAgree, Listening
<1>8. OneTimerEach'
  <2> SUFFICES ASSUME NEW v \in Timed
               PROVE  TimersOf(v)' = IF Mounted(v, p) THEN {Timer(v, key'[v], known')} ELSE {}
    BY <1>1 DEF OneTimerEach, TimersOf, Mounted
  <2>1. TimersOf(v) = IF Mounted(v, page) THEN {Timer(v, key[v], known)} ELSE {}
    BY DEF IInv, OneTimerEach
  <2>2. v \in Views /\ p # "every" /\ page # "every"
    BY PacedListen, SettingsAssumption DEF IInv, Sorts
  <2>3. CASE Site[v] = "every"
    <3>1. TimersOf(v)' = TimersOf(v) /\ Mounted(v, page) /\ Mounted(v, p)
      BY <1>4, <2>2, <2>3, TimerView DEF TimersOf, Leave, Mounted
    <3>2. key'[v] = key[v]
      BY <1>2, <2>2, <2>3
    <3>3. v \in Paced => known'[v] = known[v]
      BY <1>3, <3>1, PacedListen DEF IInv, Sorts
    <3>4. Timer(v, key[v], known') = Timer(v, key[v], known)
      BY <3>3, SamePace
    <3> QED
      BY <2>1, <3>1, <3>2, <3>4
  <2>4. CASE Site[v] = p
    <3>1. key'[v] = "all" /\ Mounted(v, p) /\ ~ Mounted(v, page)
      BY <1>1, <1>2, <2>2, <2>4 DEF Mounted
    <3>2. TimersOf(v) = {}
      BY <2>1, <3>1
    <3>3. TimersOf(v)' = {Timer(v, "all", known')}
      BY <1>4, <2>2, <2>4, <3>2, TimerView DEF TimersOf, Leave
    <3> QED
      BY <3>1, <3>3
  <2>5. CASE Site[v] \notin {"every", p}
    <3>1. ~ Mounted(v, p)
      BY <2>5 DEF Mounted
    <3>2. TimersOf(v)' = {}
      BY <1>4, <2>5, <3>1, TimerView DEF TimersOf, Leave
    <3> QED
      BY <3>1, <3>2
  <2> QED
    BY <2>3, <2>4, <2>5
<1> HIDE DEF views
<1> QED
  BY <1>5, <1>6, <1>7, <1>8 DEF IInv

\* A selection changes: the interval of its view is set anew.
LEMMA SelectKeeps == ASSUME IInv, NEW v \in Views, NEW k \in Keys, Select(v, k) PROVE IInv'
<1>1. /\ v \in Timed /\ Mounted(v, page)
      /\ key' = [key EXCEPT ![v] = k]
      /\ timers' = (timers \ TimersOf(v)) \cup {Timer(v, k, known)}
      /\ UNCHANGED <<page, stored, synced, known>>
  BY Sites DEF Select, Selecting, Timed, settings
<1>2. Sorts'
  BY <1>1 DEF IInv, Sorts
<1>3. \A t \in timers' : t.view \in Timed
  BY <1>1, TimerView DEF IInv
<1>4. ListenersAgree'
  BY <1>1 DEF IInv, ListenersAgree, Listening, Mounted, Effective
<1>5. OneTimerEach'
  <2> SUFFICES ASSUME NEW w \in Timed
               PROVE  TimersOf(w)' = IF Mounted(w, page) THEN {Timer(w, key'[w], known)} ELSE {}
    BY <1>1 DEF OneTimerEach, TimersOf, Mounted
  <2>1. TimersOf(w) = IF Mounted(w, page) THEN {Timer(w, key[w], known)} ELSE {}
    BY DEF IInv, OneTimerEach
  <2>2. CASE w = v
    <3>1. key'[w] = k
      BY <1>1, <2>2 DEF IInv, Sorts
    <3>2. TimersOf(w)' = {Timer(w, k, known)}
      BY <1>1, <2>2, TimerView DEF TimersOf
    <3> QED
      BY <1>1, <2>2, <3>1, <3>2
  <2>3. CASE w # v
    <3>1. key'[w] = key[w]
      BY <1>1, <2>3, PacedListen DEF IInv, Sorts
    <3>2. TimersOf(w)' = TimersOf(w)
      BY <1>1, <2>3, TimerView DEF TimersOf
    <3> QED
      BY <2>1, <3>1, <3>2
  <2> QED
    BY <2>2, <2>3
<1> QED
  BY <1>2, <1>3, <1>4, <1>5 DEF IInv

\* Steps that leave the settings and the screen alone, loads among them.
LEMMA StillKeeps == ASSUME IInv, UNCHANGED <<settings, screen>> PROVE IInv'
  BY DEF IInv, Sorts, ListenersAgree, OneTimerEach, Listening, Mounted, TimersOf, Effective,
         settings, screen

THEOREM StepIInv == IInv /\ [Next]_vars => IInv'
<1> SUFFICES ASSUME IInv, [Next]_vars PROVE IInv'
  OBVIOUS
<1>1. ASSUME NEW s \in Settings, Save(s) PROVE IInv'
  <2>1. UNCHANGED <<page, key>> /\ Announce(s, Effective(stored').url)
    BY <1>1 DEF Save, Edit
  <2>2. synced' => Effective(stored') = s
    BY <1>1, StoredAlone DEF Save
  <2> QED
    BY <2>1, <2>2, AnnounceKeeps
<1>2. ASSUME NEW s \in Settings, OtherTab(s) PROVE IInv'
  BY <1>2 DEF OtherTab, Edit, IInv, Sorts, ListenersAgree, OneTimerEach, Mounted, TimersOf
<1>3. CASE Reset
  <2>1. UNCHANGED <<page, key>> /\ Announce(Default, Default.url) /\ Effective(stored') = Default
    BY <1>3, StoredNothing DEF Reset, Edit
  <2> QED
    BY <2>1, AnnounceKeeps
<1>4. ASSUME NEW p \in Pages, Enter(p) PROVE IInv'
  BY <1>4, EnterKeeps
<1>5. ASSUME NEW v \in Views, NEW k \in Keys, Select(v, k) PROVE IInv'
  BY <1>5, SelectKeeps
<1>6. ASSUME NEW t \in timers, Tick(t) PROVE IInv'
  BY <1>6, StillKeeps DEF Tick
<1>7. ASSUME NEW l \in loads, Serve(l) \/ Return(l) PROVE IInv'
  BY <1>7, StillKeeps DEF Serve, Return
<1>8. CASE Change
  BY <1>8, StillKeeps DEF Change
<1>9. CASE Advance
  BY <1>9, StillKeeps DEF Advance
<1>10. ASSUME NEW v \in Views, Click(v) PROVE IInv'
  BY <1>10, StillKeeps DEF Click
<1>11. ASSUME NEW h \in gestures, Reload(h) PROVE IInv'
  BY <1>11, StillKeeps DEF Reload
<1>12. CASE UNCHANGED vars
  BY <1>12, StillKeeps DEF vars
<1> QED
  BY <1>1, <1>2, <1>3, <1>4, <1>5, <1>6, <1>7, <1>8, <1>9, <1>10, <1>11, <1>12 DEF Next

LEMMA Invariance == Spec => []IInv
  BY InitIInv, StepIInv, PTL DEF Spec

-----------------------------------------------------------------------------
\* saveStoredSettings, resetStoredSettings and subscribeSettings: whoever is on the
\* screen has the settings that requests are made with, as long as every write was
\* stored and this tab made the last.
THEOREM Listeners == Spec => []ListenersAgree
<1>1. IInv => ListenersAgree
  BY DEF IInv
<1> QED
  BY <1>1, Invariance, PTL

\* The effects of the pages and their clean-up: a view on the screen has one
\* interval, for its selection and at the rate it knows, and no other view has any.
THEOREM Timers == Spec => []OneTimerEach
<1>1. IInv => OneTimerEach
  BY DEF IInv
<1> QED
  BY <1>1, Invariance, PTL

=============================================================================
