----------------------------- MODULE PlayerProofs -----------------------------
(***************************************************************************)
(* The player's window and its engine, for any number of episodes and rows *)
(* and any capacity, loads and reports, and in whatever order the events   *)
(* of the viewer, the program and mpv come.                                *)
(***************************************************************************)
EXTENDS PlayerWindow, PlayerEngine, SequenceTheorems, TLAPS

-----------------------------------------------------------------------------
(* The window.                                                             *)

Showns == [mode : Modes, episode : Nat, focus : Controls, follow : BOOLEAN, opening : BOOLEAN]

\* What the window shows has its focus on a control that shows, and its episode
\* among those there are.
Good(s) ==
  /\ s \in Showns /\ Focusable(s, s.focus)
  /\ IF count = 0 THEN s.episode = 0 ELSE s.episode < count

\* An open list is the only one, with rows and a cursor there are.
Fits(after, l) ==
  /\ ~({"episodes", "speed"} \subseteq after)
  /\ "episodes" \in after => l.start \in 0..(count - 1) /\ l.cursor \in 0..(count - 1)

KeysAreHeld ==
  /\ focused => pressed \subseteq down \cup kept
  /\ ~focused => pressed \subseteq kept
  /\ \A k, l \in down : k = l

WindowInv ==
  /\ count \in Nat /\ Good(display) /\ HiddenIsPlaying
  /\ list \in [start : Int, cursor : Int] /\ Fits(panels, list) /\ KeysAreHeld

LEMMA ControlsAre ==
  /\ Controls = {"menu", "follow", "episodes", "progress", "skip", "button", "speed"}
  /\ DOMAIN TabOrder = 1..7
<1>1. DOMAIN TabOrder = 1..7
  BY DEF TabOrder
<1>2. Controls = {TabOrder[i] : i \in 1..7}
  BY <1>1 DEF Controls
<1>3. 1..7 = {1, 2, 3, 4, 5, 6, 7}
  OBVIOUS
<1> QED
  BY <1>1, <1>2, <1>3 DEF TabOrder

LEMMA SettledIs ==
  ASSUME count \in Nat, NEW s \in Showns
  PROVE  Good(Adjusted(s)) /\ Adjusted(s).mode = s.mode
<1> DEFINE f == IF Focusable(s, s.focus) THEN s.focus ELSE "progress"
           e == IF s.episode < count THEN s.episode ELSE 0
<1>1. f \in Controls /\ e \in Nat /\ ((f = s.focus /\ Focusable(s, f)) \/ f = "progress")
      /\ (IF count = 0 THEN e = 0 ELSE e < count)
  BY ControlsAre DEF Showns
<1>2. Adjusted(s) = [s EXCEPT !.focus = f, !.episode = e]
  BY DEF Adjusted
<1> HIDE DEF f, e
<1>3. /\ Adjusted(s) \in Showns /\ Adjusted(s).focus = f /\ Adjusted(s).episode = e /\ Adjusted(s).mode = s.mode
      /\ Adjusted(s).follow = s.follow /\ Adjusted(s).opening = s.opening
  BY <1>1, <1>2 DEF Showns
<1> QED
  BY <1>1, <1>3 DEF Good, Focusable, SkipShown

LEMMA SkippedIs ==
  ASSUME Good(display) PROVE Good(Skipped) /\ Skipped.mode = display.mode
<1> DEFINE f == IF display.focus = "skip" THEN "progress" ELSE display.focus
<1>1. f \in Controls /\ f # "skip" /\ (f = display.focus \/ f = "progress")
  BY ControlsAre DEF Good, Showns
<1>2. SkipShown(display) => Skipped = [display EXCEPT !.opening = FALSE, !.focus = f]
  BY DEF Skipped
<1> HIDE DEF f
<1>3. CASE SkipShown(display)
  <2>1. /\ Skipped \in Showns /\ Skipped.focus = f /\ Skipped.mode = display.mode
        /\ Skipped.episode = display.episode /\ Skipped.follow = display.follow
    BY <1>1, <1>2, <1>3 DEF Good, Showns
  <2> QED
    BY <1>1, <2>1 DEF Good, Focusable
<1>4. CASE ~SkipShown(display)
  BY <1>4 DEF Skipped
<1> QED
  BY <1>3, <1>4

LEMMA SelectIs ==
  ASSUME count \in Nat, Good(display), NEW e \in Nat
  PROVE  Good(Select(e))
<1>1. [display EXCEPT !.mode = "loading", !.episode = e, !.opening = FALSE] \in Showns
  BY DEF Good, Showns, Modes
<1> QED
  BY <1>1, SettledIs DEF Select

LEMMA FocusMoves ==
  ASSUME Good(display), NEW step \in {-1, 1}
  PROVE  Good([display EXCEPT !.focus = NextFocus(step)])
<1> DEFINE i == CHOOSE i \in DOMAIN TabOrder : TabOrder[i] = display.focus
           j == Neighbour(i, step)
           k == IF Focusable(display, TabOrder[j]) THEN j ELSE Neighbour(j, step)
<1>1. i \in 1..7
  BY ControlsAre DEF Good, Showns, Controls
<1>2. j \in 1..7 /\ k \in 1..7
  BY <1>1, ControlsAre DEF Neighbour
<1>3. NextFocus(step) = TabOrder[k]
  BY DEF NextFocus
<1>4. /\ TabOrder[1] = "menu" /\ TabOrder[2] = "follow" /\ TabOrder[3] = "episodes" /\ TabOrder[4] = "progress"
      /\ TabOrder[5] = "skip" /\ TabOrder[6] = "button" /\ TabOrder[7] = "speed"
  BY DEF TabOrder
<1> HIDE DEF j
<1>6. Focusable(display, TabOrder[k])
  <2>1. CASE Focusable(display, TabOrder[j])
    BY <2>1
  <2>2. CASE ~Focusable(display, TabOrder[j])
    <3>1. j \in {2, 5}
      BY <1>2, <1>4, <2>2 DEF Focusable
    <3>2. k = j + step
      BY <2>2, <3>1, ControlsAre DEF Neighbour
    <3>3. k \in {1, 3, 4, 6}
      BY <3>1, <3>2
    <3>4. TabOrder[k] \notin {"follow", "skip"}
      BY <1>4, <3>3
    <3> QED
      BY <3>4 DEF Focusable
  <2> QED
    BY <2>1, <2>2
<1>7. TabOrder[k] \in Controls
  BY <1>2, ControlsAre DEF Controls
<1> QED
  BY <1>3, <1>6, <1>7 DEF Good, Showns, Focusable, SkipShown

LEMMA ClampedIs ==
  ASSUME count \in Nat, NEW start \in Int
  PROVE  Clamped(start) \in Int /\ (count > 0 => Clamped(start) \in 0..(count - 1))
  BY WindowAssumption DEF Clamped

\* The panels after what opens, closes or replaces one.
LEMMA OpenIs ==
  ASSUME WindowInv, NEW after, OpenPanels(after), count' = count, ~({"episodes", "speed"} \subseteq after),
         "episodes" \in after => "episodes" \in panels \/ count > 0
  PROVE  panels' = after /\ list' \in [start : Int, cursor : Int] /\ Fits(panels, list)'
<1>0. count \in Nat /\ Good(display) /\ Fits(panels, list) /\ list \in [start : Int, cursor : Int]
  BY DEF WindowInv
<1>1. CASE "episodes" \notin after
  <2>1. panels' = after /\ list' = Closed
    BY <1>1 DEF OpenPanels
  <2> QED
    BY <1>1, <2>1 DEF Closed, Fits
<1>2. CASE "episodes" \in after /\ "episodes" \notin panels
  <2> DEFINE c == Clamped(display.episode - ListRows \div 2 + 1)
             e == display.episode
  <2>1. panels' = after /\ list' = [start |-> c, cursor |-> e] /\ count > 0
    BY <1>2 DEF OpenPanels, OpenedList
  <2>2. e \in 0..(count - 1)
    BY <1>0, <2>1 DEF Good, Showns
  <2>3. c \in 0..(count - 1)
    <3>1. display.episode - ListRows \div 2 + 1 \in Int
      BY <2>2, WindowAssumption
    <3> QED
      BY <1>0, <2>1, <3>1, ClampedIs
  <2> HIDE DEF c, e
  <2> QED
    BY <2>1, <2>2, <2>3 DEF Fits
<1>3. CASE "episodes" \in after /\ "episodes" \in panels
  BY <1>0, <1>3 DEF OpenPanels, Fits
<1> QED
  BY <1>1, <1>2, <1>3

LEMMA ActivatedIs ==
  ASSUME WindowInv, NEW control \in Controls
  PROVE  /\ ~({"episodes", "speed"} \subseteq Activated(control))
         /\ "episodes" \in Activated(control) => "episodes" \in panels \/ count > 0
  BY ControlsAre DEF WindowInv, Fits, Activated

\* A step that opens or closes panels under controls that show.
LEMMA PanelsStep ==
  ASSUME WindowInv, NEW after, OpenPanels(after), count' = count, ~({"episodes", "speed"} \subseteq after),
         "episodes" \in after => "episodes" \in panels \/ count > 0,
         visible' = TRUE \/ (UNCHANGED <<visible, display>> /\ after \subseteq panels),
         Good(display'), KeysAreHeld'
  PROVE  WindowInv'
<1>1. panels' = after /\ list' \in [start : Int, cursor : Int] /\ Fits(panels, list)'
  BY OpenIs
<1>2. HiddenIsPlaying'
  BY <1>1 DEF WindowInv, HiddenIsPlaying, PanelOpen, MenuVisible
<1>3. Good(display)'
  BY DEF Good
<1> QED
  BY <1>1, <1>2, <1>3 DEF WindowInv

LEMMA SetStateIs ==
  ASSUME WindowInv, NEW s \in Showns, SetState(s), UNCHANGED <<count, panels, list>>, KeysAreHeld'
  PROVE  WindowInv'
<1>1. Good(display)'
  BY SettledIs DEF SetState, WindowInv, Good
<1>2. HiddenIsPlaying'
  <2>1. display'.mode = s.mode
    BY SettledIs DEF SetState, WindowInv
  <2> QED
    BY <2>1 DEF SetState, ShowsControls, WindowInv, HiddenIsPlaying, PanelOpen, MenuVisible
<1> QED
  BY <1>1, <1>2 DEF WindowInv, Fits

LEMMA KeysStep ==
  ASSUME KeysAreHeld, UNCHANGED <<pressed, kept, down, focused>> PROVE KeysAreHeld'
  BY DEF KeysAreHeld

LEMMA ProgramStep ==
  ASSUME WindowInv, HideControls \/ PlayStarts \/ EpisodesArrive \/ NewsArrives \/ HideWindow
  PROVE  WindowInv'
<1>0. count \in Nat /\ Good(display) /\ Fits(panels, list) /\ KeysAreHeld /\ display \in Showns
  BY DEF WindowInv, Good
<1>1. CASE HideControls
  <2>1. KeysAreHeld'
    BY <1>0, <1>1, KeysStep DEF HideControls
  <2> QED
    BY <1>1, <2>1 DEF HideControls, MayHide, WindowInv, Good, Fits, HiddenIsPlaying, PanelOpen, MenuVisible
<1> DEFINE fresh(mode) == [mode |-> mode, episode |-> 0, focus |-> "progress", follow |-> FALSE, opening |-> FALSE]
<1>a. ASSUME NEW mode \in Modes PROVE fresh(mode) \in Showns /\ fresh(mode).focus = "progress"
  BY ControlsAre DEF Showns
<1>2. CASE PlayStarts
  <2>1. display' = fresh("loading") /\ "loading" \in Modes
    BY <1>2 DEF PlayStarts, Modes
  <2>2. Good(display)' /\ display'.mode = "loading"
    BY <1>2, <1>a, <2>1 DEF Good, Focusable, PlayStarts
  <2>3. panels' = panels \ {"episodes"} /\ list' = Closed
    BY <1>2 DEF PlayStarts, OpenPanels, ListAfter
  <2>4. HiddenIsPlaying'
    BY <1>2, <2>2, <2>3 DEF PlayStarts, WindowInv, HiddenIsPlaying, PanelOpen, MenuVisible
  <2>5. KeysAreHeld'
    BY <1>0, <1>2 DEF PlayStarts, KeysAreHeld
  <2> QED
    BY <1>2, <2>2, <2>3, <2>4, <2>5 DEF PlayStarts, WindowInv, Fits, Closed
<1>3. CASE EpisodesArrive
  <2> PICK n \in 1..MaxEpisodes : \E selected \in 0..(n - 1) :
             count' = n /\ display' = [display EXCEPT !.episode = selected]
    BY <1>3 DEF EpisodesArrive
  <2> PICK selected \in 0..(n - 1) : count' = n /\ display' = [display EXCEPT !.episode = selected]
    OBVIOUS
  <2>1. n \in Nat /\ n > 0 /\ selected \in Nat /\ selected < n
    BY WindowAssumption
  <2>2. display' \in Showns /\ display'.episode = selected /\ display'.focus = display.focus /\ display'.mode = display.mode
        /\ display'.follow = display.follow /\ display'.opening = display.opening
    BY <1>0, <2>1 DEF Showns
  <2>3. Good(display)'
    BY <1>0, <2>1, <2>2 DEF Good, Focusable, SkipShown
  <2>4. "episodes" \notin panels
    BY <1>0, <1>3 DEF EpisodesArrive, Fits
  <2>5. KeysAreHeld'
    BY <1>0, <1>3, KeysStep DEF EpisodesArrive
  <2> QED
    BY <1>3, <2>1, <2>2, <2>3, <2>4, <2>5
    DEF EpisodesArrive, WindowInv, Fits, HiddenIsPlaying, PanelOpen, MenuVisible
<1>4. CASE NewsArrives
  <2>1. UNCHANGED <<count, panels, list>> /\ KeysAreHeld'
    BY <1>0, <1>4, KeysStep DEF NewsArrives
  <2>2. ASSUME NEW mode \in Modes PROVE [display EXCEPT !.mode = mode] \in Showns
    BY <1>0 DEF Showns
  <2>3. ASSUME NEW b \in BOOLEAN
        PROVE  [display EXCEPT !.follow = b] \in Showns /\ [display EXCEPT !.opening = b] \in Showns
    BY <1>0 DEF Showns
  <2>4. ASSUME NEW e \in 0..(count - 1)
        PROVE  [display EXCEPT !.mode = "loading", !.episode = e, !.opening = FALSE] \in Showns
    <3>1. e \in Nat /\ "loading" \in Modes
      BY <1>0 DEF Modes
    <3> QED
      BY <1>0, <3>1 DEF Showns
  <2>5. \E s \in Showns : SetState(s)
    BY <1>4, <2>2, <2>3, <2>4 DEF NewsArrives
  <2> QED
    BY <2>1, <2>5, SetStateIs
<1>5. CASE HideWindow
  <2>1. UNCHANGED <<count, panels, list>> /\ SetState(fresh("stopped")) /\ "stopped" \in Modes
    BY <1>5 DEF HideWindow, Modes
  <2>2. KeysAreHeld'
    BY <1>0, <1>5 DEF HideWindow, KeysAreHeld
  <2> HIDE DEF fresh
  <2> QED
    BY <1>a, <2>1, <2>2, SetStateIs
<1> QED
  BY <1>1, <1>2, <1>3, <1>4, <1>5

LEMMA KeyboardStep ==
  ASSUME WindowInv, LoseKeyboard \/ GainKeyboard \/ KeyUp \/ KeyDown \/ Arrow
  PROVE  WindowInv'
<1>0. count \in Nat /\ Good(display) /\ Fits(panels, list) /\ KeysAreHeld /\ display \in Showns
      /\ list \in [start : Int, cursor : Int]
  BY DEF WindowInv, Good
<1>1. CASE LoseKeyboard \/ GainKeyboard \/ KeyUp
  <2>1. KeysAreHeld'
    BY <1>0, <1>1 DEF LoseKeyboard, GainKeyboard, KeyUp, KeysAreHeld
  <2> QED
    BY <1>1, <2>1 DEF LoseKeyboard, GainKeyboard, KeyUp, WindowInv, Good, Fits, HiddenIsPlaying, PanelOpen, MenuVisible
<1>2. CASE KeyDown
  <2> PICK k \in IF down = {} THEN OneShot ELSE down :
             /\ down' = {k} /\ pressed' = pressed \cup {k}
             /\ IF k \in pressed THEN UNCHANGED <<display, panels, list>> ELSE Act(k)
    BY <1>2 DEF KeyDown
  <2>1. visible' = TRUE /\ UNCHANGED <<count, focused, kept>> /\ focused
    BY <1>2 DEF KeyDown
  <2>2. KeysAreHeld'
    BY <1>0, <2>1 DEF KeysAreHeld
  <2>3. CASE UNCHANGED <<display, panels, list>>
    BY <2>1, <2>2, <2>3 DEF WindowInv, Good, Fits, HiddenIsPlaying
  <2>4. ASSUME NEW after, OpenPanels(after), after \subseteq panels, Good(display')
        PROVE  WindowInv'
    BY <1>0, <2>1, <2>2, <2>4, PanelsStep DEF Fits
  <2>5. CASE Act(k) /\ k = "tab"
    <3>1. OpenPanels(panels \ {"speed"}) /\ \E step \in {-1, 1} : display' = [display EXCEPT !.focus = NextFocus(step)]
      BY <2>5 DEF Act
    <3>2. Good(display')
      BY <1>0, <3>1, FocusMoves
    <3> QED
      BY <2>4, <3>1, <3>2
  <2>6. CASE Act(k) /\ k = "esc"
    <3>1. OpenPanels(Escaped) /\ display' = display
      BY <2>6 DEF Act
    <3>2. Escaped \subseteq panels
      BY DEF Escaped
    <3> QED
      BY <1>0, <2>4, <3>1, <3>2
  <2>7. CASE Act(k) /\ k \in {"enter", "space"} /\ Confirms
    <3>1. Confirm
      BY <2>7 DEF Act
    <3>2. CASE "speed" \in panels
      BY <1>0, <2>4, <3>1, <3>2 DEF Confirm
    <3>3. CASE "speed" \notin panels /\ "episodes" \in panels
      <4>1. OpenPanels(panels \ {"episodes"}) /\ display' = Select(list.cursor)
        BY <3>1, <3>3 DEF Confirm
      <4>2. Good(display')
        BY <1>0, <3>3, <4>1, SelectIs DEF Fits
      <4> QED
        BY <2>4, <4>1, <4>2
    <3>4. CASE "speed" \notin panels /\ "episodes" \notin panels
      BY <1>0, <2>4, <3>1, <3>4 DEF Confirm
    <3> QED
      BY <3>2, <3>3, <3>4
  <2>8. CASE Act(k) /\ k = "enter" /\ ~Confirms
    <3>1. Activate(display.focus) /\ display.focus \in Controls
      BY <1>0, <2>8 DEF Act, Showns
    <3>2. OpenPanels(Activated(display.focus)) /\ Good(display')
      BY <1>0, <3>1, SkippedIs DEF Activate
    <3> QED
      BY <2>1, <2>2, <3>1, <3>2, ActivatedIs, PanelsStep
  <2>9. CASE Act(k) /\ k \in {"space", "s"} /\ (k = "space" => ~Confirms)
    <3>1. (display' = display \/ display' = Skipped) /\ UNCHANGED <<panels, list>>
      BY <2>9 DEF Act
    <3>2. Good(display')
      BY <1>0, <3>1, SkippedIs
    <3>3. Good(display)'
      BY <2>1, <3>2 DEF Good
    <3> QED
      BY <2>1, <2>2, <3>1, <3>3 DEF WindowInv, Fits, HiddenIsPlaying
  <2> QED
    BY <2>3, <2>5, <2>6, <2>7, <2>8, <2>9 DEF Act
<1>3. CASE Arrow
  <2>1. /\ visible' = TRUE /\ "episodes" \in panels
        /\ UNCHANGED <<display, count, panels, pressed, kept, down, focused>>
    BY <1>3 DEF Arrow
  <2> PICK step \in {-1, 1} :
       LET c == IF list.cursor + step \in 0..(count - 1) THEN list.cursor + step ELSE list.cursor
       IN list' = [cursor |-> c, start |-> IF c < list.start THEN c ELSE IF c >= list.start + ListRows THEN c - (ListRows - 1) ELSE list.start]
    BY <1>3 DEF Arrow
  <2> DEFINE c == IF list.cursor + step \in 0..(count - 1) THEN list.cursor + step ELSE list.cursor
             t == IF c < list.start THEN c ELSE IF c >= list.start + ListRows THEN c - (ListRows - 1) ELSE list.start
  <2>2. list' = [cursor |-> c, start |-> t]
    OBVIOUS
  <2>3. list.start \in 0..(count - 1) /\ list.cursor \in 0..(count - 1)
    BY <1>0, <2>1 DEF Fits
  <2>4. c \in 0..(count - 1)
    BY <2>3
  <2> HIDE DEF c
  <2>5. t \in 0..(count - 1)
    BY <1>0, <2>3, <2>4, WindowAssumption
  <2> HIDE DEF t
  <2>6. list' \in [start : Int, cursor : Int] /\ Fits(panels, list)'
    BY <1>0, <2>1, <2>2, <2>4, <2>5 DEF Fits
  <2>7. KeysAreHeld'
    BY <1>0, <2>1, KeysStep
  <2> QED
    BY <2>1, <2>6, <2>7 DEF WindowInv, Good, HiddenIsPlaying
<1> QED
  BY <1>1, <1>2, <1>3

LEMMA MouseStep ==
  ASSUME WindowInv, Move \/ Leave \/ Push \/ Release \/ Scroll
  PROVE  WindowInv'
<1>0. count \in Nat /\ Good(display) /\ Fits(panels, list) /\ KeysAreHeld /\ display \in Showns
      /\ list \in [start : Int, cursor : Int]
  BY DEF WindowInv, Good
<1>a. ~({"episodes", "speed"} \subseteq panels)
  BY <1>0 DEF Fits
<1>b. KeysAreHeld'
  BY <1>0, KeysStep DEF Move, Leave, Push, Release, Scroll
<1>1. CASE Move
  <2> PICK p \in Hovered : OpenPanels(p)
    BY <1>1 DEF Move
  <2>1. ~({"episodes", "speed"} \subseteq p) /\ ("episodes" \in p => "episodes" \in panels)
    BY <1>a DEF Hovered
  <2> QED
    BY <1>0, <1>1, <1>b, <2>1, PanelsStep DEF Move
<1>2. CASE Leave
  BY <1>0, <1>2, <1>a, <1>b, PanelsStep DEF Leave
<1>3. CASE Push
  <2>1. visible' = TRUE /\ count' = count
    BY <1>3 DEF Push
  <2>2. ASSUME NEW after, OpenPanels(after), after \subseteq panels, Good(display')
        PROVE  WindowInv'
    BY <1>a, <1>b, <2>1, <2>2, PanelsStep
  <2>3. CASE PushRow
    <3> PICK e \in RowsShown : display' = Select(e)
      BY <2>3 DEF PushRow
    <3>1. OpenPanels(panels \ {"episodes", "speed"}) /\ e \in Nat
      BY <1>0, <2>3 DEF PushRow, RowsShown
    <3>2. Good(display')
      BY <1>0, <3>1, SelectIs
    <3> QED
      BY <2>2, <3>1, <3>2
  <2>4. CASE PushMenu \/ PushSpeed \/ PushNothing
    <3>1. display' = display
      BY <2>4 DEF PushMenu, PushSpeed, PushNothing
    <3> QED
      BY <1>0, <2>2, <2>4, <3>1 DEF PushMenu, PushSpeed, PushNothing
  <2>5. CASE PushControl
    <3> PICK control \in Controls \ {"progress"} :
          /\ LET after == IF control = "speed" THEN Activated(control) ELSE Activated(control) \ {"speed"}
             IN OpenPanels(after)
          /\ display' = IF control = "skip" THEN Skipped ELSE display
      BY <2>5 DEF PushControl
    <3> DEFINE after == IF control = "speed" THEN Activated(control) ELSE Activated(control) \ {"speed"}
    <3>1. OpenPanels(after) /\ Good(display')
      BY <1>0, SkippedIs
    <3>2. ~({"episodes", "speed"} \subseteq after) /\ ("episodes" \in after => "episodes" \in panels \/ count > 0)
      BY ActivatedIs
    <3> HIDE DEF after
    <3> QED
      BY <1>b, <2>1, <3>1, <3>2, PanelsStep
  <2>6. ASSUME NEW part \in {"scrubbing", "dragging"}, Grip(part) PROVE WindowInv'
    <3>1. Good([display EXCEPT !.focus = "progress"])
      BY <1>0, ControlsAre DEF Good, Showns, Focusable
    <3> QED
      BY <1>0, <2>2, <2>6, <3>1 DEF Grip
  <2> QED
    BY <1>3, <2>3, <2>4, <2>5, <2>6 DEF Push
<1>4. CASE Release
  BY <1>4, <1>b DEF Release, WindowInv, Good, Fits, HiddenIsPlaying, PanelOpen, MenuVisible
<1>5. CASE Scroll
  <2> PICK start \in -1..count : list' = [list EXCEPT !.start = Clamped(start)]
    BY <1>5 DEF Scroll
  <2> DEFINE t == Clamped(start)
  <2>1. count > 0 /\ start \in Int /\ UNCHANGED <<display, count, visible, panels>>
    BY <1>0, <1>5 DEF Scroll, Fits
  <2>2. t \in 0..(count - 1)
    BY <1>0, <2>1, ClampedIs
  <2>3. list' = [list EXCEPT !.start = t]
    OBVIOUS
  <2> HIDE DEF t
  <2>4. list' \in [start : Int, cursor : Int] /\ Fits(panels, list)'
    BY <1>0, <2>1, <2>2, <2>3 DEF Fits
  <2> QED
    BY <1>b, <2>1, <2>4 DEF WindowInv, Good, HiddenIsPlaying, PanelOpen, MenuVisible
<1> QED
  BY <1>1, <1>2, <1>3, <1>4, <1>5

\* The window never gets into a state that the viewer cannot leave: hidden
\* controls show again, the focus and the list are on what is there, and no key
\* stays dead, for any number of rows and episodes.
THEOREM WindowUsable == WindowSpec => []WindowIsUsable
<1>1. WindowInit => WindowInv
  <2> SUFFICES ASSUME WindowInit PROVE WindowInv
    OBVIOUS
  <2>1. Good(display)
    BY ControlsAre DEF WindowInit, Good, Showns, Modes, Focusable
  <2> QED
    BY <2>1 DEF WindowInit, WindowInv, HiddenIsPlaying, Fits, Closed, KeysAreHeld
<1>2. WindowInv /\ [WindowNext]_windowVars => WindowInv'
  <2>1. WindowInv /\ UNCHANGED windowVars => WindowInv'
    BY DEF windowVars, WindowInv, Good, HiddenIsPlaying, PanelOpen, MenuVisible, Fits, KeysAreHeld
  <2> QED
    BY <2>1, ProgramStep, KeyboardStep, MouseStep DEF WindowNext
<1>3. WindowInv => WindowIsUsable
  <2> SUFFICES ASSUME WindowInv PROVE WindowIsUsable
    OBVIOUS
  <2>1. "episodes" \in panels => list.start \in RowsShown
    BY WindowAssumption DEF WindowInv, Fits, RowsShown
  <2>2. ListShowsRows
    BY <2>1 DEF ListShowsRows, WindowInv, Fits
  <2> QED
    BY <2>2 DEF WindowIsUsable, WindowInv, Good, FocusShows, NoDeadKey, KeysAreHeld
<1> QED
  BY <1>1, <1>2, <1>3, PTL DEF WindowSpec

-----------------------------------------------------------------------------
(* The engine and its session.                                             *)

Event == [id : Ids, load : Loads, reason : Reasons \cup {"none"}]
News  == [gen : Loads, kind : Kinds, load : Loads]
Start == Loads \X Stages \X Loads

\* The engine has read that mpv started the current load, or took a file for it
\* rightly: from there on all it reads is about that load, as it is once a refused
\* load dropped news of it.
IsRead == pendingStarted \/ started # "none" \/ (~pending /\ Faithful(generation))

MpvInv ==
  /\ \/ mpv.next = generation /\ mpv.file < generation
     \/ mpv.next = 0 /\ mpv.file = generation
  /\ mpv.stage # "idle" => mpv.file # 0

\* What mpv tells comes in the order of its files; the end of the current one is
\* the last of it.
TellsInOrder ==
  /\ \A i \in 1..Len(mpvEvents) : mpvEvents[i].load <= mpv.file
  /\ \A i, j \in 1..Len(mpvEvents) : i < j => mpvEvents[i].load <= mpvEvents[j].load
  /\ \A i \in 1..Len(mpvEvents) : mpvEvents[i].id = "start" => mpvEvents[i].load = generation
EndIsLast ==
  \A i \in 1..Len(mpvEvents) : mpvEvents[i].id = "end" /\ mpvEvents[i].load = generation =>
     i = Len(mpvEvents) /\ mpv.stage = "idle" /\ mpv.next = 0
ReadIsOwn ==
  /\ IsRead \/ generation \in missed =>
        mpv.next = 0 /\ \A i \in 1..Len(mpvEvents) : mpvEvents[i].load = generation
  /\ IsRead => observed \in {0, generation}
\* Nothing of a pending load comes before its start, unless that was dropped.
StartIsAhead ==
  pending /\ ~pendingStarted /\ generation \notin missed =>
    /\ \A j \in 1..Len(mpvEvents) : mpvEvents[j].load = generation =>
          \E i \in 1..j : mpvEvents[i].id = "start"
    /\ mpv.next = 0 => \E i \in 1..Len(mpvEvents) : mpvEvents[i].id = "start"

QueueInv == MpvInv /\ TellsInOrder /\ EndIsLast /\ ReadIsOwn /\ StartIsAhead

StartsInOrder ==
  /\ \A i \in 1..Len(starts) : starts[i][1] <= generation /\ starts[i][1] = starts[i][3]
  /\ \A i, j \in 1..Len(starts) : i < j =>
       \/ starts[i][1] < starts[j][1]
       \/ starts[i][1] = starts[j][1] /\ starts[i][2] = "fileLoaded" /\ starts[j][2] = "playing"
StartsInv ==
  /\ starts \in Seq(Start) /\ StartsInOrder
  /\ pending => started = "none"
  /\ \A i \in 1..Len(starts) : starts[i][1] = generation =>
        started # "none" /\ (started = "fileLoaded" => starts[i][2] = "fileLoaded")

Once(s) == \A i, j \in 1..Len(s) : s[i] = s[j] => i = j
\* What has ended, or failed, is not told of again.
Over == \/ \E i \in 1..Len(ends) : ends[i] = generation
        \/ \E i \in 1..Len(failures) : failures[i] = generation
EndsApart ==
  /\ Once(ends) /\ Once(failures)
  /\ \A i \in 1..Len(ends), j \in 1..Len(failures) : ends[i] # failures[j]
EndsInv ==
  /\ ends \in Seq(Loads) /\ failures \in Seq(Loads)
  /\ \A i \in 1..Len(ends) : ends[i] <= generation
  /\ \A i \in 1..Len(failures) : failures[i] <= generation
  /\ ~misled => EndsApart /\ (Over => mpvEvents = <<>> /\ mpv.stage = "idle" /\ mpv.next = 0 /\ ~pending)

NewsInv ==
  /\ heard \in [as : Loads, load : Loads]
  /\ \A i \in 1..Len(channel) : Faithful(channel[i].gen) => channel[i].load = channel[i].gen
  /\ Faithful(heard.as) => heard.load = heard.as
  /\ Faithful(generation) => position = generation

StreamsInv ==
  /\ open \subseteq IF loading THEN {current, loads} ELSE {current}
  /\ closer = "done" => ~loading /\ open = {}

EngineInv == TypeOK /\ QueueInv /\ StartsInv /\ EndsInv /\ NewsInv /\ StreamsInv

LEMMA AppendIs ==
  ASSUME NEW S, NEW s \in Seq(S), NEW e \in S
  PROVE  /\ Append(s, e) \in Seq(S) /\ Len(Append(s, e)) = Len(s) + 1 /\ Len(s) \in Nat
         /\ \A i \in 1..Len(s) : Append(s, e)[i] = s[i]
         /\ Append(s, e)[Len(s) + 1] = e
  BY AppendProperties

LEMMA TailIs ==
  ASSUME NEW S, NEW s \in Seq(S), s # <<>>
  PROVE  /\ Tail(s) \in Seq(S) /\ Len(Tail(s)) = Len(s) - 1 /\ Len(s) \in Nat \ {0}
         /\ \A i \in 1..(Len(s) - 1) : Tail(s)[i] = s[i + 1]
         /\ Head(s) = s[1] /\ Head(s) \in S
  BY HeadTailProperties, EmptySeq

\* One more thing that mpv tells, of the file it plays.
LEMMA TellStep ==
  ASSUME EngineInv, NEW e \in Event, mpvEvents' = Append(mpvEvents, e),
         UNCHANGED <<engineVars, sessionVars, historyVars>>, MpvInv', mpv.file <= mpv'.file,
         mpv' \in [file : 0..MaxLoads, stage : {"idle", "opening", "loaded", "playing"}, next : 0..MaxLoads],
         reports' \in 0..MaxReports,
         e.load = mpv'.file, mpv.stage # "idle" \/ mpv.next # 0,
         e.id = "start" <=> mpv.next # mpv'.next, mpv.next = 0 => mpv'.next = 0,
         e.id = "end" => mpv'.stage = "idle",
         e.id = "start" => mpv'.next = 0
  PROVE  EngineInv'
<1> DEFINE n == Len(mpvEvents)
<1>0. /\ mpvEvents \in Seq(Event) /\ TypeOK /\ generation \in Nat \ {0} /\ mpv.file \in Nat /\ mpv'.file \in Nat
      /\ MpvInv /\ TellsInOrder /\ EndIsLast /\ ReadIsOwn /\ StartIsAhead
  BY EngineAssumption DEF EngineInv, TypeOK, QueueInv, Event, Loads
<1>1. /\ mpvEvents' \in Seq(Event) /\ Len(mpvEvents') = n + 1 /\ n \in Nat
      /\ \A i \in 1..n : mpvEvents'[i] = mpvEvents[i]
      /\ mpvEvents'[n + 1] = e
  BY <1>0, AppendIs
<1>2. /\ UNCHANGED <<generation, pending, pendingStarted, started, misled, missed, observed>> /\ IsRead' = IsRead
  BY DEF engineVars, historyVars, IsRead, Faithful
<1>3. TypeOK'
  BY <1>0, <1>1 DEF TypeOK, engineVars, sessionVars, historyVars, Event
<1>4. \A i \in 1..n : mpvEvents[i] \in Event
  BY <1>0, <1>1
<1>5. \A i \in 1..(n + 1) : i \in 1..n \/ i = n + 1
  BY <1>1
<1> HIDE DEF n
<1>6. TellsInOrder'
  <2>1. \A i \in 1..n : mpvEvents'[i].load <= mpv'.file
    BY <1>0, <1>1, <1>4 DEF TellsInOrder, Event, Loads, n
  <2>a. e.id = "start" => e.load = generation
    BY <1>0, <1>2 DEF MpvInv
  <2>b. \A i \in 1..n : mpvEvents'[i].id = "start" => mpvEvents'[i].load = generation
    BY <1>0, <1>1 DEF TellsInOrder, n
  <2>2. \A i \in 1..(n + 1) : mpvEvents'[i].id = "start" => mpvEvents'[i].load = generation
    BY <1>1, <1>5, <2>a, <2>b
  <2>3. \A i, j \in 1..(n + 1) : i < j => mpvEvents'[i].load <= mpvEvents'[j].load
    BY <1>0, <1>1, <1>5, <2>1 DEF TellsInOrder, n
  <2> QED
    BY <1>0, <1>1, <1>2, <1>5, <2>1, <2>2, <2>3 DEF TellsInOrder
<1>7. EndIsLast'
  BY <1>0, <1>1, <1>2, <1>5 DEF EndIsLast, MpvInv, n
<1>8. ReadIsOwn'
  BY <1>0, <1>1, <1>2, <1>5 DEF ReadIsOwn, MpvInv, n
<1>9. StartIsAhead'
  <2> SUFFICES ASSUME pending, ~pendingStarted, generation \notin missed
               PROVE  /\ \A j \in 1..(n + 1) : mpvEvents'[j].load = generation =>
                            \E i \in 1..j : mpvEvents'[i].id = "start"
                      /\ mpv'.next = 0 => \E i \in 1..(n + 1) : mpvEvents'[i].id = "start"
    BY <1>1, <1>2 DEF StartIsAhead
  <2>1. mpv'.next = 0 => \E i \in 1..(n + 1) : mpvEvents'[i].id = "start"
    BY <1>0, <1>1 DEF StartIsAhead, n
  <2>2. \A j \in 1..n : mpvEvents'[j].load = generation => \E i \in 1..j : mpvEvents'[i].id = "start"
    BY <1>0, <1>1 DEF StartIsAhead, n
  <2>3. e.load = generation => mpv'.next = 0
    BY <1>0, <1>2 DEF MpvInv
  <2> QED
    BY <1>1, <1>5, <2>1, <2>2, <2>3
<1>10. StartsInv' /\ NewsInv' /\ StreamsInv'
  BY DEF EngineInv, StartsInv, StartsInOrder, NewsInv, Faithful, StreamsInv, engineVars, sessionVars, historyVars
<1>11. EndsInv'
  <2>1. Over' = Over /\ EndsApart' = EndsApart /\ UNCHANGED <<ends, failures>>
    BY <1>2 DEF Over, EndsApart, Once, historyVars
  <2> QED
    BY <1>2, <2>1 DEF EngineInv, EndsInv
<1> QED
  BY <1>3, <1>6, <1>7, <1>8, <1>9, <1>10, <1>11 DEF EngineInv, QueueInv

LEMMA MpvStep ==
  ASSUME EngineInv, Mpv PROVE EngineInv'
<1>0. TypeOK /\ MpvInv /\ generation \in Nat \ {0} /\ generation \in Loads /\ MaxLoads \in Nat
  BY EngineAssumption DEF EngineInv, TypeOK, QueueInv, Loads
<1>1. mpv = [file |-> mpv.file, stage |-> mpv.stage, next |-> mpv.next]
      /\ mpv.file \in 0..MaxLoads /\ mpv.next \in 0..MaxLoads
      /\ mpv.stage \in {"idle", "opening", "loaded", "playing"}
  BY <1>0 DEF TypeOK
<1>2. ASSUME MpvUnchanged PROVE UNCHANGED <<engineVars, sessionVars, historyVars, generation>>
  BY <1>2 DEF MpvUnchanged, engineVars
<1>3. CASE MpvStart
  <2> DEFINE e == [id |-> "start", load |-> mpv.next, reason |-> "none"]
  <2>1. /\ mpv.next = generation /\ mpv.file < generation /\ mpv'.file = generation /\ mpv'.next = 0
        /\ mpv'.stage = "opening" /\ generation' = generation /\ mpvEvents' = Append(mpvEvents, e)
        /\ mpv' \in [file : 0..MaxLoads, stage : {"idle", "opening", "loaded", "playing"}, next : 0..MaxLoads]
    BY <1>0, <1>1, <1>2, <1>3 DEF MpvStart, MpvInv
  <2>2. MpvInv' /\ reports' \in 0..MaxReports
    BY <1>0, <1>3, <2>1 DEF MpvInv, MpvStart, TypeOK
  <2>3. e \in Event /\ e.id = "start" /\ e.load = generation
    BY <1>0, <2>1 DEF Event, Ids
  <2> HIDE DEF e
  <2> QED
    BY <1>0, <1>1, <1>2, <1>3, <2>1, <2>2, <2>3, TellStep DEF MpvStart
\* What is told otherwise is of the file it plays, and it goes on to play that.
<1>4. ASSUME NEW id \in Ids \ {"start"}, NEW reason \in Reasons \cup {"none"}, NEW stage,
             stage \in {"idle", "opening", "loaded", "playing"},
             mpv.stage # "idle", mpv' = [mpv EXCEPT !.stage = stage], Tell(id, reason),
             reports' \in 0..MaxReports, MpvUnchanged, id = "end" => stage = "idle"
      PROVE  EngineInv'
  <2> DEFINE e == [id |-> id, load |-> mpv.file, reason |-> reason]
  <2>1. /\ mpv'.file = mpv.file /\ mpv'.next = mpv.next /\ mpv'.stage = stage
        /\ mpv' \in [file : 0..MaxLoads, stage : {"idle", "opening", "loaded", "playing"}, next : 0..MaxLoads]
    BY <1>1, <1>4
  <2>2. mpvEvents' = Append(mpvEvents, e)
    BY <1>4 DEF Tell
  <2>3. MpvInv' /\ mpv.file # 0
    BY <1>0, <1>2, <1>4, <2>1 DEF MpvInv
  <2>4. e \in Event /\ e.id = id /\ e.load = mpv.file
    BY <1>1, <1>4, <2>3 DEF Event, Loads
  <2> HIDE DEF e
  <2> QED
    BY <1>0, <1>1, <1>2, <1>4, <2>1, <2>2, <2>3, <2>4, TellStep
<1>5. CASE MpvLoaded
  BY <1>0, <1>4, <1>5 DEF MpvLoaded, Ids, TypeOK
<1>6. CASE MpvRestart
  <2>1. reports' \in 0..MaxReports
    BY <1>0, <1>6, EngineAssumption DEF MpvRestart, TypeOK
  <2>2. /\ mpv.stage # "idle" /\ mpv' = [mpv EXCEPT !.stage = "playing"]
        /\ Tell("restart", "none") /\ MpvUnchanged
    BY <1>6 DEF MpvRestart
  <2> QED
    BY <1>4, <2>1, <2>2 DEF Ids
<1>7. CASE MpvReport
  <2>1. mpv' = [mpv EXCEPT !.stage = mpv.stage]
    BY <1>1, <1>7 DEF MpvReport
  <2>2. reports' \in 0..MaxReports
    BY <1>0, <1>7, EngineAssumption DEF MpvReport, TypeOK
  <2>3. mpv.stage # "idle" /\ Tell("property", "none") /\ MpvUnchanged
    BY <1>7 DEF MpvReport
  <2> QED
    BY <1>1, <1>4, <2>1, <2>2, <2>3 DEF Ids
<1>8. ASSUME NEW reason \in Reasons, MpvEnd(reason) PROVE EngineInv'
  BY <1>0, <1>4, <1>8 DEF MpvEnd, Ids, TypeOK
<1> QED
  BY <1>3, <1>5, <1>6, <1>7, <1>8 DEF Mpv

LEMMA SentIs ==
  ASSUME TypeOK, NEW event \in News
  PROVE  LET after == Sent(event)
         IN /\ after \in Seq(News) /\ Len(after) <= ChannelCap /\ Len(channel) \in Nat
            /\ \A i \in 1..Len(after) : (i \in 1..Len(channel) /\ after[i] = channel[i]) \/ after[i] = event
<1>1. channel \in Seq(News) /\ Len(channel) \in Nat /\ Len(channel) <= ChannelCap /\ ChannelCap \in Nat
  BY EngineAssumption DEF TypeOK, News
<1> DEFINE after == Append(channel, event)
<1>2. after \in Seq(News) /\ Len(after) = Len(channel) + 1
      /\ \A i \in 1..Len(channel) : after[i] = channel[i]
      /\ after[Len(channel) + 1] = event
  BY <1>1, AppendIs
<1>3. CASE Len(channel) < ChannelCap
  <2>1. Sent(event) = after
    BY <1>3 DEF Sent
  <2>2. \A i \in 1..(Len(channel) + 1) : i \in 1..Len(channel) \/ i = Len(channel) + 1
    BY <1>1
  <2>3. Len(after) <= ChannelCap
    BY <1>1, <1>2, <1>3
  <2>4. \A i \in 1..Len(after) : (i \in 1..Len(channel) /\ after[i] = channel[i]) \/ after[i] = event
    BY <1>2, <2>2
  <2> HIDE DEF after
  <2> QED
    BY <1>1, <1>2, <2>1, <2>3, <2>4
<1>4. CASE ~(Len(channel) < ChannelCap)
  BY <1>1, <1>4 DEF Sent
<1> QED
  BY <1>3, <1>4

LEMMA EngineLoadStep ==
  ASSUME EngineInv, EngineLoad PROVE EngineInv'
<1>0. /\ TypeOK /\ MpvInv /\ StartsInv /\ EndsInv /\ NewsInv /\ StreamsInv
      /\ {generation, loads, current} \subseteq Loads /\ generation < loads /\ MaxLoads \in Nat
  BY EngineAssumption DEF EngineInv, QueueInv, TypeOK, EngineLoad, Emptied
<1>1. /\ mpvEvents' = <<>> /\ Len(mpvEvents') = 0 /\ generation' = loads /\ position' = loads
      /\ pending' /\ ~pendingStarted' /\ started' = "none" /\ observed' = 0 /\ asked' = FALSE
      /\ UNCHANGED <<current, loads, loading, closed, closer, open>>
      /\ UNCHANGED <<starts, ends, failures, heard, misled, missed, channel, reports>>
  BY DEF EngineLoad, Emptied, historyVars
<1>m. /\ missed \subseteq 1..generation' /\ generation' \notin missed'
  <2>1. missed \subseteq 1..generation
    BY <1>0 DEF TypeOK
  <2> QED
    BY <1>0, <1>1, <2>1 DEF Loads
<1>2. /\ mpv'.file = mpv.file /\ mpv'.stage = mpv.stage /\ mpv'.next = loads
      /\ mpv' \in [file : 0..MaxLoads, stage : {"idle", "opening", "loaded", "playing"}, next : 0..MaxLoads]
  <2>1. mpv' = [mpv EXCEPT !.next = loads] /\ loads \in 0..MaxLoads
    BY <1>0 DEF EngineLoad, Loads
  <2>2. mpv \in [file : 0..MaxLoads, stage : {"idle", "opening", "loaded", "playing"}, next : 0..MaxLoads]
    BY <1>0 DEF TypeOK
  <2>3. mpv' \in [file : 0..MaxLoads, stage : {"idle", "opening", "loaded", "playing"}, next : 0..MaxLoads]
    BY <2>1, <2>2
  <2>4. mpv'.file = mpv.file /\ mpv'.stage = mpv.stage /\ mpv'.next = loads
    BY <2>1, <2>2
  <2> QED
    BY <2>3, <2>4
<1>3. TypeOK'
  <2>1. {pending', pendingStarted', ended', failed', misled', loading', closed', asked'} \subseteq BOOLEAN
    <3>1. {loading, closed, asked, misled} \subseteq BOOLEAN
      BY <1>0 DEF TypeOK
    <3> QED
      BY <1>1, <3>1 DEF EngineLoad
  <2>2. mpvEvents' \in Seq([id : Ids, load : Loads, reason : Reasons \cup {"none"}])
    BY <1>1
  <2>3. {generation', current', loads', position'} \subseteq Loads /\ generation' <= loads' /\ current' <= generation'
    BY <1>0, <1>1 DEF TypeOK, Loads
  <2>4. observed' \in 0..MaxLoads /\ started' \in Stages /\ (pendingStarted' => pending')
    BY <1>0, <1>1 DEF Stages
  <2> QED
    BY <1>0, <1>1, <1>2, <1>m, <2>1, <2>2, <2>3, <2>4 DEF TypeOK
<1>4. MpvInv'
  BY <1>0, <1>1, <1>2 DEF MpvInv, Loads, TypeOK
<1>5. TellsInOrder' /\ EndIsLast' /\ ReadIsOwn'
  BY <1>1, <1>m DEF TellsInOrder, EndIsLast, ReadIsOwn, IsRead
<1>6. StartIsAhead'
  BY <1>0, <1>1, <1>2 DEF StartIsAhead, Loads
<1>7. StartsInv'
  <2>1. starts \in Seq(Start) /\ \A i \in 1..Len(starts) : starts[i] \in Start
    BY <1>0 DEF StartsInv
  <2>2. \A i \in 1..Len(starts) : starts[i][1] \in Nat /\ starts[i][1] <= generation
    BY <1>0, <2>1 DEF StartsInv, StartsInOrder, Start, Loads
  <2>3. \A i \in 1..Len(starts) : starts[i][1] <= loads /\ starts[i][1] # loads
    BY <1>0, <2>2 DEF Loads
  <2>4. StartsInOrder'
    BY <1>0, <1>1, <2>3 DEF StartsInv, StartsInOrder
  <2> QED
    BY <1>0, <1>1, <2>1, <2>3, <2>4 DEF StartsInv
<1>8. EndsInv'
  <2>0. \A l \in Loads : l <= generation => l \in Nat /\ l <= loads /\ l # loads
    BY <1>0 DEF Loads
  <2>a. /\ \A i \in 1..Len(ends) : ends[i] \in Loads /\ ends[i] <= generation
        /\ \A i \in 1..Len(failures) : failures[i] \in Loads /\ failures[i] <= generation
    BY <1>0 DEF EndsInv
  <2>1. \A i \in 1..Len(ends) : ends[i] \in Nat /\ ends[i] <= loads /\ ends[i] # loads
    BY <2>0, <2>a
  <2>2. \A i \in 1..Len(failures) : failures[i] \in Nat /\ failures[i] <= loads /\ failures[i] # loads
    BY <2>0, <2>a
  <2>3. ~Over' /\ EndsApart' = EndsApart
    BY <1>1, <2>1, <2>2 DEF Over, EndsApart, Once
  <2> QED
    BY <1>0, <1>1, <2>1, <2>2, <2>3 DEF EndsInv
<1>9. NewsInv' /\ StreamsInv'
  BY <1>0, <1>1 DEF NewsInv, Faithful, StreamsInv
<1> QED
  BY <1>3, <1>4, <1>5, <1>6, <1>7, <1>8, <1>9 DEF EngineInv, QueueInv

\* A refused load drops what the engine has not read; what it dropped of the load
\* that goes on is no longer counted on.
LEMMA EngineRefusesStep ==
  ASSUME EngineInv, EngineRefuses PROVE EngineInv'
<1>0. /\ TypeOK /\ MpvInv /\ TellsInOrder /\ ReadIsOwn /\ StartIsAhead /\ StartsInv /\ EndsInv /\ NewsInv
      /\ StreamsInv /\ mpvEvents \in Seq(Event) /\ generation \in Nat \ {0}
  BY EngineAssumption DEF EngineInv, QueueInv, TypeOK, Event, Loads
<1>1. /\ mpvEvents' = <<>> /\ Len(mpvEvents') = 0 /\ asked' = FALSE /\ missed' = missed \cup MissedNow
      /\ UNCHANGED <<mpv, reports, generation, pending, pendingStarted, started, ended, failed, position>>
      /\ UNCHANGED <<channel, current, loads, loading, closed, closer, open>>
      /\ UNCHANGED <<starts, ends, failures, heard, misled>>
  BY DEF EngineRefuses, Emptied
<1>2. missed' \subseteq 1..generation /\ missed \subseteq missed'
  <2>1. MissedNow \subseteq {generation}
    BY DEF MissedNow
  <2>2. missed \subseteq 1..generation /\ generation \in 1..generation
    BY <1>0 DEF TypeOK
  <2> QED
    BY <1>1, <2>1, <2>2
<1>3. /\ Len(mpvEvents) \in Nat /\ DOMAIN mpvEvents = 1..Len(mpvEvents)
      /\ \A i \in 1..Len(mpvEvents) : mpvEvents[i] \in Event
  BY <1>0
<1>4. \/ observed' = observed
      \/ \E i \in 1..Len(mpvEvents) : observed' = mpvEvents[i].load
  BY <1>3 DEF EngineRefuses
<1>5. observed' \in 0..MaxLoads
  BY <1>0, <1>3, <1>4, EngineAssumption DEF TypeOK, Event, Loads
<1>6. TypeOK'
  <2>1. {pending, pendingStarted, ended, failed, loading, closed, FALSE, misled} \subseteq BOOLEAN
    BY <1>0 DEF TypeOK
  <2>2. mpvEvents' \in Seq([id : Ids, load : Loads, reason : Reasons \cup {"none"}])
    BY <1>1
  <2> QED
    BY <1>0, <1>1, <1>2, <1>5, <2>1, <2>2 DEF TypeOK
<1>7. ASSUME NEW i \in 1..Len(mpvEvents), mpvEvents[i].id \in Milestones, mpvEvents[i].load = generation
      PROVE  generation \in missed'
  <2>1. mpvEvents[i] \in Dropped
    BY <1>3 DEF Dropped, ToSet
  <2> QED
    BY <1>1, <1>7, <2>1 DEF MissedNow
\* What counts as read was read; a load that is missed from now on has started.
<1>8. IsRead' => IsRead
  BY <1>1, <1>2 DEF IsRead, Faithful
<1>9. generation \in missed' => mpv.next = 0
  <2>1. CASE generation \in missed
    BY <1>0, <2>1 DEF ReadIsOwn
  <2>2. CASE generation \notin missed
    <3> SUFFICES ASSUME generation \in missed' PROVE mpv.next = 0
      OBVIOUS
    <3>1. PICK e \in Dropped : e.load = generation
      BY <1>1, <2>2 DEF MissedNow
    <3>2. PICK i \in 1..Len(mpvEvents) : mpvEvents[i].load = generation
      BY <1>3, <3>1 DEF Dropped, ToSet
    <3>3. generation <= mpv.file
      BY <1>0, <3>2 DEF TellsInOrder
    <3>4. mpv.file \in Nat
      BY <1>0 DEF TypeOK
    <3> QED
      BY <1>0, <3>3, <3>4 DEF MpvInv
  <2> QED
    BY <2>1, <2>2
<1>10. ReadIsOwn'
  <2>1. IsRead => observed' \in {0, generation}
    BY <1>0, <1>4 DEF ReadIsOwn
  <2>2. IsRead => mpv.next = 0
    BY <1>0 DEF ReadIsOwn
  <2> QED
    BY <1>1, <1>8, <1>9, <2>1, <2>2 DEF ReadIsOwn
<1>11. StartIsAhead'
  <2> SUFFICES ASSUME pending, ~pendingStarted, generation \notin missed' PROVE mpv.next # 0
    BY <1>1 DEF StartIsAhead
  <2>1. \A i \in 1..Len(mpvEvents) : mpvEvents[i].id # "start"
    BY <1>0, <1>7 DEF TellsInOrder, Milestones
  <2> QED
    BY <1>0, <1>2, <2>1 DEF StartIsAhead
<1>12. MpvInv' /\ TellsInOrder' /\ EndIsLast'
  BY <1>0, <1>1 DEF MpvInv, TellsInOrder, EndIsLast
<1>13. StartsInv' /\ StreamsInv'
  BY <1>0, <1>1 DEF StartsInv, StartsInOrder, StreamsInv
<1>14. EndsInv'
  BY <1>0, <1>1 DEF EndsInv, Over, EndsApart, Once
<1>15. NewsInv'
  <2>1. \A l : Faithful(l)' => Faithful(l)
    BY <1>1, <1>2 DEF Faithful
  <2> QED
    BY <1>0, <1>1, <2>1 DEF NewsInv, Faithful
<1> QED
  BY <1>6, <1>10, <1>11, <1>12, <1>13, <1>14, <1>15 DEF EngineInv, QueueInv

LEMMA TickStep ==
  ASSUME EngineInv, Tick PROVE EngineInv'
<1>0. TypeOK /\ ReadIsOwn /\ NewsInv /\ generation \in Loads /\ observed \in 0..MaxLoads
      /\ generation \in Nat \ {0} /\ position \in Loads
  BY EngineAssumption DEF EngineInv, QueueInv, TypeOK, Loads
<1>1. /\ UNCHANGED <<mpvVars, generation, pending, pendingStarted, started, ended, failed, observed>>
      /\ UNCHANGED <<sessionVars, historyVars>> /\ ~pending
      /\ position' = IF observed # 0 /\ ~ended THEN observed ELSE position
  BY DEF Tick
<1> DEFINE e == [gen |-> generation, kind |-> "progress", load |-> position']
<1>2. position' \in Loads /\ channel' = Sent(e)
  BY <1>0, <1>1 DEF Tick, Loads
<1>3. e \in News /\ e.gen = generation /\ e.load = position'
  BY <1>0, <1>2 DEF News, Kinds
<1>4. Faithful(generation) => position' = generation
  BY <1>0, <1>1 DEF ReadIsOwn, IsRead, NewsInv
<1> HIDE DEF e
<1>5. /\ channel' \in Seq(News) /\ Len(channel') <= ChannelCap
      /\ \A i \in 1..Len(channel') : (i \in 1..Len(channel) /\ channel'[i] = channel[i]) \/ channel'[i] = e
  BY <1>0, <1>2, <1>3, SentIs
<1>6. TypeOK'
  BY <1>0, <1>1, <1>2, <1>5 DEF TypeOK, mpvVars, sessionVars, historyVars, News
<1>7. NewsInv'
  BY <1>0, <1>1, <1>3, <1>4, <1>5 DEF NewsInv, Faithful, historyVars
<1>8. QueueInv'
  BY <1>1 DEF EngineInv, QueueInv, MpvInv, TellsInOrder, EndIsLast, ReadIsOwn, IsRead, Faithful,
              StartIsAhead, mpvVars, historyVars
<1>9. StartsInv' /\ EndsInv' /\ StreamsInv'
  BY <1>1 DEF EngineInv, StartsInv, StartsInOrder, EndsInv, Over, EndsApart, Once, StreamsInv,
              mpvVars, sessionVars, historyVars
<1> QED
  BY <1>6, <1>7, <1>8, <1>9 DEF EngineInv

LEMMA SessionStep ==
  ASSUME EngineInv, Session PROVE EngineInv'
<1>0. TypeOK /\ NewsInv /\ StreamsInv /\ {generation, current, loads} \subseteq Loads /\ MaxLoads \in Nat
      /\ generation <= loads /\ current <= generation
  BY EngineAssumption DEF EngineInv, TypeOK
<1>1. ASSUME UNCHANGED <<mpvVars, generation, pending, pendingStarted, started, observed>>,
             UNCHANGED <<starts, ends, failures, misled, missed>>
      PROVE  QueueInv' /\ StartsInv' /\ EndsInv'
  <2>1. MpvInv' /\ TellsInOrder' /\ EndIsLast' /\ StartIsAhead'
    BY <1>1 DEF EngineInv, QueueInv, MpvInv, TellsInOrder, EndIsLast, StartIsAhead, mpvVars
  <2>2. ReadIsOwn'
    BY <1>1 DEF EngineInv, QueueInv, ReadIsOwn, IsRead, Faithful, mpvVars
  <2>3. StartsInv' /\ EndsInv'
    BY <1>1 DEF EngineInv, StartsInv, StartsInOrder, EndsInv, Over, EndsApart, Once, mpvVars
  <2> QED
    BY <2>1, <2>2, <2>3 DEF QueueInv
<1>2. ASSUME UNCHANGED <<mpvVars, engineVars, historyVars>>, TypeOK', StreamsInv'
      PROVE  EngineInv'
  <2>1. QueueInv' /\ StartsInv' /\ EndsInv'
    BY <1>1, <1>2 DEF engineVars, historyVars
  <2>2. NewsInv'
    BY <1>0, <1>2 DEF NewsInv, Faithful, engineVars, historyVars
  <2> QED
    BY <1>2, <2>1, <2>2 DEF EngineInv
<1>3. CASE BeginLoad
  <2>1. loads + 1 \in Loads /\ loads \in Nat
    BY <1>0, <1>3 DEF BeginLoad, Loads
  <2>a. generation \in Nat /\ generation <= loads + 1 /\ generation < loads + 1
    BY <1>0, <2>1 DEF Loads
  <2>b. /\ UNCHANGED <<mpv, mpvEvents, reports, generation, pending, pendingStarted, started, ended, failed>>
        /\ UNCHANGED <<observed, position, channel, current, closed, closer, misled, missed>>
        /\ loads' = loads + 1 /\ loading' = TRUE /\ asked' = TRUE /\ open' \subseteq Loads
    BY <1>0, <1>3, <2>1 DEF BeginLoad, TypeOK, mpvVars, engineVars, historyVars
  <2> HIDE DEF BeginLoad
  <2>2. TypeOK'
    BY <1>0, <2>1, <2>a, <2>b DEF TypeOK
  <2>3. StreamsInv'
    BY <1>0, <1>3, <2>2 DEF BeginLoad, StreamsInv, TypeOK
  <2> QED
    BY <1>2, <1>3, <2>2, <2>3 DEF BeginLoad
<1>4. CASE LoadReturns
  <2>a. generation = loads /\ ~closed /\ asked' = asked /\ loading' = FALSE /\ open' \subseteq open /\ current' = loads
        /\ UNCHANGED <<mpvVars, engineVars, loads, closed, closer, historyVars>>
    BY <1>4 DEF LoadReturns, LoadEnds
  <2>b. asked \in BOOLEAN /\ (asked => generation < loads) /\ loads \in Nat
    BY <1>0 DEF TypeOK, Loads
  <2>c. asked = FALSE
    BY <2>a, <2>b
  <2>d. open' \subseteq Loads /\ loading' \in BOOLEAN /\ loads <= loads
    BY <1>0, <2>a, <2>b DEF TypeOK
  <2>e. UNCHANGED <<mpv, mpvEvents, reports, generation, pending, pendingStarted, started, ended, failed>>
        /\ UNCHANGED <<observed, position, channel, loads, closed, closer, misled, missed, asked>>
    BY <2>a DEF mpvVars, engineVars, historyVars
  <2>1. TypeOK'
    BY <1>0, <2>a, <2>b, <2>c, <2>d, <2>e DEF TypeOK
  <2>2. StreamsInv'
    <3>1. open' = open \ {current} /\ loading
      BY <1>4 DEF LoadReturns, LoadEnds
    <3> QED
      BY <1>0, <2>a, <3>1 DEF StreamsInv
  <2> QED
    BY <1>2, <1>4, <2>1, <2>2 DEF LoadReturns, LoadEnds
<1>5. CASE LoadFails
  <2>1. TypeOK'
    BY <1>0, <1>5 DEF LoadFails, LoadEnds, CandidateClosed, TypeOK, mpvVars, engineVars, historyVars
  <2>2. StreamsInv'
    BY <1>0, <1>5 DEF LoadFails, LoadEnds, CandidateClosed, StreamsInv, TypeOK
  <2> QED
    BY <1>2, <1>5, <2>1, <2>2 DEF LoadFails, LoadEnds
<1>6. CASE BeginClose
  <2>1. TypeOK'
    BY <1>0, <1>6 DEF BeginClose, TypeOK, mpvVars, engineVars, historyVars
  <2>2. StreamsInv'
    BY <1>0, <1>6 DEF BeginClose, StreamsInv
  <2> QED
    BY <1>2, <1>6, <2>1, <2>2 DEF BeginClose
<1>7. CASE FinishClose
  <2>1. TypeOK'
    BY <1>0, <1>7 DEF FinishClose, TypeOK, mpvVars, engineVars, historyVars
  <2>2. StreamsInv'
    BY <1>0, <1>7 DEF FinishClose, StreamsInv
  <2> QED
    BY <1>2, <1>7, <2>1, <2>2 DEF FinishClose
<1>8. CASE Forward
  <2>1. channel \in Seq(News) /\ channel # <<>> /\ channel' = Tail(channel)
    BY <1>0, <1>8 DEF Forward, TypeOK, News
  <2>2. /\ channel' \in Seq(News) /\ Len(channel') = Len(channel) - 1 /\ Len(channel) \in Nat \ {0}
        /\ \A i \in 1..(Len(channel) - 1) : channel'[i] = channel[i + 1]
        /\ Head(channel) = channel[1] /\ Head(channel) \in News
    BY <2>1, TailIs
  <2>3. TypeOK'
    BY <1>0, <1>8, <2>2, EngineAssumption DEF Forward, TypeOK, News, mpvVars, sessionVars
  <2>4. heard' \in [as : Loads, load : Loads]
    BY <1>0, <1>8, <2>2 DEF Forward, News, NewsInv
  <2>5. \A i \in 1..Len(channel') : i + 1 \in 1..Len(channel)
    BY <2>2
  <2>6. \A i \in 1..Len(channel') : Faithful(channel'[i].gen) => channel'[i].load = channel'[i].gen
    BY <1>0, <2>2, <2>5 DEF NewsInv
  <2>7. Faithful(heard'.as) => heard'.load = heard'.as
    <3>1. CASE Forwardable(Head(channel))
      BY <1>0, <1>8, <2>2, <3>1 DEF Forward, Forwardable, NewsInv
    <3>2. CASE ~Forwardable(Head(channel))
      BY <1>0, <1>8, <3>2 DEF Forward, NewsInv
    <3> QED
      BY <3>1, <3>2
  <2>8. NewsInv'
    BY <1>0, <1>8, <2>4, <2>6, <2>7 DEF Forward, NewsInv, Faithful
  <2>9. QueueInv' /\ StartsInv' /\ EndsInv'
    BY <1>1, <1>8 DEF Forward
  <2>10. StreamsInv'
    BY <1>0, <1>8 DEF Forward, StreamsInv, sessionVars
  <2> QED
    BY <2>3, <2>8, <2>9, <2>10 DEF EngineInv
<1> QED
  BY <1>3, <1>4, <1>5, <1>6, <1>7, <1>8 DEF Session

\* What the engine reads next, and what is left then.
LEMMA PolledIs ==
  ASSUME EngineInv, NEW id \in Ids, Polled(id)
  PROVE  /\ mpvEvents' \in Seq(Event) /\ Len(mpvEvents) \in Nat \ {0} /\ Len(mpvEvents') = Len(mpvEvents) - 1
         /\ 1 \in 1..Len(mpvEvents) /\ mpvEvents[1] \in Event /\ mpvEvents[1].id = id /\ About = mpvEvents[1].load
         /\ About \in Loads /\ (id = "start" => About = generation) /\ (IsRead \/ generation \in missed => About = generation)
         /\ \A i \in 1..Len(mpvEvents') : i + 1 \in 1..Len(mpvEvents) /\ mpvEvents'[i] = mpvEvents[i + 1]
         /\ UNCHANGED <<mpv, generation>>
         /\ MpvInv' /\ TellsInOrder' /\ EndIsLast' /\ StreamsInv'
         /\ ~misled => ~Over
<1>0. /\ mpvEvents \in Seq(Event) /\ mpvEvents # <<>> /\ mpvEvents' = Tail(mpvEvents)
      /\ Head(mpvEvents).id = id /\ UNCHANGED <<mpv, generation, sessionVars>>
      /\ TypeOK /\ MpvInv /\ TellsInOrder /\ EndIsLast /\ ReadIsOwn /\ StreamsInv /\ EndsInv
  BY DEF EngineInv, QueueInv, TypeOK, Event, Polled
<1>1. /\ mpvEvents' \in Seq(Event) /\ Len(mpvEvents') = Len(mpvEvents) - 1 /\ Len(mpvEvents) \in Nat \ {0}
      /\ \A i \in 1..(Len(mpvEvents) - 1) : mpvEvents'[i] = mpvEvents[i + 1]
      /\ Head(mpvEvents) = mpvEvents[1] /\ Head(mpvEvents) \in Event
  BY <1>0, TailIs
<1>2. /\ 1 \in 1..Len(mpvEvents) /\ mpvEvents[1].id = id /\ About = mpvEvents[1].load /\ About \in Loads
      /\ mpvEvents[1] \in Event
  BY <1>0, <1>1 DEF About, Event
<1>3. \A i \in 1..Len(mpvEvents') : i + 1 \in 1..Len(mpvEvents) /\ mpvEvents'[i] = mpvEvents[i + 1]
  BY <1>1
<1>4. (id = "start" => About = generation) /\ (IsRead \/ generation \in missed => About = generation)
  BY <1>0, <1>2 DEF TellsInOrder, ReadIsOwn
<1>5. MpvInv' /\ StreamsInv'
  BY <1>0 DEF MpvInv, StreamsInv, sessionVars
<1>6. TellsInOrder'
  <2>1. \A i, j \in 1..Len(mpvEvents') : i < j => i + 1 < j + 1
    BY <1>1
  <2> QED
    BY <1>0, <1>3, <2>1 DEF TellsInOrder
<1>7. EndIsLast'
  <2>1. \A i \in 1..Len(mpvEvents') : i + 1 = Len(mpvEvents) => i = Len(mpvEvents')
    BY <1>1
  <2> QED
    BY <1>0, <1>3, <2>1 DEF EndIsLast
<1>8. ~misled => ~Over
  BY <1>0 DEF EndsInv
<1> QED
  BY <1>0, <1>1, <1>2, <1>3, <1>4, <1>5, <1>6, <1>7, <1>8

\* Once it is read, all that is left is of the current load.
LEMMA ReadStays ==
  ASSUME EngineInv, NEW id \in Ids, Polled(id), IsRead' => IsRead, observed' \in {0, observed, About},
         UNCHANGED missed
  PROVE  ReadIsOwn'
<1>1. ReadIsOwn
  BY DEF EngineInv, QueueInv
<1> QED
  BY <1>1, PolledIs DEF ReadIsOwn

\* What is no start leaves the start ahead.
LEMMA StartStays ==
  ASSUME EngineInv, NEW id \in Ids \ {"start"}, Polled(id),
         pending' /\ ~pendingStarted' => pending /\ ~pendingStarted, UNCHANGED missed
  PROVE  StartIsAhead' /\ (pending /\ ~pendingStarted /\ generation \notin missed => About # generation)
<1>0. StartIsAhead
  BY DEF EngineInv, QueueInv
<1>1. /\ Len(mpvEvents) \in Nat \ {0} /\ Len(mpvEvents') = Len(mpvEvents) - 1
      /\ 1 \in 1..Len(mpvEvents) /\ mpvEvents[1].id = id /\ About = mpvEvents[1].load
      /\ \A i \in 1..Len(mpvEvents') : i + 1 \in 1..Len(mpvEvents) /\ mpvEvents'[i] = mpvEvents[i + 1]
      /\ UNCHANGED <<mpv, generation>>
  BY PolledIs
<1>2. \A i \in 1..Len(mpvEvents) : mpvEvents[i].id = "start" =>
         i # 1 /\ i - 1 \in 1..Len(mpvEvents') /\ mpvEvents'[i - 1].id = "start"
  <2> SUFFICES ASSUME NEW i \in 1..Len(mpvEvents), mpvEvents[i].id = "start"
               PROVE  i # 1 /\ i - 1 \in 1..Len(mpvEvents') /\ mpvEvents'[i - 1].id = "start"
    OBVIOUS
  <2>1. i # 1
    BY <1>1
  <2>2. i - 1 \in 1..Len(mpvEvents') /\ (i - 1) + 1 = i
    BY <1>1, <2>1
  <2> QED
    BY <1>1, <2>1, <2>2
<1>3. SUFFICES ASSUME pending, ~pendingStarted, generation \notin missed
      PROVE  /\ \A j \in 1..Len(mpvEvents') : mpvEvents'[j].load = generation =>
                   \E i \in 1..j : mpvEvents'[i].id = "start"
             /\ mpv.next = 0 => \E i \in 1..Len(mpvEvents') : mpvEvents'[i].id = "start"
             /\ About # generation
  BY <1>1 DEF StartIsAhead
<1>4. About # generation
  <2>1. \A i \in 1..1 : i = 1
    OBVIOUS
  <2> QED
    BY <1>0, <1>1, <1>3, <2>1 DEF StartIsAhead
<1>5. mpv.next = 0 => \E i \in 1..Len(mpvEvents') : mpvEvents'[i].id = "start"
  BY <1>0, <1>2, <1>3 DEF StartIsAhead
<1>6. ASSUME NEW j \in 1..Len(mpvEvents'), mpvEvents'[j].load = generation
      PROVE  \E i \in 1..j : mpvEvents'[i].id = "start"
  <2>1. PICK k \in 1..(j + 1) : mpvEvents[k].id = "start"
    BY <1>0, <1>1, <1>3, <1>6 DEF StartIsAhead
  <2>2. k \in 1..Len(mpvEvents)
    BY <1>1, <1>6
  <2>3. k # 1 /\ mpvEvents'[k - 1].id = "start"
    BY <1>2, <2>1, <2>2
  <2>4. k - 1 \in 1..j
    BY <2>1, <2>3
  <2> QED
    BY <2>3, <2>4
<1> QED
  BY <1>4, <1>5, <1>6

LEMMA PollPropertyStep ==
  ASSUME EngineInv, PollProperty PROVE EngineInv'
<1>0. TypeOK /\ StartsInv /\ EndsInv /\ NewsInv
  BY DEF EngineInv
<1>1. /\ Polled("property") /\ observed' = About /\ "property" \in Ids \ {"start"}
      /\ UNCHANGED <<pending, pendingStarted, started, ended, failed, position, channel, historyVars>>
      /\ UNCHANGED <<mpv, reports, generation, sessionVars>>
  BY DEF PollProperty, Polled, Ids
<1>2. /\ MpvInv' /\ TellsInOrder' /\ EndIsLast' /\ StreamsInv' /\ (~misled => ~Over)
      /\ mpvEvents' \in Seq(Event) /\ About \in Loads
  BY <1>1, PolledIs
<1>3. ReadIsOwn'
  BY <1>1, ReadStays DEF IsRead, Faithful, historyVars
<1>4. StartIsAhead'
  BY <1>1, StartStays DEF historyVars
<1>5. TypeOK'
  BY <1>0, <1>1, <1>2 DEF TypeOK, Event, Loads, sessionVars, historyVars
<1>6. EndsInv'
  BY <1>0, <1>1, <1>2 DEF EndsInv, Over, EndsApart, Once, historyVars
<1>7. StartsInv' /\ NewsInv'
  BY <1>0, <1>1 DEF StartsInv, StartsInOrder, NewsInv, Faithful, historyVars
<1> QED
  BY <1>2, <1>3, <1>4, <1>5, <1>6, <1>7 DEF EngineInv, QueueInv

LEMMA PollStartStep ==
  ASSUME EngineInv, PollStart PROVE EngineInv'
<1>0. TypeOK /\ StartsInv /\ EndsInv /\ NewsInv /\ MpvInv /\ TellsInOrder /\ ReadIsOwn
      /\ pending \in BOOLEAN /\ pendingStarted \in BOOLEAN /\ (pendingStarted => pending)
      /\ generation \in Nat \ {0} /\ mpv.file \in Nat
  BY EngineAssumption DEF EngineInv, QueueInv, TypeOK, Loads
<1>1. /\ Polled("start") /\ observed' = (IF pending THEN 0 ELSE observed) /\ "start" \in Ids
      /\ pendingStarted' = pending
      /\ UNCHANGED <<pending, started, ended, failed, position, channel, historyVars>>
      /\ UNCHANGED <<mpv, reports, generation, sessionVars>>
  BY <1>0 DEF PollStart, Polled, Ids, ForgottenAtStart, StartCounts
<1>2. /\ MpvInv' /\ TellsInOrder' /\ EndIsLast' /\ StreamsInv' /\ (~misled => ~Over)
      /\ mpvEvents' \in Seq(Event) /\ About = generation /\ About = mpvEvents[1].load
      /\ Len(mpvEvents) \in Nat \ {0} /\ Len(mpvEvents') = Len(mpvEvents) - 1 /\ 1 \in 1..Len(mpvEvents)
      /\ \A i \in 1..Len(mpvEvents') : i + 1 \in 1..Len(mpvEvents) /\ mpvEvents'[i] = mpvEvents[i + 1]
      /\ \A i \in 1..Len(mpvEvents) : mpvEvents[i] \in Event
  <2>1. mpvEvents \in Seq(Event)
    BY <1>0 DEF TypeOK, Event
  <2> QED
    BY <1>1, <2>1, PolledIs
<1>3. ReadIsOwn'
  <2>1. CASE pending
    <3>1. \A i \in 1..Len(mpvEvents') :
             generation <= mpvEvents'[i].load /\ mpvEvents'[i].load <= mpv.file /\ mpvEvents'[i].load \in Nat
      <4>1. \A i \in 1..Len(mpvEvents') : 1 < i + 1
        BY <1>2
      <4>2. \A i \in 1..Len(mpvEvents) : mpvEvents[i].load \in Nat /\ mpvEvents[i].load <= mpv.file
        BY <1>0, <1>2 DEF TellsInOrder, Event, Loads
      <4>3. \A i \in 1..Len(mpvEvents) : 1 < i => generation <= mpvEvents[i].load
        BY <1>0, <1>2 DEF TellsInOrder
      <4> QED
        BY <1>2, <4>1, <4>2, <4>3
    <3>2. generation <= mpv.file
      BY <1>0, <1>2 DEF TellsInOrder
    <3>3. mpv.file = generation /\ mpv.next = 0
      BY <1>0, <3>2 DEF MpvInv
    <3>4. \A i \in 1..Len(mpvEvents') : mpvEvents'[i].load = generation
      BY <1>0, <3>1, <3>3
    <3> QED
      BY <1>1, <2>1, <3>3, <3>4 DEF ReadIsOwn
  <2>2. CASE ~pending
    BY <1>0, <1>1, <2>2, ReadStays DEF IsRead, Faithful, historyVars
  <2> QED
    BY <2>1, <2>2
<1>4. StartIsAhead'
  BY <1>1 DEF StartIsAhead
<1>5. TypeOK'
  <2>1. observed' \in 0..MaxLoads
    BY <1>0, <1>1, EngineAssumption DEF TypeOK
  <2>2. {pending', pendingStarted', ended', failed', loading', closed', asked', misled'} \subseteq BOOLEAN
    BY <1>0, <1>1 DEF TypeOK, sessionVars, historyVars
  <2>3. UNCHANGED <<mpv, reports, generation, current, loads, position, started, channel, closer, closed, open, loading, asked, missed>>
    BY <1>1 DEF sessionVars, historyVars
  <2> QED
    BY <1>0, <1>1, <1>2, <2>1, <2>2, <2>3 DEF TypeOK, Event
<1>6. EndsInv'
  BY <1>0, <1>1, <1>2 DEF EndsInv, Over, EndsApart, Once, historyVars
<1>7. StartsInv' /\ NewsInv'
  BY <1>0, <1>1 DEF StartsInv, StartsInOrder, NewsInv, Faithful, historyVars
<1> QED
  BY <1>2, <1>3, <1>4, <1>5, <1>6, <1>7 DEF EngineInv, QueueInv

\* A stage that is reached is of the current load, and the next one of its stages.
LEMMA ReachStep ==
  ASSUME EngineInv, NEW stage \in Stages, Reach(stage), UNCHANGED generation,
         stage # "none" => ~pending',
         stage # "none" => About = generation,
         stage = "fileLoaded" => started = "none",
         stage = "playing" => started = "fileLoaded",
         pending' => pending
  PROVE  StartsInv' /\ started' \in Stages
<1>0. /\ TypeOK /\ StartsInv /\ starts \in Seq(Start) /\ generation \in Loads /\ generation \in Nat
      /\ started \in Stages
  <2>1. TypeOK /\ StartsInv /\ starts \in Seq(Start)
    BY DEF EngineInv, StartsInv
  <2>2. generation \in Loads /\ started \in Stages
    BY <2>1 DEF TypeOK
  <2> QED
    BY <2>1, <2>2 DEF Loads
<1>1. CASE stage = "none"
  BY <1>0, <1>1 DEF Reach, StartsInv, StartsInOrder
<1>2. CASE stage # "none"
  <2> DEFINE n == Len(starts)
             e == <<generation, stage, generation>>
  <2>1. started' = stage /\ starts' = Append(starts, e) /\ ~pending'
    BY <1>2 DEF Reach
  <2>2. e \in Start /\ e[1] = generation /\ e[2] = stage /\ e[3] = generation
    BY <1>0 DEF Start
  <2> HIDE DEF e
  <2>3. /\ starts' \in Seq(Start) /\ Len(starts') = n + 1 /\ n \in Nat
        /\ \A i \in 1..n : starts'[i] = starts[i]
        /\ starts'[n + 1] = e
    BY <1>0, <2>1, <2>2, AppendIs
  <2>4. /\ \A i \in 1..(n + 1) : i \in 1..n \/ i = n + 1
        /\ \A i, j \in 1..(n + 1) : i < j => i \in 1..n
    BY <2>3
  <2>5. \A i \in 1..n : starts[i] \in Start /\ starts[i][1] \in Nat /\ starts[i][1] <= generation
    <3>1. \A i \in 1..n : starts[i] \in Start
      BY <1>0
    <3>2. \A s \in Start : s[1] \in Nat
      BY DEF Start, Loads
    <3>3. \A i \in 1..n : starts[i][1] <= generation
      BY <1>0 DEF StartsInv, StartsInOrder
    <3> QED
      BY <3>1, <3>2, <3>3
  <2> HIDE DEF n
  \* what was reached of this load before is the stage before
  <2>6. \A i \in 1..n : starts[i][1] < generation
                       \/ (starts[i][1] = generation /\ starts[i][2] = "fileLoaded" /\ stage = "playing")
    <3>1. \A i \in 1..n : starts[i][1] = generation =>
             starts[i][2] = "fileLoaded" /\ stage = "playing"
      BY <1>0, <1>2 DEF StartsInv, Stages, n
    <3> QED
      BY <1>0, <2>5, <3>1
  <2>7. \A i \in 1..(n + 1) : starts'[i][1] <= generation /\ starts'[i][1] = starts'[i][3]
    BY <1>0, <2>2, <2>3, <2>4, <2>5 DEF StartsInv, StartsInOrder, n
  <2>8. \A i, j \in 1..(n + 1) : i < j =>
           \/ starts'[i][1] < starts'[j][1]
           \/ starts'[i][1] = starts'[j][1] /\ starts'[i][2] = "fileLoaded" /\ starts'[j][2] = "playing"
    <3>1. \A i, j \in 1..n : i < j =>
             \/ starts[i][1] < starts[j][1]
             \/ starts[i][1] = starts[j][1] /\ starts[i][2] = "fileLoaded" /\ starts[j][2] = "playing"
      BY <1>0 DEF StartsInv, StartsInOrder, n
    <3> QED
      BY <2>2, <2>3, <2>4, <2>6, <3>1
  <2>9. \A i \in 1..(n + 1) : starts'[i][1] = generation =>
           started' # "none" /\ (started' = "fileLoaded" => starts'[i][2] = "fileLoaded")
    <3>1. started' # "none" /\ stage = started'
      BY <1>2, <2>1
    <3>2. \A i \in 1..n : starts'[i][1] = generation => starts'[i][2] = "fileLoaded"
      BY <1>0, <2>3, <2>5, <2>6
    <3> QED
      BY <2>2, <2>3, <2>4, <3>1, <3>2
  <2> QED
    BY <1>0, <2>1, <2>3, <2>7, <2>8, <2>9 DEF StartsInv, StartsInOrder
<1> QED
  BY <1>1, <1>2

LEMMA PollLoadedStep ==
  ASSUME EngineInv, PollLoaded PROVE EngineInv'
<1>0. TypeOK /\ StartsInv /\ EndsInv /\ NewsInv /\ ReadIsOwn
      /\ {pending, pendingStarted, misled} \subseteq BOOLEAN /\ (pendingStarted => pending)
  BY DEF EngineInv, QueueInv, TypeOK
<1>1. /\ Polled("fileLoaded") /\ "fileLoaded" \in Ids \ {"start"} /\ Reach(LoadedStage)
      /\ pending' = FALSE /\ pendingStarted' = FALSE
      /\ misled' = (misled \/ (pending /\ About # generation))
      /\ UNCHANGED <<ended, failed, observed, position, channel, ends, failures, heard, missed>>
      /\ UNCHANGED <<mpv, reports, generation, sessionVars>>
  BY DEF PollLoaded, Polled, Ids
<1>2. /\ MpvInv' /\ TellsInOrder' /\ EndIsLast' /\ StreamsInv' /\ (~misled => ~Over)
      /\ mpvEvents' \in Seq(Event) /\ About \in Loads /\ (IsRead => About = generation)
  BY <1>1, PolledIs
<1>3. StartIsAhead' /\ (pending /\ ~pendingStarted /\ generation \notin missed => About # generation)
  BY <1>1, StartStays
<1>4. LoadedStage \in Stages /\ LoadedStage # "playing" /\ (LoadedStage # "none" => pending /\ pendingStarted)
  BY DEF LoadedStage, Stages
<1>5. StartsInv' /\ started' \in Stages
  BY <1>0, <1>1, <1>2, <1>4, ReachStep DEF IsRead, StartsInv
<1>6. IsRead' => IsRead
  <2>1. started' # "none" => IsRead
    BY <1>1, <1>4 DEF Reach, IsRead
  <2>2. Faithful(generation)' => IsRead
    BY <1>0, <1>1, <1>3 DEF IsRead, Faithful
  <2> QED
    BY <1>1, <2>1, <2>2 DEF IsRead, Faithful
<1>7. ReadIsOwn'
  BY <1>1, <1>6, ReadStays
<1>8. TypeOK'
  BY <1>0, <1>1, <1>2, <1>5 DEF TypeOK, Event, sessionVars
<1>9. misled' \in BOOLEAN /\ (misled => misled')
  BY <1>0, <1>1
<1>10. EndsInv'
  BY <1>0, <1>1, <1>2, <1>9 DEF EndsInv, Over, EndsApart, Once
<1>11. NewsInv'
  BY <1>0, <1>1, <1>9 DEF NewsInv, Faithful
<1> QED
  BY <1>2, <1>3, <1>5, <1>7, <1>8, <1>10, <1>11 DEF EngineInv, QueueInv

LEMMA PollRestartStep ==
  ASSUME EngineInv, PollRestart PROVE EngineInv'
<1>0. TypeOK /\ StartsInv /\ EndsInv /\ NewsInv
  BY DEF EngineInv
<1>1. /\ Polled("restart") /\ "restart" \in Ids \ {"start"} /\ Reach(RestartStage)
      /\ UNCHANGED <<pending, pendingStarted, ended, failed, observed, position, channel>>
      /\ UNCHANGED <<ends, failures, heard, misled, missed>>
      /\ UNCHANGED <<mpv, reports, generation, sessionVars>>
  BY DEF PollRestart, Polled, Ids
<1>2. /\ MpvInv' /\ TellsInOrder' /\ EndIsLast' /\ StreamsInv' /\ (~misled => ~Over)
      /\ mpvEvents' \in Seq(Event) /\ About \in Loads /\ (IsRead => About = generation)
  BY <1>1, PolledIs
<1>3. StartIsAhead'
  BY <1>1, StartStays
<1>4. /\ RestartStage \in Stages /\ RestartStage # "fileLoaded"
      /\ RestartStage # "none" => started = "fileLoaded"
  BY DEF RestartStage, Stages
<1>5. started # "none" => IsRead /\ ~pending
  BY <1>0 DEF IsRead, StartsInv
<1>6. StartsInv' /\ started' \in Stages
  BY <1>1, <1>2, <1>4, <1>5, ReachStep
<1>7. IsRead' => IsRead
  BY <1>1, <1>4 DEF Reach, IsRead, Faithful
<1>8. ReadIsOwn'
  BY <1>1, <1>7, ReadStays
<1>9. TypeOK'
  BY <1>0, <1>1, <1>2, <1>6 DEF TypeOK, Event, sessionVars
<1>10. EndsInv' /\ NewsInv'
  BY <1>0, <1>1, <1>2 DEF EndsInv, Over, EndsApart, Once, NewsInv, Faithful
<1> QED
  BY <1>2, <1>3, <1>6, <1>8, <1>9, <1>10 DEF EngineInv, QueueInv

\* One more that has ended, when it was not in the list yet.
LEMMA OnceMore ==
  ASSUME NEW s \in Seq(Loads), NEW e \in Loads, Once(s), \A i \in 1..Len(s) : s[i] # e
  PROVE  Once(Append(s, e))
<1>1. /\ Len(Append(s, e)) = Len(s) + 1 /\ Len(s) \in Nat
      /\ \A i \in 1..Len(s) : Append(s, e)[i] = s[i]
      /\ Append(s, e)[Len(s) + 1] = e
  BY AppendIs
<1>2. \A i \in 1..(Len(s) + 1) : i \in 1..Len(s) \/ i = Len(s) + 1
  BY <1>1
<1> QED
  BY <1>1, <1>2 DEF Once

\* The end of a file that counts is the last that is told of the current load.
LEMMA PollEndStep ==
  ASSUME EngineInv, PollEnd PROVE EngineInv'
<1> DEFINE reason == Head(mpvEvents).reason
<1>0. /\ TypeOK /\ StartsInv /\ EndsInv /\ NewsInv /\ EndIsLast /\ generation \in Loads
      /\ {pending, pendingStarted, misled, ended, failed} \subseteq BOOLEAN /\ (pendingStarted => pending)
  BY DEF EngineInv, QueueInv, TypeOK
<1>1. /\ Polled("end") /\ "end" \in Ids \ {"start"}
      /\ pending' = PendingAfterEnd(reason) /\ pendingStarted' = (pendingStarted /\ pending')
      /\ UNCHANGED <<started, observed, position, starts, heard, misled, missed>>
      /\ UNCHANGED <<mpv, reports, generation, sessionVars>>
  BY DEF PollEnd, Polled, Ids
<1>2. /\ MpvInv' /\ TellsInOrder' /\ EndIsLast' /\ StreamsInv' /\ (~misled => ~Over)
      /\ mpvEvents' \in Seq(Event) /\ About \in Loads /\ (IsRead \/ generation \in missed => About = generation)
      /\ Len(mpvEvents) \in Nat \ {0} /\ Len(mpvEvents') = Len(mpvEvents) - 1
      /\ 1 \in 1..Len(mpvEvents) /\ mpvEvents[1].id = "end" /\ About = mpvEvents[1].load
  BY <1>1, PolledIs
<1>3. /\ pending' \in BOOLEAN /\ pendingStarted' \in BOOLEAN /\ (pending' => pending)
      /\ (pending /\ ~pending' => pendingStarted)
      /\ (pendingStarted' <=> pendingStarted /\ pending')
  BY <1>0, <1>1 DEF PendingAfterEnd
<1>4. StartIsAhead'
  BY <1>1, <1>3, StartStays
<1>5. IsRead' => IsRead
  BY <1>0, <1>1, <1>3 DEF IsRead, Faithful
<1>6. ReadIsOwn'
  BY <1>1, <1>5, ReadStays
<1>7. StartsInv'
  BY <1>0, <1>1, <1>3 DEF StartsInv, StartsInOrder
<1>8. EndCounts(reason) => ~pending'
  BY <1>1 DEF EndCounts, PendingAfterEnd
<1>9. EndCounts(reason) /\ ~misled =>
        About = generation /\ mpvEvents' = <<>> /\ mpv.stage = "idle" /\ mpv.next = 0
  <2> SUFFICES ASSUME EndCounts(reason), ~misled
               PROVE  About = generation /\ mpvEvents' = <<>> /\ mpv.stage = "idle" /\ mpv.next = 0
    OBVIOUS
  <2>1. IsRead \/ generation \in missed
    BY DEF EndCounts, IsRead, Faithful
  <2>2. 1 = Len(mpvEvents) /\ mpv.stage = "idle" /\ mpv.next = 0
    BY <1>0, <1>2, <2>1 DEF EndIsLast
  <2>3. Len(mpvEvents') = 0
    <3>1. Len(mpvEvents') = Len(mpvEvents) - 1
      BY <1>2
    <3> QED
      BY <2>2, <3>1
  <2>4. mpvEvents' = <<>>
    BY <1>2, <2>3, EmptySeq
  <2> QED
    BY <1>2, <2>1, <2>2, <2>4
\* what is told of the end, and what is not
<1>10. CASE ~EndCounts(reason)
  <2>1. UNCHANGED <<channel, ended, ends, failed, failures>>
    BY <1>10 DEF PollEnd
  <2>2. TypeOK'
    BY <1>0, <1>1, <1>2, <1>3, <2>1 DEF TypeOK, Event, sessionVars
  <2>3. EndsInv' /\ NewsInv'
    BY <1>0, <1>1, <1>2, <2>1 DEF EndsInv, Over, EndsApart, Once, NewsInv, Faithful
  <2> QED
    BY <1>2, <1>4, <1>6, <1>7, <2>2, <2>3 DEF EngineInv, QueueInv
<1>11. CASE EndCounts(reason)
  <2>1. PICK kind \in EndKinds(reason) :
          /\ channel' = Sent([gen |-> generation, kind |-> kind, load |-> About])
          /\ ended' = (ended \/ kind = "ended")
          /\ ends' = IF kind = "ended" THEN Append(ends, generation) ELSE ends
          /\ failed' = (failed \/ kind = "failed")
          /\ failures' = IF kind = "failed" /\ ~failed THEN Append(failures, generation) ELSE failures
    BY <1>11 DEF PollEnd
  <2>2. kind \in Kinds
    BY <2>1 DEF EndKinds, Kinds
  <2> DEFINE e == [gen |-> generation, kind |-> kind, load |-> About]
  <2>3. e \in News /\ e.gen = generation /\ e.load = About /\ channel' = Sent(e)
    BY <1>0, <1>2, <2>1, <2>2 DEF News
  <2> HIDE DEF e
  <2>4. /\ channel' \in Seq(News) /\ Len(channel') <= ChannelCap
        /\ \A i \in 1..Len(channel') : (i \in 1..Len(channel) /\ channel'[i] = channel[i]) \/ channel'[i] = e
    BY <1>0, <2>3, SentIs
  <2>5. TypeOK'
    <3>1. {pending', pendingStarted', ended', failed', misled'} \subseteq BOOLEAN
      BY <1>0, <1>1, <1>3, <2>1
    <3> QED
      BY <1>0, <1>1, <1>2, <1>3, <2>4, <3>1 DEF TypeOK, Event, News, sessionVars
  <2>6. NewsInv'
    BY <1>0, <1>1, <1>9, <1>11, <2>3, <2>4 DEF NewsInv, Faithful
  <2>7. /\ ends \in Seq(Loads) /\ failures \in Seq(Loads) /\ Len(ends) \in Nat /\ Len(failures) \in Nat
        /\ \A i \in 1..Len(ends) : ends[i] <= generation
        /\ \A i \in 1..Len(failures) : failures[i] <= generation
    BY <1>0 DEF EndsInv
  <2>8. ~misled => /\ Once(ends) /\ Once(failures)
                   /\ \A i \in 1..Len(ends) : ends[i] # generation
                   /\ \A i \in 1..Len(failures) : failures[i] # generation
                   /\ \A i \in 1..Len(ends), j \in 1..Len(failures) : ends[i] # failures[j]
    BY <1>0, <1>2 DEF EndsInv, EndsApart, Over
  <2>9. \A s : \A i \in 1..(Len(s) + 1) : Len(s) \in Nat => i \in 1..Len(s) \/ i = Len(s) + 1
    OBVIOUS
  <2>10. generation <= generation
    BY <1>0 DEF Loads
  <2>11. EndsInv'
    <3>1. CASE ends' = ends /\ failures' = failures
      BY <1>0, <1>1, <1>2, <3>1 DEF EndsInv, Over, EndsApart, Once
    <3>2. CASE ends' = Append(ends, generation) /\ failures' = failures
      <4>1. /\ ends' \in Seq(Loads) /\ Len(ends') = Len(ends) + 1
            /\ \A i \in 1..Len(ends) : ends'[i] = ends[i]
            /\ ends'[Len(ends) + 1] = generation
        BY <1>0, <2>7, <3>2, AppendIs
      <4>2. \A i \in 1..Len(ends') : i \in 1..Len(ends) \/ i = Len(ends) + 1
        BY <2>7, <4>1
      <4>3. \A i \in 1..Len(ends') : ends'[i] <= generation
        BY <2>7, <2>10, <4>1, <4>2
      <4>4. ~misled => Once(ends')
        BY <1>0, <2>7, <2>8, <3>2, OnceMore
      <4>5. ~misled => \A i \in 1..Len(ends'), j \in 1..Len(failures) : ends'[i] # failures[j]
        BY <2>8, <4>1, <4>2
      <4>6. ~misled => EndsApart'
        BY <2>8, <3>2, <4>4, <4>5 DEF EndsApart, Once
      <4> QED
        BY <1>1, <1>8, <1>9, <1>11, <2>7, <3>2, <4>1, <4>3, <4>6 DEF EndsInv
    <3>3. CASE ends' = ends /\ failures' = Append(failures, generation)
      <4>1. /\ failures' \in Seq(Loads) /\ Len(failures') = Len(failures) + 1
            /\ \A i \in 1..Len(failures) : failures'[i] = failures[i]
            /\ failures'[Len(failures) + 1] = generation
        BY <1>0, <2>7, <3>3, AppendIs
      <4>2. \A i \in 1..Len(failures') : i \in 1..Len(failures) \/ i = Len(failures) + 1
        BY <2>7, <4>1
      <4>3. \A i \in 1..Len(failures') : failures'[i] <= generation
        BY <2>7, <2>10, <4>1, <4>2
      <4>4. ~misled => Once(failures')
        BY <1>0, <2>7, <2>8, <3>3, OnceMore
      <4>5. ~misled => \A i \in 1..Len(ends), j \in 1..Len(failures') : ends[i] # failures'[j]
        BY <2>8, <4>1, <4>2
      <4>6. ~misled => EndsApart'
        BY <2>8, <3>3, <4>4, <4>5 DEF EndsApart, Once
      <4> QED
        BY <1>1, <1>8, <1>9, <1>11, <2>7, <3>3, <4>1, <4>3, <4>6 DEF EndsInv
    <3> QED
      BY <2>1, <3>1, <3>2, <3>3
  <2> QED
    BY <1>2, <1>4, <1>6, <1>7, <2>5, <2>6, <2>11 DEF EngineInv, QueueInv
<1> QED
  BY <1>10, <1>11

LEMMA EngineIsSound == Spec => []EngineInv
<1>1. Init => EngineInv
  <2> SUFFICES ASSUME Init PROVE EngineInv
    OBVIOUS
  <2>1. TypeOK
    <3>1. 1 \in Loads /\ 1 \in 0..MaxLoads /\ 0 \in 0..MaxLoads /\ 0 \in 0..MaxReports
      BY EngineAssumption DEF Loads
    <3>2. mpv \in [file : 0..MaxLoads, stage : {"idle", "opening", "loaded", "playing"}, next : 0..MaxLoads]
      BY <3>1 DEF Init
    <3>3. /\ mpvEvents \in Seq([id : Ids, load : Loads, reason : Reasons \cup {"none"}])
          /\ channel \in Seq([gen : Loads, kind : Kinds, load : Loads]) /\ Len(channel) <= ChannelCap
      BY EngineAssumption DEF Init
    <3>4. {pending, pendingStarted, ended, failed, loading, closed, asked, misled} \subseteq BOOLEAN
      BY DEF Init
    <3> QED
      BY <3>1, <3>2, <3>3, <3>4 DEF Init, TypeOK, Stages
  <2>2. QueueInv
    BY DEF Init, QueueInv, MpvInv, TellsInOrder, EndIsLast, ReadIsOwn, StartIsAhead, IsRead
  <2>3. StartsInv /\ EndsInv
    BY DEF Init, StartsInv, StartsInOrder, EndsInv, EndsApart, Once, Over
  <2>4. NewsInv /\ StreamsInv
    <3>1. heard \in [as : Loads, load : Loads]
      BY EngineAssumption DEF Init, Loads
    <3> QED
      BY <3>1 DEF Init, NewsInv, StreamsInv
  <2> QED
    BY <2>1, <2>2, <2>3, <2>4 DEF EngineInv
<1>2. EngineInv /\ [Next]_vars => EngineInv'
  <2> SUFFICES ASSUME EngineInv, [Next]_vars PROVE EngineInv'
    OBVIOUS
  <2>1. CASE UNCHANGED vars
    <3>1. TypeOK' /\ QueueInv'
      BY <2>1 DEF EngineInv, vars, mpvVars, engineVars, sessionVars, historyVars, TypeOK, QueueInv, MpvInv,
         TellsInOrder, EndIsLast, ReadIsOwn, StartIsAhead, IsRead, Faithful
    <3>2. StartsInv' /\ EndsInv' /\ NewsInv' /\ StreamsInv'
      BY <2>1 DEF EngineInv, vars, mpvVars, engineVars, sessionVars, historyVars, StartsInv, StartsInOrder,
         EndsInv, EndsApart, Once, Over, NewsInv, Faithful, StreamsInv
    <3> QED
      BY <3>1, <3>2 DEF EngineInv
  <2> QED
    BY <2>1, MpvStep, EngineLoadStep, EngineRefusesStep, TickStep, SessionStep, PollPropertyStep, PollStartStep,
       PollLoadedStep, PollRestartStep, PollEndStep DEF Next, Poll
<1> QED
  BY <1>1, <1>2, PTL DEF Spec

\* What the engine sends, and what the session makes of it, is of the file it is
\* taken for, for any number of loads and whatever is told late: the end of the
\* file that is replaced never passes for the end of the new one.
THEOREM NewsOwn == Spec => []NewsIsOwn
<1>1. EngineInv => NewsIsOwn
  <2> SUFFICES ASSUME EngineInv PROVE NewsIsOwn
    OBVIOUS
  <2>1. DOMAIN channel = 1..Len(channel)
    BY DEF EngineInv, TypeOK
  <2> QED
    BY <2>1 DEF EngineInv, NewsInv, NewsIsOwn, EventsAreOwn, HeardIsCurrent
<1> QED
  BY <1>1, EngineIsSound, PTL

\* Each load is told to have started once per stage, and in order, and to have
\* ended or failed once at most; its stream is closed when it is replaced, or when
\* the session is closed.
THEOREM LoadsAccounted == Spec => []LoadsAreAccounted
<1>1. EngineInv => StartsOnce
  <2> SUFFICES ASSUME EngineInv PROVE StartsOnce
    OBVIOUS
  <2>1. DOMAIN starts = 1..Len(starts)
    BY DEF EngineInv, StartsInv
  <2> QED
    BY <2>1 DEF EngineInv, StartsInv, StartsInOrder, StartsOnce
<1>2. EngineInv => EndsOnce
  <2> SUFFICES ASSUME EngineInv, ~misled PROVE IsInjective(ends \o failures)
    BY DEF EndsOnce
  <2>1. /\ ends \in Seq(Loads) /\ failures \in Seq(Loads) /\ Once(ends) /\ Once(failures)
        /\ \A i \in 1..Len(ends), j \in 1..Len(failures) : ends[i] # failures[j]
    BY DEF EngineInv, EndsInv, EndsApart
  <2> DEFINE both == ends \o failures
             n == Len(ends)
             m == Len(failures)
  <2>2. /\ both \in Seq(Loads) /\ Len(both) = n + m /\ n \in Nat /\ m \in Nat
        /\ \A i \in 1..(n + m) : both[i] = IF i <= n THEN ends[i] ELSE failures[i - n]
    BY <2>1, ConcatProperties
  <2>3. DOMAIN both = 1..(n + m)
    BY <2>2
  <2>4. \A i \in 1..(n + m) : \/ i \in 1..n /\ both[i] = ends[i]
                              \/ i - n \in 1..m /\ both[i] = failures[i - n]
    BY <2>2
  <2>5. \A i, j \in 1..(n + m) : both[i] = both[j] => i = j
    <3> SUFFICES ASSUME NEW i \in 1..(n + m), NEW j \in 1..(n + m), both[i] = both[j] PROVE i = j
      OBVIOUS
    <3>1. CASE i \in 1..n /\ j \in 1..n
      BY <2>1, <2>2, <3>1 DEF Once
    <3>2. CASE i \in 1..n /\ j \notin 1..n
      BY <2>1, <2>4, <3>2
    <3>3. CASE i \notin 1..n /\ j \in 1..n
      BY <2>1, <2>4, <3>3
    <3>4. CASE i \notin 1..n /\ j \notin 1..n
      <4>1. i - n \in 1..m /\ j - n \in 1..m /\ failures[i - n] = failures[j - n]
        BY <2>4, <3>4
      <4>2. i - n = j - n
        BY <2>1, <4>1 DEF Once
      <4> QED
        BY <2>2, <4>2
    <3> QED
      BY <3>1, <3>2, <3>3, <3>4
  <2> HIDE DEF both, n, m
  <2>6. IsInjective(both)
    BY <2>3, <2>5 DEF IsInjective
  <2> QED
    BY <2>6 DEF both
<1>3. EngineInv => NoLeakedStream
  BY DEF EngineInv, TypeOK, StreamsInv, NoLeakedStream
<1>4. EngineInv => LoadsAreAccounted
  BY <1>1, <1>2, <1>3 DEF LoadsAreAccounted
<1> QED
  BY <1>4, EngineIsSound, PTL

=============================================================================
