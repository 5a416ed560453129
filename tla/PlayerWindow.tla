----------------------------- MODULE PlayerWindow -----------------------------
(***************************************************************************)
(* The player's window (apps/desktop/fltkplayer): its controls and panels, *)
(* the keyboard, the mouse, and what the program shows in it. All of it    *)
(* runs on the UI thread; what interleaves are the events.                 *)
(*                                                                         *)
(* Left out: where things are drawn, the volume, and what a callback asks  *)
(* of the player beyond what it changes in the window at once.             *)
(***************************************************************************)
EXTENDS Integers, FiniteSets

CONSTANTS
  ListRows,    \* episodeRows: episodes of the list that show at once
  MaxEpisodes  \* bound: episodes of an anime

ASSUME WindowAssumption == ListRows \in Nat \ {0} /\ MaxEpisodes \in Nat

VARIABLES
  display,   \* State: mode, episode and focus, and whether the star and 跳過片頭 can show
  count,     \* episodes there are
  visible,   \* whether the controls show
  panels,    \* which of menuPinned, menuHover, episodesOpen and speedOpen hold
  list,      \* the open list's episodeStart and episodeCursor
  pressed,   \* pressedKeys
  kept,      \* history: the pressed keys that an UNFOCUS which carried a key has kept
  down,      \* keys that are held down
  grips,     \* which of scrubbing and dragging hold
  button,    \* whether the mouse button is down
  showing,   \* whether the window shows
  focused    \* whether the keyboard is the window's

windowVars == <<display, count, visible, panels, list, pressed, kept, down, grips, button, showing, focused>>

\* Playing, Paused and Loading: "playing" and "paused" have Playing without
\* Loading, "stopped" has neither.
Modes == {"stopped", "loading", "playing", "paused"}

\* tabFocusOrder, of the buttons that only call back one, "button".
TabOrder == <<"menu", "follow", "episodes", "progress", "skip", "button", "speed">>
Controls == {TabOrder[i] : i \in DOMAIN TabOrder}

Closed == [start |-> 0, cursor |-> 0]

WindowInit ==
  /\ display = [mode |-> "stopped", episode |-> 0, focus |-> "progress", follow |-> FALSE, opening |-> FALSE]
  /\ count = 0 /\ visible = TRUE /\ panels = {} /\ list = Closed
  /\ pressed = {} /\ kept = {} /\ down = {} /\ grips = {} /\ button = FALSE
  /\ showing = FALSE /\ focused = FALSE

-----------------------------------------------------------------------------
(* What shows.                                                             *)

SkipShown(s) == s.opening /\ s.mode \in {"playing", "paused"}

Focusable(s, control) == /\ control = "follow" => s.follow
                         /\ control = "skip" => SkipShown(s)

MenuVisible == panels \cap {"pinned", "hover"} # {}
PanelOpen == MenuVisible \/ panels \cap {"episodes", "speed"} # {}

\* shouldHideControls, once the mouse and the keys rested for three seconds.
MayHide == /\ visible /\ display.mode = "playing" /\ grips = {}
           /\ panels \cap {"pinned", "episodes", "speed"} = {}

HideControls ==
  /\ showing /\ MayHide
  /\ visible' = FALSE /\ panels' = panels \ {"hover"}
  /\ UNCHANGED <<display, count, list, pressed, kept, down, grips, button, showing, focused>>

\* clampEpisodeWindow, and the list opened on the playing episode.
Clamped(start) == IF start < 0 \/ count <= ListRows THEN 0 ELSE IF start > count - ListRows THEN count - ListRows ELSE start
OpenedList == [start |-> Clamped(display.episode - ListRows \div 2 + 1), cursor |-> display.episode]

\* Fault: controls hidden while it played stay hidden when the playback stops.
ShowsNew(s) == s.mode # display.mode /\ s.mode \in {"playing", "loading"}

\* SetState shows the controls again when the playback starts, stops, loads or pauses.
ShowsControls(s) == s.mode # display.mode /\ (s.mode # "stopped" \/ display.mode = "playing")

Adjusted(s) == [s EXCEPT !.focus = IF Focusable(s, s.focus) THEN s.focus ELSE "progress",
                        !.episode = IF s.episode < count THEN s.episode ELSE 0]

\* The panels that are open afterwards; a list that opens shows the playing episode.
\* What a closed list held is forgotten: opening it sets it anew.
OpenPanels(after) ==
  /\ panels' = after
  /\ list' = IF "episodes" \notin after THEN Closed ELSE IF "episodes" \notin panels THEN OpenedList ELSE list

SetState(s) ==
  /\ display' = Adjusted(s)
  /\ visible' = (visible \/ ShowsControls(s))

-----------------------------------------------------------------------------
(* The program.                                                            *)

\* SetEpisodes with no episodes closes the list.
ListAfter == panels \ {"episodes"}

\* play: the list is emptied, and the new show loads.
PlayStarts ==
  /\ showing' = TRUE /\ focused' = TRUE
  /\ count' = 0 /\ OpenPanels(ListAfter)
  /\ display' = [mode |-> "loading", episode |-> 0, focus |-> "progress", follow |-> FALSE, opening |-> FALSE]
  /\ visible' = (visible \/ display.mode # "loading")
  /\ UNCHANGED <<pressed, kept, down, grips, button>>

\* SetEpisodes with the episodes of the show, once they are read.
EpisodesArrive ==
  /\ showing /\ count = 0
  /\ \E n \in 1..MaxEpisodes : \E selected \in 0..(n - 1) :
       count' = n /\ display' = [display EXCEPT !.episode = selected]
  /\ UNCHANGED <<visible, panels, list, pressed, kept, down, grips, button, showing, focused>>

\* Any news of the player, the follow star, the opening or the episode: an
\* episode that is switched to loads, and has no opening yet.
NewsArrives ==
  /\ showing
  /\ \/ \E mode \in Modes : SetState([display EXCEPT !.mode = mode])
     \/ \E f \in BOOLEAN : SetState([display EXCEPT !.follow = f])
     \/ \E o \in BOOLEAN : SetState([display EXCEPT !.opening = o])
     \/ \E e \in 0..(count - 1) : SetState([display EXCEPT !.mode = "loading", !.episode = e, !.opening = FALSE])
  /\ UNCHANGED <<count, panels, list, pressed, kept, down, grips, button, showing, focused>>

\* stop, of leaving: the window hides, and forgets what it played and what is held.
HideWindow ==
  /\ showing
  /\ showing' = FALSE /\ focused' = FALSE /\ pressed' = {} /\ kept' = {}
  /\ SetState([mode |-> "stopped", episode |-> 0, focus |-> "progress", follow |-> FALSE, opening |-> FALSE])
  /\ UNCHANGED <<count, panels, list, down, grips, button>>

-----------------------------------------------------------------------------
(* The keyboard.                                                           *)

\* isOneShotKey, without k, m, f and /: they only call the program, as s does
\* while a panel is open.
OneShot == {"tab", "esc", "enter", "space", "s"}

\* Keys come to the window while it has the keyboard; another window sees the rest.
\* handleUnfocus forgets what is held only when the UNFOCUS carries no key: one that
\* does moves the keyboard while a shortcut is held.
LoseKeyboard ==
  /\ showing /\ focused' = FALSE
  /\ pressed' \in {{}, pressed} /\ kept' = pressed'
  /\ UNCHANGED <<display, count, visible, panels, list, down, grips, button, showing>>

GainKeyboard ==
  /\ showing /\ ~focused /\ focused' = TRUE
  /\ UNCHANGED <<display, count, visible, panels, list, pressed, kept, down, grips, button, showing>>

KeyUp ==
  /\ \E k \in down :
       /\ down' = down \ {k}
       /\ pressed' = IF focused THEN pressed \ {k} ELSE pressed
       /\ kept' = kept \cap pressed'
  /\ UNCHANGED <<display, count, visible, panels, list, grips, button, showing, focused>>

\* 跳過片頭 leaves the opening at once.
Skipped == IF SkipShown(display) THEN [display EXCEPT !.opening = FALSE, !.focus = IF @ = "skip" THEN "progress" ELSE @] ELSE display

\* selectEpisode: the program switches to it, unless it is the one that plays.
Select(e) ==
  IF e = display.episode /\ display.mode \in {"playing", "paused"} THEN display
  ELSE Adjusted([display EXCEPT !.mode = "loading", !.episode = e, !.opening = FALSE])

\* activate: the control of a panel opens it or closes it, one list at a time.
Activated(control) ==
  IF control = "menu"
  THEN IF "pinned" \in panels THEN panels \ {"pinned", "hover"} ELSE panels \cup {"pinned", "hover"}
  ELSE IF control = "speed" /\ "speed" \notin panels THEN (panels \ {"episodes"}) \cup {"speed"}
  ELSE IF control = "episodes" /\ "episodes" \notin panels /\ count > 0
       THEN (panels \ {"speed"}) \cup {"episodes"}
  ELSE panels \ {control}

Activate(control) == OpenPanels(Activated(control)) /\ display' = IF control = "skip" THEN Skipped ELSE display

\* confirmOpenPanel, of the speed list, the episode list or the pinned menu.
Confirms == panels \cap {"speed", "episodes", "pinned"} # {}
Confirm ==
  IF "speed" \in panels THEN OpenPanels(panels \ {"speed"}) /\ UNCHANGED display
  ELSE IF "episodes" \in panels THEN OpenPanels(panels \ {"episodes"}) /\ display' = Select(list.cursor)
  ELSE OpenPanels(panels \ {"pinned", "hover"}) /\ UNCHANGED display

\* Esc closes one panel; with none it asks the program to leave.
Escaped ==
  IF "speed" \in panels THEN panels \ {"speed"}
  ELSE IF "episodes" \in panels THEN panels \ {"episodes"}
  ELSE panels \ {"pinned", "hover"}

\* nextTabFocus, past a control that does not show, to the end of the ring at most.
Neighbour(i, step) == IF i + step \in DOMAIN TabOrder THEN i + step ELSE i
NextFocus(step) ==
  LET i == CHOOSE i \in DOMAIN TabOrder : TabOrder[i] = display.focus
      j == Neighbour(i, step)
  IN TabOrder[IF Focusable(display, TabOrder[j]) THEN j ELSE Neighbour(j, step)]

\* handleKey, of a key that is not held already. A search or leaving is asked
\* of the program, which hides the window later.
Act(k) ==
  \/ k = "tab" /\ OpenPanels(panels \ {"speed"}) /\ \E step \in {-1, 1} : display' = [display EXCEPT !.focus = NextFocus(step)]
  \/ k = "esc" /\ OpenPanels(Escaped) /\ UNCHANGED display
  \/ k \in {"enter", "space"} /\ Confirms /\ Confirm
  \/ k = "enter" /\ ~Confirms /\ Activate(display.focus)
  \/ k = "s" /\ ~PanelOpen /\ display' = Skipped /\ UNCHANGED <<panels, list>>
  \/ /\ (k = "space" /\ ~Confirms) \/ (k = "s" /\ PanelOpen)
     /\ UNCHANGED <<display, panels, list>>

\* handleKeyEvent of a one-shot key: a key held down comes again and again, and acts once.
KeyDown ==
  /\ focused /\ visible' = TRUE
  /\ \E k \in IF down = {} THEN OneShot ELSE down :
       /\ down' = {k} /\ pressed' = pressed \cup {k}
       /\ IF k \in pressed THEN UNCHANGED <<display, panels, list>> ELSE Act(k)
  /\ UNCHANGED <<count, kept, grips, button, showing, focused>>

\* The arrows in the episode list: the cursor, and the rows that show with it.
Arrow ==
  /\ focused /\ visible' = TRUE /\ panels \cap {"speed", "episodes"} = {"episodes"}
  /\ \E step \in {-1, 1} :
       LET c == IF list.cursor + step \in 0..(count - 1) THEN list.cursor + step ELSE list.cursor
       IN list' = [cursor |-> c, start |-> IF c < list.start THEN c ELSE IF c >= list.start + ListRows THEN c - (ListRows - 1) ELSE list.start]
  /\ UNCHANGED <<display, count, panels, pressed, kept, down, grips, button, showing, focused>>

-----------------------------------------------------------------------------
(* The mouse.                                                              *)

\* showAt: the menu shows at the left edge, and while the mouse is over it.
Hovered == {panels \ {"hover"}, panels \cup {"hover"}}

Move ==
  /\ showing /\ visible' = TRUE
  /\ \E p \in Hovered : OpenPanels(p)
  /\ UNCHANGED <<display, count, pressed, kept, down, grips, button, showing, focused>>

Leave ==
  /\ showing /\ OpenPanels(panels \ {"hover"})
  /\ UNCHANGED <<display, count, visible, pressed, kept, down, grips, button, showing, focused>>

\* A click on a row of the list: the list closes before the switch.
RowsShown == {e \in 0..(count - 1) : list.start <= e /\ e < list.start + ListRows}
PushRow == /\ "episodes" \in panels /\ \E e \in RowsShown : display' = Select(e)
           /\ OpenPanels(panels \ {"episodes", "speed"}) /\ UNCHANGED grips

\* A row of the menu, of the speed list, or beside every control.
PushMenu == MenuVisible /\ OpenPanels(panels \ {"pinned", "hover"}) /\ UNCHANGED <<display, grips>>
PushSpeed == "speed" \in panels /\ OpenPanels(panels \ {"speed"}) /\ UNCHANGED <<display, grips>>
PushNothing == OpenPanels(panels \ {"speed", "episodes"}) /\ UNCHANGED <<display, grips>>

\* The volume and the progress bar are held until the button is released.
Grip(part) == /\ grips' = grips \cup {part} /\ OpenPanels(panels \ {"speed"})
              /\ display' = IF part = "scrubbing" THEN [display EXCEPT !.focus = "progress"] ELSE display

PushControl ==
  \E control \in Controls \ {"progress"} :
    /\ Focusable(display, control) /\ UNCHANGED grips
    /\ LET after == IF control = "speed" THEN Activated(control) ELSE Activated(control) \ {"speed"}
       IN OpenPanels(after)
    /\ display' = IF control = "skip" THEN Skipped ELSE display

Push ==
  /\ showing /\ ~button /\ button' = TRUE /\ visible' = TRUE
  /\ PushRow \/ PushMenu \/ PushSpeed \/ PushNothing \/ PushControl \/ \E part \in {"scrubbing", "dragging"} : Grip(part)
  /\ UNCHANGED <<count, pressed, kept, down, showing, focused>>

\* What was gripped is let go, if the window sees the release: of both, the progress bar first.
Release ==
  /\ button /\ button' = FALSE
  /\ grips' = IF ~showing THEN grips ELSE IF "scrubbing" \in grips THEN grips \ {"scrubbing"} ELSE {}
  /\ UNCHANGED <<display, count, visible, panels, list, pressed, kept, down, showing, focused>>

\* The wheel and the scroll bar: other rows, the cursor stays.
Scroll ==
  /\ showing /\ "episodes" \in panels
  /\ \E start \in -1..count : list' = [list EXCEPT !.start = Clamped(start)]
  /\ UNCHANGED <<display, count, visible, panels, pressed, kept, down, grips, button, showing, focused>>

WindowNext ==
  \/ HideControls \/ PlayStarts \/ EpisodesArrive \/ NewsArrives \/ HideWindow
  \/ LoseKeyboard \/ GainKeyboard \/ KeyUp \/ KeyDown \/ Arrow
  \/ Move \/ Leave \/ Push \/ Release \/ Scroll

WindowSpec == WindowInit /\ [][WindowNext]_windowVars

-----------------------------------------------------------------------------
(* What the viewer can rely on.                                            *)

\* The controls hide only over a picture that runs: any stop, pause or load, and
\* any panel, shows them.
HiddenIsPlaying == ~visible => display.mode = "playing" /\ ~PanelOpen

\* The focus is on a control that shows, also after it went away under it.
FocusShows == Focusable(display, display.focus)

\* One list is open at a time, and an open list shows rows there are, with its
\* cursor on an episode there is, although the episodes change under it.
ListShowsRows ==
  /\ ~({"episodes", "speed"} \subseteq panels)
  /\ "episodes" \in panels => list.cursor < count /\ RowsShown # {}

\* A key that acted is one that is held: none stays dead because its release went to
\* another window, but one that was held when the keyboard moved with a key.
NoDeadKey == focused => pressed \subseteq down \cup kept

\* The window never gets into a state the viewer cannot leave with it
\* (player_windows.go), whatever the order of events, news and callbacks.
WindowIsUsable == HiddenIsPlaying /\ FocusShows /\ ListShowsRows /\ NoDeadKey
=============================================================================
