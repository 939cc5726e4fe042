------------------------------ MODULE Workbench ------------------------------
(***************************************************************************)
(* The full-screen program (apps/tbridge): the panes and modes of App      *)
(* (packages/tui/src/app.ts) with its PaneManager, Sidebar, CommandBar and *)
(* CommandPalette, over the ExecutionEngine and its Sessions               *)
(* (packages/engine).                                                      *)
(*                                                                         *)
(* One action per key, timer and shell exit.  A session and the pane that  *)
(* shows it have one number, the value of _paneCounter when they were made. *)
(* What is on the screen, what is typed into a shell and what a palette    *)
(* query matches is left out; peers are in PeerNetwork.                    *)
(***************************************************************************)
EXTENDS Integers, Sequences, SequencesExt, FiniteSetsExt

CONSTANTS MaxSessions,      \* bound on the sessions created
          Cols, Rows,       \* sizes the screen may have
          MaxGrid,          \* bound on the panes the layout is checked for
          None

Session == 1 .. MaxSessions

ASSUME WorkbenchAssumption ==
    /\ MaxSessions \in Nat \ {0}
    /\ MaxGrid \in Nat \ {0}
    /\ Cols \subseteq Nat /\ Cols # {} /\ Rows \subseteq Nat /\ Rows # {}
    /\ None \notin Nat

VARIABLES
    running,            \* until stop()
    paneCounter,
    paneOrder,          \* panes, in order
    focusedId,
    lit,                \* the panes whose own focused flag is set
    tracked,            \* sessions in the engine's map
    status,             \* of each session: "active" or "exited"
    closing,            \* sessions whose close() waits for the shell
    entries,            \* sessions the sidebar lists
    selectedIndex,      \* of the sidebar, from 0
    sidebarVisible, cols, rows,
    palette,            \* is it visible?
    bar,                \* "hints", or what the input is for
    prefixMode, sidebarFocused

engineVars == <<tracked, status, closing>>
paneVars == <<paneCounter, paneOrder, focusedId, lit>>
sidebarVars == <<entries, selectedIndex>>
layoutVars == <<sidebarVisible, cols, rows>>
modeVars == <<palette, bar, prefixMode, sidebarFocused>>
vars == <<running, paneVars, engineVars, sidebarVars, layoutVars, modeVars>>

Panes == {paneOrder[i] : i \in 1 .. Len(paneOrder)}

TypeOK ==
    /\ running \in BOOLEAN
    /\ paneCounter \in 0 .. MaxSessions
    /\ Panes \subseteq Session
    /\ focusedId \in Session \cup {None}
    /\ lit \subseteq Session /\ tracked \subseteq Session /\ closing \subseteq Session
    /\ status \in [Session -> {"active", "exited"}]
    /\ selectedIndex \in 0 .. MaxSessions
    /\ sidebarVisible \in BOOLEAN /\ cols \in Cols /\ rows \in Rows
    /\ palette \in BOOLEAN
    /\ bar \in {"hints", "command", "rename", "connect"}
    /\ prefixMode \in BOOLEAN /\ sidebarFocused \in BOOLEAN

(* start() makes the first session, unless the shell cannot be started. *)
Init ==
    /\ running = TRUE
    /\ paneCounter \in {0, 1}
    /\ paneOrder = IF paneCounter = 1 THEN <<1>> ELSE <<>>
    /\ focusedId = IF paneCounter = 1 THEN 1 ELSE None
    /\ lit = Panes
    /\ tracked = Panes
    /\ status = [s \in Session |-> "active"]
    /\ closing = {}
    /\ entries = paneOrder
    /\ selectedIndex = 0
    /\ sidebarVisible = TRUE /\ cols \in Cols /\ rows \in Rows
    /\ palette = FALSE /\ bar = "hints"
    /\ prefixMode = FALSE /\ sidebarFocused = FALSE

-----------------------------------------------------------------------------
(* The sidebar.                                                            *)

(* setEntries: the selection stays within the list. *)
Clamped(n, i) == IF i >= n THEN (IF n = 0 THEN 0 ELSE n - 1) ELSE i

(* The sessions t in the order the engine's map has them: of creation. *)
InOrder(t) ==
    [i \in 1 .. Cardinality(t) |-> CHOOSE s \in t : Cardinality({x \in t : x < s}) = i - 1]

(* _updateSidebar with the sessions t in the engine and pane f focused. *)
UpdateSidebar(t, f) ==
    /\ entries' = InOrder(t)
    /\ selectedIndex' = IF f \in t THEN Cardinality({s \in t : s < f})
                                   ELSE Clamped(Cardinality(t), selectedIndex)

selectedId == IF selectedIndex < Len(entries) THEN entries[selectedIndex + 1] ELSE None

-----------------------------------------------------------------------------
(* Panes and sessions: what keys and commands do.                          *)

(* focusPane *)
Focus(p) == focusedId' = p /\ lit' = (lit \ {focusedId}) \cup {p}

(* _createLocalSession, createSession and createPane. *)
CreateSession ==
    /\ paneCounter < MaxSessions
    /\ paneCounter' = paneCounter + 1
    /\ tracked' = tracked \cup {paneCounter'}
    /\ paneOrder' = Append(paneOrder, paneCounter')
    /\ Focus(paneCounter')
    /\ UpdateSidebar(tracked', paneCounter')
    /\ UNCHANGED <<running, status, closing, layoutVars>>

(* The shell cannot be started: the constructor of Session throws. *)
CreateFails == UNCHANGED <<running, paneVars, engineVars, sidebarVars, layoutVars>>

(* removePane, of a pane that exists: it is in the order once. *)
RemovePane(p) ==
    /\ paneOrder' = RemoveAt(paneOrder, CHOOSE i \in 1 .. Len(paneOrder) : paneOrder[i] = p)
    /\ focusedId' = IF focusedId # p THEN focusedId
                    ELSE IF paneOrder' = <<>> THEN None ELSE paneOrder'[1]
    /\ lit' = (lit \ {p}) \cup (IF focusedId = p THEN {focusedId'} \ {None} ELSE {})

(* closeSession of the engine: an exited session goes at once, an active   *)
(* one is asked to exit and waited for.                                    *)
CloseSession(s) ==
    /\ closing' = IF status[s] = "active" THEN closing \cup {s} ELSE closing
    /\ tracked' = IF status[s] = "active" THEN tracked ELSE tracked \ {s}
    /\ UNCHANGED status

(* _closeCurrentPane, and "d" in the sidebar. *)
ClosePane(p) ==
    /\ CloseSession(p)
    /\ RemovePane(p)
    /\ UpdateSidebar(tracked', focusedId')
    /\ running' = (paneOrder' # <<>>)
    /\ UNCHANGED <<paneCounter, layoutVars>>

(* focusPane, after which keys and actions update the sidebar. *)
FocusPane(p) ==
    /\ Focus(p)
    /\ UpdateSidebar(tracked, p)
    /\ UNCHANGED <<running, paneCounter, paneOrder, engineVars, layoutVars>>

(* focusNext and focusPrev. *)
FocusNeighbour ==
    \E i, j \in 1 .. Len(paneOrder) :
        /\ paneOrder[i] = focusedId
        /\ j - 1 \in {i % Len(paneOrder), (i + Len(paneOrder) - 2) % Len(paneOrder)}
        /\ FocusPane(paneOrder[j])

ToggleSidebar ==
    /\ sidebarVisible' = ~sidebarVisible
    /\ UNCHANGED <<running, paneVars, engineVars, sidebarVars, cols, rows>>

(* _renameCurrentSession: the title is left out. *)
Rename ==
    /\ focusedId # None
    /\ UpdateSidebar(tracked, focusedId)
    /\ UNCHANGED <<running, paneVars, engineVars, layoutVars>>

Stop ==
    /\ running' = FALSE
    /\ UNCHANGED <<paneVars, engineVars, sidebarVars, layoutVars>>

(* What changes no state of this module: editing a query or a command,     *)
(* scroll, clear, share, connect; and kill and interrupt, upon which the   *)
(* shell exits later, if it does.                                          *)
Nothing == UNCHANGED <<running, paneVars, engineVars, sidebarVars, layoutVars>>

(* What palette, prefix keys and commands have in common. *)
Perform ==
    \/ CreateSession \/ CreateFails
    \/ focusedId # None /\ ClosePane(focusedId)
    \/ ToggleSidebar \/ Stop \/ Nothing

-----------------------------------------------------------------------------
(* Keys; _handleKey.                                                       *)

(* Ctrl+D, Ctrl+Q and Ctrl+X, and Ctrl+C outside a shell or pressed twice  *)
(* within 1200 ms.                                                         *)
QuitKey == running /\ Stop /\ UNCHANGED modeVars

(* A first Ctrl+C goes to the shell; after Ctrl+B it is lost. *)
CtrlC ==
    /\ running
    /\ ~palette /\ bar = "hints" /\ ~sidebarFocused /\ focusedId # None
    /\ prefixMode' = FALSE
    /\ Nothing
    /\ UNCHANGED <<palette, bar, sidebarFocused>>

(* The palette takes every key: escape, and return on an action, which may *)
(* open the command bar.  Other keys edit the query.                       *)
PaletteEscape ==
    /\ running /\ palette
    /\ palette' = FALSE
    /\ Nothing
    /\ UNCHANGED <<bar, prefixMode, sidebarFocused>>

PaletteExecute ==
    /\ running /\ palette
    /\ palette' = FALSE
    /\ \/ (Perform \/ FocusNeighbour) /\ UNCHANGED bar
       \/ Nothing /\ bar' \in {"rename", "connect"}
    /\ UNCHANGED <<prefixMode, sidebarFocused>>

(* The command bar in input mode: return, on a command or on nothing, and  *)
(* escape.  It takes printable keys, with Ctrl or without, but lets tab,   *)
(* up, down and delete through.                                            *)
BarReturn ==
    /\ running /\ ~palette /\ bar # "hints"
    /\ bar' = "hints"
    /\ \/ bar = "command" /\ Perform
       \/ bar \in {"command", "rename"} /\ Rename
       \/ Nothing
    /\ UNCHANGED <<palette, prefixMode, sidebarFocused>>

Hints == running /\ ~palette /\ bar = "hints"

CtrlP ==
    /\ Hints
    /\ palette' = TRUE
    /\ Nothing
    /\ UNCHANGED <<bar, prefixMode, sidebarFocused>>

CtrlB ==
    /\ Hints
    /\ prefixMode' = TRUE
    /\ Nothing
    /\ UNCHANGED <<palette, bar, sidebarFocused>>

(* _handlePrefixKey.  No key that the command bar lets through has a       *)
(* meaning here.                                                           *)
PrefixKey ==
    /\ running /\ ~palette
    /\ prefixMode
    /\ prefixMode' = FALSE
    /\ \/ bar = "hints" /\ (Perform \/ FocusNeighbour)
       \/ bar = "hints" /\ \E p \in Panes : FocusPane(p)
       \/ Nothing
    /\ UNCHANGED <<palette, bar, sidebarFocused>>

Slash ==
    /\ Hints /\ ~prefixMode
    /\ bar' = "command"
    /\ Nothing
    /\ UNCHANGED <<palette, prefixMode, sidebarFocused>>

Tab ==
    /\ running /\ ~palette /\ ~prefixMode
    /\ sidebarFocused' = ~sidebarFocused
    /\ Nothing
    /\ UNCHANGED <<palette, bar, prefixMode>>

SidebarMove ==
    /\ running /\ ~palette /\ ~prefixMode /\ sidebarFocused
    /\ entries # <<>>
    /\ \/ selectedIndex' = (selectedIndex + 1) % Len(entries)
       \/ selectedIndex' = (selectedIndex + Len(entries) - 1) % Len(entries)
    /\ UNCHANGED <<running, paneVars, engineVars, entries, layoutVars, modeVars>>

(* Return in the sidebar: the selected session's pane, if it has one. *)
SidebarReturn ==
    /\ Hints /\ ~prefixMode /\ sidebarFocused
    /\ IF selectedId \in Panes THEN Focus(selectedId) ELSE UNCHANGED <<focusedId, lit>>
    /\ sidebarFocused' = FALSE
    /\ UNCHANGED <<running, paneCounter, paneOrder, engineVars, sidebarVars, layoutVars, palette,
                   bar, prefixMode>>

(* Mutant: the pane stays. *)
SidebarDeleteSession ==
    /\ running /\ ~palette /\ ~prefixMode /\ sidebarFocused
    /\ selectedId \in Panes
    /\ CloseSession(selectedId)
    /\ UpdateSidebar(tracked', focusedId)
    /\ UNCHANGED <<running, paneVars, layoutVars, modeVars>>

(* "d" or delete in the sidebar; the entry may be of a session that has    *)
(* lost its pane.                                                          *)
SidebarDelete ==
    /\ running /\ ~palette /\ ~prefixMode /\ sidebarFocused
    /\ selectedId # None
    /\ \/ selectedId \in Panes /\ ClosePane(selectedId)
       \/ /\ selectedId \notin Panes
          /\ UpdateSidebar(tracked, focusedId)
          /\ running' = (paneOrder # <<>>)
          /\ UNCHANGED <<paneVars, engineVars, layoutVars>>
    /\ UNCHANGED modeVars

(* Escape in the sidebar; any other key goes to the focused shell. *)
OtherKey ==
    /\ running /\ ~palette /\ ~prefixMode
    /\ sidebarFocused' = FALSE
    /\ Nothing
    /\ UNCHANGED <<palette, bar, prefixMode>>

-----------------------------------------------------------------------------
(* Events.                                                                 *)

(* onExit.  The engine's "exit" event updates the sidebar first; close()   *)
(* returns and the session is deleted afterwards.                          *)
ShellExits(s) ==
    /\ running
    /\ s <= paneCounter /\ status[s] = "active"
    /\ status' = [status EXCEPT ![s] = "exited"]
    /\ UpdateSidebar(tracked, focusedId)
    /\ tracked' = IF s \in closing THEN tracked \ {s} ELSE tracked
    /\ closing' = closing \ {s}
    /\ UNCHANGED <<running, paneVars, layoutVars, modeVars>>

(* Mutant: after SIGTERM close() goes on waiting for the exit. *)
CloseKeepsWaiting(s) ==
    /\ running /\ s \in closing /\ FALSE
    /\ UNCHANGED vars

(* The shell has not exited within two seconds: SIGTERM, which it may      *)
(* ignore, and close() returns.                                            *)
CloseTimesOut(s) ==
    /\ running
    /\ s \in closing
    /\ closing' = closing \ {s}
    /\ tracked' = tracked \ {s}
    /\ UNCHANGED <<running, status, paneVars, sidebarVars, layoutVars, modeVars>>

Resize ==
    /\ running
    /\ cols' \in Cols /\ rows' \in Rows
    /\ UNCHANGED <<running, paneVars, engineVars, sidebarVars, sidebarVisible, modeVars>>

Next ==
    \/ QuitKey \/ CtrlC
    \/ PaletteEscape \/ PaletteExecute \/ BarReturn
    \/ CtrlP \/ CtrlB \/ PrefixKey \/ Slash \/ Tab
    \/ SidebarMove \/ SidebarReturn \/ SidebarDelete \/ OtherKey
    \/ \E s \in Session : ShellExits(s) \/ CloseTimesOut(s)
    \/ Resize

Spec == Init /\ [][Next]_vars

(* Fairness: the timer of close() fires. *)
FairSpec == Spec /\ \A s \in Session : WF_vars(CloseTimesOut(s))

-----------------------------------------------------------------------------

(* The region of the panes: right of the sidebar (18 columns), below the   *)
(* status bar and above the command bar.                                   *)
Region ==
    LET x == IF sidebarVisible THEN 19 ELSE 1
    IN  [x |-> x, y |-> 2, width |-> cols - x + 1, height |-> rows - 3]

Grid == INSTANCE PaneGrid

(* However many panes there are and however the screen is resized, panes   *)
(* that fit do not overlap, leave the region or vanish, and a full grid    *)
(* covers the region.                                                      *)
GridTiles == \A n \in 1 .. MaxGrid : Grid!Tiles(Region, n)

(* Keys go to the pane that is shown as focused: while there are panes,    *)
(* one is focused, it exists, and no other has its focused flag set.       *)
FocusIsShown ==
    /\ focusedId = None <=> paneOrder = <<>>
    /\ lit = {focusedId} \ {None}
    /\ lit \subseteq Panes

(* A pane never shows a session that the engine has dropped, in whichever  *)
(* order panes are closed and shells exit.                                 *)
PanesAreTracked == Panes \subseteq tracked \ closing

(* The sidebar's selection is one of its entries, though the list shrinks  *)
(* at any time.                                                            *)
SelectionInRange == entries # <<>> => selectedIndex < Len(entries)

(* Closing the last pane, by whatever command, stops the program.          *)
LastPaneStops == running /\ paneCounter > 0 => paneOrder # <<>>

(* App, PaneManager, Sidebar and engine agree with one another whichever   *)
(* keys, exits and timers come between.                                    *)
Consistent ==
    TypeOK /\ FocusIsShown /\ PanesAreTracked /\ SelectionInRange /\ LastPaneStops

(* A session that is being closed leaves the engine, whether or not its    *)
(* shell reacts.                                                           *)
ClosingEnds == \A s \in Session : s \in closing ~> s \notin tracked \/ ~running

=============================================================================
