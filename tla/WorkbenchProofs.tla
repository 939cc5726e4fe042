--------------------------- MODULE WorkbenchProofs ---------------------------
(***************************************************************************)
(* App, PaneManager, Sidebar and engine agree with one another (Consistent *)
(* of Workbench) for every number of sessions and every size of screen;    *)
(* and panes tile their region (GridTiles) wherever they fit.              *)
(*                                                                         *)
(* What makes Consistent inductive: a pane is in the order once and has    *)
(* the number of a session that was created, so that removing it empties   *)
(* the order exactly when it was the last, and a new session is neither    *)
(* shown nor being closed; and the length of the sidebar's list, which the *)
(* selection is compared with.                                             *)
(***************************************************************************)
EXTENDS Workbench, FiniteSetTheorems, WellFoundedInduction, TLAPS

(* No value occurs twice in q. *)
NoRepeats(q) == \A i, j \in 1 .. Len(q) : q[i] = q[j] => i = j

(* Created sessions, the panes that show them, and the focus. *)
PaneInv ==
    /\ paneCounter \in 0 .. MaxSessions
    /\ paneOrder \in Seq(1 .. paneCounter)
    /\ NoRepeats(paneOrder)
    /\ focusedId \in Session \cup {None}
    /\ tracked \subseteq 1 .. paneCounter
    /\ closing \subseteq 1 .. paneCounter
    /\ status \in [Session -> {"active", "exited"}]
    /\ FocusIsShown
    /\ PanesAreTracked

(* The sidebar's list and its selection. *)
ListInv ==
    /\ Len(entries) \in 0 .. MaxSessions
    /\ entries # <<>> => Len(entries) > 0
    /\ selectedIndex \in 0 .. MaxSessions
    /\ SelectionInRange

(* Whether the program runs, and the layout. *)
FrameInv ==
    /\ running \in BOOLEAN
    /\ sidebarVisible \in BOOLEAN
    /\ cols \in Cols
    /\ rows \in Rows

(* What keys are for. *)
ModeInv ==
    /\ palette \in BOOLEAN
    /\ bar \in {"hints", "command", "rename", "connect"}
    /\ prefixMode \in BOOLEAN
    /\ sidebarFocused \in BOOLEAN

(* Everything but the modes. *)
Inner == PaneInv /\ ListInv /\ FrameInv /\ LastPaneStops

(* The inductive invariant. *)
IInv == Inner /\ ModeInv

(***************************************************************************)
(* The order of the panes.                                                 *)
(***************************************************************************)

(* r is q without the value at k. *)
Without(r, q, k, S) ==
    /\ r \in Seq(S)
    /\ NoRepeats(r)
    /\ {r[i] : i \in 1 .. Len(r)} = {q[i] : i \in 1 .. Len(q)} \ {q[k]}

(* removePane takes the pane it finds and nothing else.                    *)
LEMMA RemoveOne ==
    ASSUME NEW S, NEW q, q \in Seq(S), NoRepeats(q), NEW k, k \in 1 .. Len(q)
    PROVE  Without(RemoveAt(q, k), q, k, S)
<1> DEFINE r == RemoveAt(q, k)
<1> DEFINE u == SubSeq(q, 1, k - 1)
           v == SubSeq(q, k + 1, Len(q))
<1>1. Len(q) \in Nat /\ k - 1 \in Nat /\ Len(q) - k \in Nat
    OBVIOUS
<1>2. /\ u \in Seq(S) /\ Len(u) = k - 1
      /\ \A i \in 1 .. k - 1 : u[i] = q[i]
    OBVIOUS
<1>3. /\ v \in Seq(S) /\ Len(v) = Len(q) - k
      /\ \A i \in 1 .. Len(q) - k : v[i] = q[k + i]
    OBVIOUS
<1>0. r = u \o v
    BY DEF RemoveAt
<1> HIDE DEF u, v, r
<1>4. r \in Seq(S) /\ Len(r) = Len(q) - 1
    BY <1>1, <1>2, <1>3, <1>0
<1>5. \A i \in 1 .. Len(q) - 1 : i < k => r[i] = q[i]
    <2> SUFFICES ASSUME NEW i \in 1 .. Len(q) - 1, i < k  PROVE r[i] = q[i]
        OBVIOUS
    <2>1. i \in 1 .. Len(u) /\ i \in 1 .. k - 1
        BY <1>1, <1>2
    <2>2. r[i] = u[i]
        BY <1>2, <1>3, <1>0, <2>1
    <2> QED  BY <1>2, <2>1, <2>2
<1>6. \A i \in 1 .. Len(q) - 1 : i >= k => r[i] = q[i + 1]
    <2> SUFFICES ASSUME NEW i \in 1 .. Len(q) - 1, i >= k  PROVE r[i] = q[i + 1]
        OBVIOUS
    <2>1. i - Len(u) \in 1 .. Len(v) /\ k + (i - Len(u)) = i + 1
        BY <1>1, <1>2, <1>3
    <2>2. r[i] = v[i - Len(u)]
        BY <1>1, <1>2, <1>3, <1>0, <2>1
    <2> QED  BY <1>3, <2>1, <2>2
<1>7. NoRepeats(r)
    BY <1>4, <1>5, <1>6 DEF NoRepeats
<1>8. ASSUME NEW i \in 1 .. Len(r)
      PROVE  r[i] \in {q[j] : j \in 1 .. Len(q)} \ {q[k]}
    <2>1. CASE i < k
        BY <1>4, <1>5, <2>1 DEF NoRepeats
    <2>2. CASE i >= k
        BY <1>4, <1>6, <2>2 DEF NoRepeats
    <2> QED  BY <1>4, <2>1, <2>2
<1>9. ASSUME NEW j \in 1 .. Len(q), q[j] # q[k]
      PROVE  q[j] \in {r[i] : i \in 1 .. Len(r)}
    <2>1. CASE j < k
        <3>1. j \in 1 .. Len(r) /\ r[j] = q[j]
            BY <1>4, <1>5, <2>1
        <3> QED  BY <3>1
    <2>2. CASE j > k
        <3>1. j - 1 \in 1 .. Len(r) /\ r[j - 1] = q[j]
            BY <1>4, <1>6, <2>2
        <3> QED  BY <3>1
    <2> QED  BY <1>1, <1>9, <2>1, <2>2
<1>10. {r[i] : i \in 1 .. Len(r)} = {q[i] : i \in 1 .. Len(q)} \ {q[k]}
    BY <1>8, <1>9
<1> QED  BY <1>4, <1>7, <1>10 DEF Without, r

(* A pane is a session that was created.                                   *)
LEMMA PaneFacts ==
    ASSUME PaneInv
    PROVE  /\ Panes \subseteq 1 .. paneCounter
           /\ 1 .. paneCounter \subseteq Session
           /\ None \notin Session
<1>1. Panes \subseteq 1 .. paneCounter
    BY DEF PaneInv, Panes
<1>2. 1 .. paneCounter \subseteq Session /\ None \notin Session
    BY WorkbenchAssumption DEF PaneInv, Session
<1> QED  BY <1>1, <1>2

(***************************************************************************)
(* The sidebar's list.                                                     *)
(***************************************************************************)

(* _updateSidebar leaves a selection within the list, whichever pane has   *)
(* the focus.                                                              *)
LEMMA UpdateKeepsList ==
    ASSUME NEW t, t \subseteq Session, NEW f, selectedIndex \in 0 .. MaxSessions,
           UpdateSidebar(t, f)
    PROVE  ListInv'
<1> DEFINE n == Cardinality(t)
           m == Cardinality({s \in t : s < f})
<1>1. IsFiniteSet(Session) /\ Cardinality(Session) = MaxSessions
    BY FS_Interval, WorkbenchAssumption DEF Session
<1>2. IsFiniteSet(t) /\ n \in 0 .. MaxSessions
    <2>1. IsFiniteSet(t) /\ n <= Cardinality(Session)
        BY <1>1, FS_Subset
    <2> QED  BY <1>1, <2>1, FS_CardinalityType
<1>3. f \in t => m \in 0 .. n - 1
    <2> SUFFICES ASSUME f \in t  PROVE m \in 0 .. n - 1
        OBVIOUS
    <2> DEFINE low == {s \in t : s < f}
    <2>1. f \notin low
        BY WorkbenchAssumption DEF Session
    <2>2. low \in SUBSET t /\ low # t
        BY <2>1
    <2>3. IsFiniteSet(low) /\ Cardinality(low) <= n /\ n # Cardinality(low)
        BY <1>2, <2>2, FS_Subset
    <2>4. Cardinality(low) \in Nat
        BY <2>3, FS_CardinalityType
    <2> QED  BY <1>2, <2>3, <2>4
<1>4. Len(entries') = n /\ (entries' # <<>> => n > 0)
    <2> DEFINE e(i) == CHOOSE s \in t : Cardinality({x \in t : x < s}) = i - 1
               T == {e(i) : i \in 1 .. n}
    <2>1. entries' = [i \in 1 .. n |-> e(i)]
        BY DEF UpdateSidebar, InOrder
    <2> HIDE DEF e, n
    <2>2. entries' \in [1 .. n -> T] /\ n \in Nat
        BY <1>2, <2>1
    <2> HIDE DEF T
    <2>3. entries' \in Seq(T) /\ Len(entries') = n
        BY <2>2
    <2> QED  BY <2>2, <2>3
<1>5. selectedIndex' = IF f \in t THEN m ELSE Clamped(n, selectedIndex)
    BY DEF UpdateSidebar
<1> HIDE DEF n, m
<1>6. ASSUME n \in 0 .. MaxSessions, MaxSessions \in Nat, selectedIndex \in 0 .. MaxSessions
      PROVE  /\ Clamped(n, selectedIndex) \in 0 .. MaxSessions
             /\ n > 0 => Clamped(n, selectedIndex) < n
    <2>1. CASE selectedIndex >= n /\ n = 0
        BY <1>6, <2>1 DEF Clamped
    <2>2. CASE selectedIndex >= n /\ n # 0
        <3>1. Clamped(n, selectedIndex) = n - 1
            BY <2>2 DEF Clamped
        <3> QED  BY <1>6, <2>2, <3>1
    <2>3. CASE ~(selectedIndex >= n)
        <3>1. Clamped(n, selectedIndex) = selectedIndex
            BY <2>3 DEF Clamped
        <3> QED  BY <1>6, <2>3, <3>1
    <2> QED  BY <2>1, <2>2, <2>3
<1>7. selectedIndex' \in 0 .. MaxSessions /\ (n > 0 => selectedIndex' < n)
    <2>1. CASE f \in t
        BY <1>2, <1>3, <1>5, <2>1, WorkbenchAssumption
    <2>2. CASE f \notin t
        BY <1>2, <1>5, <1>6, <2>2, WorkbenchAssumption
    <2> QED  BY <2>1, <2>2
<1>8. Len(entries') \in 0 .. MaxSessions /\ (entries' # <<>> => Len(entries') > 0)
    BY <1>2, <1>4
<1>9. SelectionInRange'
    BY <1>4, <1>7 DEF SelectionInRange
<1> QED  BY <1>7, <1>8, <1>9 DEF ListInv

(***************************************************************************)
(* What keys and commands do.                                              *)
(***************************************************************************)

(* A pane that takes the focus is shown as the only focused one.           *)
LEMMA FocusKeepsPanes ==
    ASSUME PaneInv, NEW p \in Panes, Focus(p),
           UNCHANGED <<paneCounter, paneOrder, engineVars>>
    PROVE  PaneInv'
<1>1. Panes' = Panes /\ focusedId' = p /\ lit' = {p}
    BY DEF Focus, Panes, PaneInv, FocusIsShown
<1>2. p \in Session /\ paneOrder # <<>> /\ p # None
    <2>1. paneOrder # <<>>
        BY DEF Panes
    <2> QED  BY <2>1, PaneFacts
<1>3. FocusIsShown'
    BY <1>1, <1>2 DEF FocusIsShown
<1>4. PanesAreTracked'
    BY <1>1 DEF PaneInv, PanesAreTracked, engineVars
<1> QED  BY <1>1, <1>2, <1>3, <1>4 DEF PaneInv, engineVars

(* A new session is neither shown nor being closed.                        *)
LEMMA CreateKeeps ==
    ASSUME Inner, CreateSession
    PROVE  Inner'
<1> USE DEF Inner
<1> DEFINE c == paneCounter + 1
<1>1. /\ c \in Session /\ c \notin 1 .. paneCounter /\ 1 .. paneCounter \subseteq 1 .. c
      /\ paneCounter' = c /\ c \in 1 .. c /\ c \in 0 .. MaxSessions
    BY WorkbenchAssumption DEF CreateSession, PaneInv, Session
<1>2. /\ paneOrder' = Append(paneOrder, c) /\ tracked' = tracked \cup {c}
      /\ focusedId' = c /\ lit' = {c} /\ closing' = closing /\ status' = status
    BY <1>1 DEF CreateSession, Focus, PaneInv, FocusIsShown
<1> HIDE DEF c
<1>3. /\ paneOrder' \in Seq(1 .. c)
      /\ Len(paneOrder') = Len(paneOrder) + 1
      /\ \A i \in 1 .. Len(paneOrder) : paneOrder'[i] = paneOrder[i]
      /\ paneOrder'[Len(paneOrder')] = c
      /\ paneOrder \in Seq(1 .. paneCounter)
    BY <1>1, <1>2 DEF PaneInv
<1>4. NoRepeats(paneOrder')
    <2>1. \A i \in 1 .. Len(paneOrder) : paneOrder[i] \in 1 .. paneCounter
        BY PaneFacts DEF Panes
    <2>2. \A i \in 1 .. Len(paneOrder) : paneOrder[i] # c
        BY <1>1, <2>1
    <2> SUFFICES ASSUME NEW i \in 1 .. Len(paneOrder'), NEW j \in 1 .. Len(paneOrder'),
                        paneOrder'[i] = paneOrder'[j]
                 PROVE  i = j
        BY DEF NoRepeats
    <2>3. Len(paneOrder) \in Nat
        BY <1>3
    <2>4. /\ i \in 1 .. Len(paneOrder) \/ i = Len(paneOrder')
          /\ j \in 1 .. Len(paneOrder) \/ j = Len(paneOrder')
        BY <1>3, <2>3
    <2>5. CASE i \in 1 .. Len(paneOrder) /\ j \in 1 .. Len(paneOrder)
        <3>1. paneOrder[i] = paneOrder[j]
            BY <1>3, <2>5
        <3> QED  BY <2>5, <3>1 DEF PaneInv, NoRepeats
    <2>6. CASE i = Len(paneOrder') \/ j = Len(paneOrder')
        BY <1>3, <2>2, <2>4, <2>6
    <2> QED  BY <2>4, <2>5, <2>6
<1>5. Panes' = Panes \cup {c}
    BY <1>3 DEF Panes
<1>6. FocusIsShown'
    <2>1. paneOrder' # <<>> /\ c # None
        BY <1>1, <1>3, PaneFacts
    <2> QED  BY <1>2, <1>5, <2>1 DEF FocusIsShown
<1>7. PanesAreTracked'
    BY <1>1, <1>2, <1>5 DEF PaneInv, PanesAreTracked
<1>8. PaneInv'
    BY <1>1, <1>2, <1>3, <1>4, <1>6, <1>7 DEF PaneInv
<1>9. ListInv'
    <2>1. tracked' \subseteq Session
        BY <1>1, <1>2, PaneFacts DEF PaneInv
    <2> QED  BY <2>1, UpdateKeepsList DEF CreateSession, ListInv
<1>10. FrameInv' /\ LastPaneStops'
    BY <1>3 DEF CreateSession, FrameInv, layoutVars, LastPaneStops
<1> QED  BY <1>8, <1>9, <1>10

(* Closing a pane moves the focus to the first of the panes that are left, *)
(* and stops the program when none is.                                     *)
LEMMA ClosePaneKeeps ==
    ASSUME Inner, NEW p \in Panes, ClosePane(p)
    PROVE  Inner'
<1> USE DEF Inner
<1>1. /\ paneOrder' \in Seq(1 .. paneCounter)
      /\ NoRepeats(paneOrder')
      /\ Panes' = Panes \ {p}
    <2> DEFINE k == CHOOSE i \in 1 .. Len(paneOrder) : paneOrder[i] = p
    <2>1. k \in 1 .. Len(paneOrder) /\ paneOrder[k] = p
        BY DEF Panes
    <2>2. paneOrder' = RemoveAt(paneOrder, k)
        BY DEF ClosePane, RemovePane
    <2> HIDE DEF k
    <2>3. Without(RemoveAt(paneOrder, k), paneOrder, k, 1 .. paneCounter)
        BY <2>1, RemoveOne DEF PaneInv
    <2> QED  BY <2>1, <2>2, <2>3 DEF Without, Panes
<1>2. /\ paneOrder' = <<>> <=> Panes' = {}
      /\ paneOrder' # <<>> => paneOrder'[1] \in Panes'
    <2>1. paneOrder' = <<>> => Panes' = {}
        BY DEF Panes
    <2>2. paneOrder' # <<>> => 1 \in 1 .. Len(paneOrder')
        BY <1>1
    <2>3. paneOrder' # <<>> => paneOrder'[1] \in Panes'
        BY <2>2 DEF Panes
    <2> QED  BY <2>1, <2>3
<1>3. p \in Session /\ p \in 1 .. paneCounter /\ None \notin Panes /\ Panes \subseteq Session
    BY PaneFacts
<1>4. tracked' \subseteq 1 .. paneCounter /\ closing' \subseteq 1 .. paneCounter /\ status' = status
    BY <1>3 DEF ClosePane, CloseSession, PaneInv
<1>5. PanesAreTracked'
    BY <1>1 DEF ClosePane, CloseSession, PaneInv, PanesAreTracked
<1>6. FocusIsShown' /\ focusedId' \in Session \cup {None}
    <2>1. CASE focusedId # p
        <3>1. focusedId' = focusedId /\ lit' = lit \ {p}
            BY <2>1 DEF ClosePane, RemovePane
        <3>2. focusedId # None
            BY DEF PaneInv, FocusIsShown, Panes
        <3>3. focusedId \in Panes /\ focusedId \in Panes' /\ lit' = {focusedId}
            BY <1>1, <2>1, <3>1, <3>2 DEF PaneInv, FocusIsShown
        <3> QED  BY <1>2, <1>3, <3>1, <3>3 DEF FocusIsShown
    <2>2. CASE focusedId = p /\ paneOrder' = <<>>
        <3>1. focusedId' = None /\ lit' = {}
            BY <1>3, <2>2 DEF ClosePane, RemovePane, PaneInv, FocusIsShown
        <3> QED  BY <2>2, <3>1 DEF FocusIsShown
    <2>3. CASE focusedId = p /\ paneOrder' # <<>>
        <3>1. focusedId' = paneOrder'[1] /\ focusedId' \in Panes' /\ focusedId' # None
            BY <1>1, <1>2, <1>3, <2>3 DEF ClosePane, RemovePane
        <3>2. lit' = {focusedId'}
            BY <1>3, <2>3, <3>1 DEF ClosePane, RemovePane, PaneInv, FocusIsShown
        <3> QED  BY <1>1, <1>3, <2>3, <3>1, <3>2 DEF FocusIsShown
    <2> QED  BY <2>1, <2>2, <2>3
<1>7. PaneInv'
    BY <1>1, <1>4, <1>5, <1>6 DEF ClosePane, PaneInv
<1>8. ListInv'
    <2>1. tracked' \subseteq Session
        BY <1>4, PaneFacts
    <2> QED  BY <2>1, UpdateKeepsList DEF ClosePane, ListInv
<1>9. FrameInv' /\ LastPaneStops'
    BY DEF ClosePane, FrameInv, layoutVars, LastPaneStops
<1> QED  BY <1>7, <1>8, <1>9

(* Keys that move the focus.                                               *)
LEMMA FocusPaneKeeps ==
    ASSUME Inner, NEW p \in Panes, FocusPane(p)
    PROVE  Inner'
<1> USE DEF Inner
<1>1. PaneInv'
    BY FocusKeepsPanes DEF FocusPane
<1>2. ListInv'
    <2>1. tracked \subseteq Session
        BY PaneFacts DEF PaneInv
    <2> QED  BY <2>1, UpdateKeepsList DEF FocusPane, ListInv
<1>3. FrameInv' /\ LastPaneStops'
    BY DEF FocusPane, FrameInv, layoutVars, LastPaneStops
<1> QED  BY <1>1, <1>2, <1>3

(* The neighbour of the focused pane is a pane.                            *)
LEMMA FocusNeighbourKeeps ==
    ASSUME Inner, FocusNeighbour
    PROVE  Inner'
BY FocusPaneKeeps DEF FocusNeighbour, Panes

(* An action that changes no pane, session or entry.                       *)
LEMMA PanesUnchanged ==
    ASSUME PaneInv, UNCHANGED <<paneVars, engineVars>>
    PROVE  PaneInv'
BY DEF PaneInv, FocusIsShown, PanesAreTracked, Panes, paneVars, engineVars

(* Nothing, and what fails before it has changed anything.                 *)
LEMMA NothingKeeps ==
    ASSUME Inner, Nothing
    PROVE  Inner'
<1>1. PaneInv'
    BY PanesUnchanged DEF Inner, Nothing
<1> QED  BY <1>1 DEF Inner, Nothing, ListInv, SelectionInRange, FrameInv, LastPaneStops, paneVars,
                     sidebarVars, layoutVars

(* Commands that open or close no pane.                                    *)
LEMMA SmallCommandsKeep ==
    ASSUME Inner, ToggleSidebar \/ Stop \/ Rename
    PROVE  Inner'
<1>1. PaneInv'
    BY PanesUnchanged DEF Inner, ToggleSidebar, Stop, Rename
<1>2. ListInv'
    <2>1. CASE Rename
        <3>1. tracked \subseteq Session
            BY PaneFacts DEF Inner, PaneInv
        <3> QED  BY <2>1, <3>1, UpdateKeepsList DEF Rename, Inner, ListInv
    <2>2. CASE ToggleSidebar \/ Stop
        BY <2>2 DEF ToggleSidebar, Stop, Inner, ListInv, SelectionInRange, sidebarVars
    <2> QED  BY <2>1, <2>2
<1>3. FrameInv'
    BY DEF ToggleSidebar, Stop, Rename, Inner, FrameInv, layoutVars
<1>4. LastPaneStops'
    BY DEF ToggleSidebar, Stop, Rename, Inner, LastPaneStops, paneVars
<1> QED  BY <1>1, <1>2, <1>3, <1>4 DEF Inner

(* What palette, prefix keys and commands have in common.                  *)
LEMMA PerformKeeps ==
    ASSUME Inner, Perform
    PROVE  Inner'
<1>1. CASE CreateSession
    BY <1>1, CreateKeeps
<1>2. CASE CreateFails \/ Nothing
    BY <1>2, NothingKeeps DEF CreateFails, Nothing
<1>3. CASE focusedId # None /\ ClosePane(focusedId)
    <2>1. focusedId \in Panes
        BY <1>3 DEF Inner, PaneInv, FocusIsShown
    <2> QED  BY <1>3, <2>1, ClosePaneKeeps
<1>4. CASE ToggleSidebar \/ Stop
    BY <1>4, SmallCommandsKeep
<1> QED  BY <1>1, <1>2, <1>3, <1>4 DEF Perform

(***************************************************************************)
(* Keys and events.                                                        *)
(***************************************************************************)

(* Up and down stay within the list.                                       *)
LEMMA SidebarMoveKeeps ==
    ASSUME Inner, SidebarMove
    PROVE  Inner'
<1> DEFINE n == Len(entries)
<1>1. PaneInv'
    BY PanesUnchanged DEF Inner, SidebarMove
<1>2. n \in 1 .. MaxSessions /\ selectedIndex \in 0 .. n - 1 /\ entries' = entries
    BY WorkbenchAssumption DEF Inner, SidebarMove, ListInv, SelectionInRange
<1>3. selectedIndex' \in {(selectedIndex + 1) % n, (selectedIndex + n - 1) % n}
    BY DEF SidebarMove
<1> HIDE DEF n
<1>4. selectedIndex' \in 0 .. n - 1
    BY <1>2, <1>3, WorkbenchAssumption
<1>5. selectedIndex' \in 0 .. MaxSessions /\ selectedIndex' < n
    BY <1>2, <1>4, WorkbenchAssumption
<1>6. ListInv'
    BY <1>2, <1>5 DEF Inner, ListInv, SelectionInRange, n
<1> QED  BY <1>1, <1>6 DEF Inner, SidebarMove, FrameInv, LastPaneStops, paneVars, layoutVars

(* Return takes the focus to the entry's pane, if there is one.            *)
LEMMA SidebarReturnKeeps ==
    ASSUME Inner, SidebarReturn
    PROVE  Inner'
<1>1. PaneInv'
    <2>1. CASE selectedId \in Panes
        BY <2>1, FocusKeepsPanes DEF Inner, SidebarReturn
    <2>2. CASE selectedId \notin Panes
        BY <2>2, PanesUnchanged DEF Inner, SidebarReturn, paneVars
    <2> QED  BY <2>1, <2>2
<1> QED  BY <1>1 DEF Inner, SidebarReturn, ListInv, SelectionInRange, FrameInv, LastPaneStops,
                     sidebarVars, layoutVars

(* Delete closes the entry's pane, or only lists the sessions again.       *)
LEMMA SidebarDeleteKeeps ==
    ASSUME Inner, SidebarDelete
    PROVE  Inner'
<1>1. CASE selectedId \in Panes /\ ClosePane(selectedId)
    BY <1>1, ClosePaneKeeps
<1>2. CASE /\ UpdateSidebar(tracked, focusedId)
           /\ running' = (paneOrder # <<>>)
           /\ UNCHANGED <<paneVars, engineVars, layoutVars>>
    <2>1. PaneInv'
        BY <1>2, PanesUnchanged DEF Inner
    <2>2. ListInv'
        <3>1. tracked \subseteq Session
            BY PaneFacts DEF Inner, PaneInv
        <3> QED  BY <1>2, <3>1, UpdateKeepsList DEF Inner, ListInv
    <2> QED  BY <1>2, <2>1, <2>2 DEF Inner, FrameInv, LastPaneStops, paneVars, layoutVars
<1> QED  BY <1>1, <1>2 DEF SidebarDelete

(* A session leaves the engine when its shell exits or does not, and has   *)
(* no pane by then.                                                        *)
LEMMA EventsKeep ==
    ASSUME Inner, NEW s \in Session, ShellExits(s) \/ CloseTimesOut(s)
    PROVE  Inner'
<1> USE DEF Inner
<1>1. /\ tracked' \subseteq tracked /\ closing' = closing \ {s}
      /\ s \notin closing => tracked' = tracked
      /\ tracked \ {s} \subseteq tracked'
      /\ UNCHANGED <<running, paneVars, layoutVars>>
    BY DEF ShellExits, CloseTimesOut
<1>2. status' \in [Session -> {"active", "exited"}]
    BY DEF ShellExits, CloseTimesOut, PaneInv
<1>3. PanesAreTracked' /\ FocusIsShown'
    BY <1>1 DEF PaneInv, PanesAreTracked, FocusIsShown, Panes, paneVars
<1>4. PaneInv'
    BY <1>1, <1>2, <1>3 DEF PaneInv, paneVars
<1>5. ListInv'
    <2>1. CASE ShellExits(s)
        <3>1. tracked \subseteq Session
            BY PaneFacts DEF PaneInv
        <3> QED  BY <2>1, <3>1, UpdateKeepsList DEF ShellExits, ListInv
    <2>2. CASE CloseTimesOut(s)
        BY <2>2 DEF CloseTimesOut, ListInv, SelectionInRange, sidebarVars
    <2> QED  BY <2>1, <2>2
<1> QED  BY <1>1, <1>4, <1>5 DEF FrameInv, LastPaneStops, paneVars, layoutVars

(* The screen changes its size.                                            *)
LEMMA ResizeKeeps ==
    ASSUME Inner, Resize
    PROVE  Inner'
<1>1. PaneInv'
    BY PanesUnchanged DEF Inner, Resize
<1> QED  BY <1>1 DEF Inner, Resize, ListInv, SelectionInRange, FrameInv, LastPaneStops, paneVars,
                     sidebarVars

(* Keys.                                                                   *)
LEMMA InnerSteps ==
    ASSUME Inner, [Next]_vars
    PROVE  Inner'
<1>1. CASE QuitKey
    BY <1>1, SmallCommandsKeep DEF QuitKey
<1>2. CASE CtrlC \/ PaletteEscape \/ CtrlP \/ CtrlB \/ Slash \/ Tab \/ OtherKey
    <2>1. Nothing
        BY <1>2 DEF CtrlC, PaletteEscape, CtrlP, CtrlB, Slash, Tab, OtherKey
    <2> QED  BY <2>1, NothingKeeps
<1>3. CASE PaletteExecute
    <2>1. Perform \/ FocusNeighbour \/ Nothing
        BY <1>3 DEF PaletteExecute
    <2> QED  BY <2>1, PerformKeeps, FocusNeighbourKeeps, NothingKeeps
<1>4. CASE BarReturn
    <2>1. Perform \/ Rename \/ Nothing
        BY <1>4 DEF BarReturn
    <2> QED  BY <2>1, PerformKeeps, SmallCommandsKeep, NothingKeeps
<1>5. CASE PrefixKey
    <2>1. Perform \/ FocusNeighbour \/ Nothing \/ \E p \in Panes : FocusPane(p)
        BY <1>5 DEF PrefixKey
    <2> QED  BY <2>1, PerformKeeps, FocusNeighbourKeeps, NothingKeeps, FocusPaneKeeps
<1>6. CASE SidebarMove \/ SidebarReturn \/ SidebarDelete
    BY <1>6, SidebarMoveKeeps, SidebarReturnKeeps, SidebarDeleteKeeps
<1>7. CASE \E s \in Session : ShellExits(s) \/ CloseTimesOut(s)
    BY <1>7, EventsKeep
<1>8. CASE Resize
    BY <1>8, ResizeKeeps
<1>9. CASE UNCHANGED vars
    <2>1. Nothing
        BY <1>9 DEF vars, Nothing
    <2> QED  BY <2>1, NothingKeeps
<1> QED  BY <1>1, <1>2, <1>3, <1>4, <1>5, <1>6, <1>7, <1>8, <1>9 DEF Next

(* The modes stay modes.                                                   *)
LEMMA ModeSteps ==
    ASSUME ModeInv, [Next]_vars
    PROVE  ModeInv'
<1>1. CASE UNCHANGED modeVars
    BY <1>1 DEF ModeInv, modeVars
<1>2. CASE CtrlC \/ PaletteEscape \/ PaletteExecute \/ BarReturn \/ CtrlP \/ CtrlB
    BY <1>2 DEF ModeInv, CtrlC, PaletteEscape, PaletteExecute, BarReturn, CtrlP, CtrlB
<1>3. CASE PrefixKey \/ Slash \/ Tab \/ SidebarReturn \/ OtherKey
    BY <1>3 DEF ModeInv, PrefixKey, Slash, Tab, SidebarReturn, OtherKey
<1>4. CASE QuitKey \/ SidebarMove \/ SidebarDelete \/ Resize \/ UNCHANGED vars
    BY <1>1, <1>4 DEF QuitKey, SidebarMove, SidebarDelete, Resize, vars
<1>5. CASE \E s \in Session : ShellExits(s) \/ CloseTimesOut(s)
    BY <1>1, <1>5 DEF ShellExits, CloseTimesOut
<1> QED  BY <1>2, <1>3, <1>4, <1>5 DEF Next

(* start() makes one session or none.                                      *)
LEMMA InitInv ==
    ASSUME Init
    PROVE  IInv
<1> USE WorkbenchAssumption
<1>1. CASE paneCounter = 0
    <2>1. paneOrder = <<>> /\ focusedId = None /\ Panes = {} /\ entries = <<>>
        BY <1>1 DEF Init, Panes
    <2>2. PaneInv
        BY <1>1, <2>1 DEF Init, NoRepeats, PaneInv, FocusIsShown, PanesAreTracked, Session
    <2>3. ListInv /\ LastPaneStops
        BY <1>1, <2>1 DEF Init, ListInv, SelectionInRange, LastPaneStops
    <2> QED  BY <2>2, <2>3 DEF Init, IInv, Inner, FrameInv, ModeInv
<1>2. CASE paneCounter = 1
    <2>1. paneOrder = <<1>> /\ focusedId = 1 /\ Panes = {1} /\ entries = <<1>>
        BY <1>2 DEF Init, Panes
    <2>2. paneOrder \in Seq(1 .. 1) /\ Len(paneOrder) = 1 /\ 1 \in Session /\ 1 # None
        BY <2>1 DEF Session
    <2>3. PaneInv
        BY <1>2, <2>1, <2>2 DEF Init, NoRepeats, PaneInv, FocusIsShown, PanesAreTracked, Session
    <2>4. ListInv /\ LastPaneStops
        BY <2>1 DEF Init, ListInv, SelectionInRange, LastPaneStops
    <2> QED  BY <2>3, <2>4 DEF Init, IInv, Inner, FrameInv, ModeInv
<1> QED  BY <1>1, <1>2 DEF Init

(***************************************************************************)
(* The grid of panes.                                                      *)
(***************************************************************************)

(* A set of natural numbers has a least element. *)
LEMMA LeastElement ==
    ASSUME NEW S, S \subseteq Nat, S # {}
    PROVE  \E m \in S : \A n \in S : m <= n
<1> DEFINE Less == {p \in Nat \X Nat : p[1] < p[2]}
<1>1. IsWellFoundedOn(Less, Nat)
    BY NatLessThanWellFounded, Zenon DEF OpToRel
<1>2. \A x, y \in Nat : <<x, y>> \in Less <=> x < y
    OBVIOUS
<1> HIDE DEF Less
<1>3. PICK m \in S : \A y \in S : ~(<<y, m>> \in Less)
    BY <1>1, WFMin
<1>4. \A n \in S : ~(n < m)
    BY <1>2, <1>3
<1> QED  BY <1>4

(* The columns: the least number whose square is large enough. *)
LEMMA CeilSqrtFacts ==
    ASSUME NEW n \in Nat \ {0}
    PROVE  /\ Grid!CeilSqrt(n) \in 1 .. n
           /\ Grid!CeilSqrt(n) * Grid!CeilSqrt(n) >= n
           /\ (Grid!CeilSqrt(n) - 1) * (Grid!CeilSqrt(n) - 1) < n
<1> DEFINE Enough == {c \in 1 .. n : c * c >= n}
           Root(c) == c * c >= n /\ (c - 1) * (c - 1) < n
<1>1. n \in Enough
    <2>1. n * n >= n * 1
        OBVIOUS
    <2> QED  BY <2>1
<1>2. PICK c \in Enough : \A d \in Enough : c <= d
    <2>1. Enough \subseteq Nat /\ Enough # {}
        <3>1. Enough \subseteq 1 .. n
            BY Zenon
        <3>2. 1 .. n \subseteq Nat
            OBVIOUS
        <3> HIDE DEF Enough
        <3> QED  BY <1>1, <3>1, <3>2
    <2> QED  BY <2>1, LeastElement
<1>3. (c - 1) * (c - 1) < n
    <2>1. CASE c = 1
        BY <2>1
    <2>2. CASE c # 1
        <3>1. c - 1 \in 1 .. n /\ c - 1 \notin Enough
            BY <1>2, <2>2
        <3>2. (c - 1) * (c - 1) \in Int
            BY <3>1
        <3> QED  BY <3>1, <3>2
    <2> QED  BY <2>1, <2>2
<1>4. \E d \in 1 .. n : Root(d)
    BY <1>2, <1>3
<1> HIDE DEF Root
<1>5. Grid!CeilSqrt(n) = CHOOSE d \in 1 .. n : Root(d)
    BY DEF Grid!CeilSqrt, Root
<1>6. Grid!CeilSqrt(n) \in 1 .. n /\ Root(Grid!CeilSqrt(n))
    BY <1>4, <1>5
<1> QED  BY <1>6 DEF Root

(* Division. *)
LEMMA DivFacts ==
    ASSUME NEW a \in Nat, NEW b \in Nat \ {0}
    PROVE  /\ a \div b \in Nat /\ a % b \in 0 .. b - 1
           /\ a = b * (a \div b) + (a % b)
OBVIOUS

(* A greater factor makes a greater product. *)
LEMMA ProductFacts ==
    ASSUME NEW a \in Nat, NEW b \in Nat, NEW c \in Nat
    PROVE  /\ a * c \in Nat
           /\ a <= b => a * c <= b * c
           /\ (a + 1) * c = a * c + c
OBVIOUS

(* The rows: as many as the panes need. *)
LEMMA CeilDivFacts ==
    ASSUME NEW n \in Nat \ {0}, NEW k \in Nat \ {0}
    PROVE  /\ Grid!CeilDiv(n, k) \in Nat \ {0}
           /\ n <= Grid!CeilDiv(n, k) * k
           /\ (Grid!CeilDiv(n, k) - 1) * k < n
           /\ n % k = 0 => n = Grid!CeilDiv(n, k) * k
<1> DEFINE q == (n + k - 1) \div k
           s == (n + k - 1) % k
           d == n \div k
           t == n % k
<1>1. /\ q \in Nat /\ s \in 0 .. k - 1 /\ n + k - 1 = k * q + s
      /\ d \in Nat /\ t \in 0 .. k - 1 /\ n = k * d + t
    <2>1. n + k - 1 \in Nat
        OBVIOUS
    <2> QED  BY <2>1, DivFacts
<1>2. Grid!CeilDiv(n, k) = q /\ n % k = t
    BY DEF Grid!CeilDiv
<1> HIDE DEF q, s, d, t
<1>3. q # 0
    BY <1>1
<1>4. k * q = q * k /\ (q - 1) * k = k * q - k
    BY <1>1, <1>3
<1>5. n <= q * k /\ (q - 1) * k < n
    <2>1. k * q \in Nat
        BY <1>1, ProductFacts
    <2> QED  BY <1>1, <1>4, <2>1
<1>6. CASE t = 0
    <2>1. CASE q <= d
        <3>1. q * k <= d * k
            BY <1>1, <2>1, ProductFacts
        <3>2. d * k = n /\ q * k \in Nat
            BY <1>1, <1>6, ProductFacts
        <3> QED  BY <1>2, <1>3, <1>1, <1>5, <3>1, <3>2
    <2>2. CASE d + 1 <= q
        <3>1. (d + 1) * k <= q * k /\ (d + 1) * k = d * k + k
            BY <1>1, <2>2, ProductFacts
        <3>2. d * k = n /\ q * k \in Nat
            BY <1>1, <1>6, ProductFacts
        <3>3. FALSE
            BY <1>1, <1>4, <3>1, <3>2
        <3> QED  BY <3>3
    <2> QED  BY <1>1, <2>1, <2>2
<1> QED  BY <1>1, <1>2, <1>3, <1>5, <1>6

(* The place of pane i: a column and a row.  No two panes share it.        *)
LEMMA PlaceFacts ==
    ASSUME NEW k \in Nat \ {0}, NEW m \in Nat \ {0}, NEW i \in Nat, i < m * k
    PROVE  /\ i % k \in 0 .. k - 1 /\ i \div k \in 0 .. m - 1
           /\ i = k * (i \div k) + (i % k)
<1>1. i \div k \in Nat /\ i % k \in 0 .. k - 1 /\ i = k * (i \div k) + (i % k)
    BY DivFacts
<1> DEFINE d == i \div k
           t == i % k
<1>2. d \in Nat /\ t \in 0 .. k - 1 /\ i = k * d + t
    BY <1>1
<1> HIDE DEF d, t
<1>3. CASE m <= d
    <2>1. m * k <= d * k /\ d * k = k * d
        BY <1>2, <1>3, ProductFacts
    <2> QED  BY <1>2, <2>1
<1>4. CASE d <= m - 1
    BY <1>1, <1>2, <1>4 DEF d
<1> QED  BY <1>2, <1>3, <1>4

(* The pane of a place. *)
LEMMA CellNumber ==
    ASSUME NEW k \in Nat \ {0}, NEW m \in Nat \ {0}, NEW c \in 0 .. k - 1, NEW d \in 0 .. m - 1,
           NEW i, i = k * d + c
    PROVE  i \in Nat /\ i < m * k /\ i % k = c /\ i \div k = d
<1> DEFINE e == i \div k
           t == i % k
<1>1. k * d \in Nat /\ k * d = d * k
    BY ProductFacts
<1>2. i \in Nat
    BY <1>1
<1>3. i < m * k
    <2>1. (d + 1) * k <= m * k /\ (d + 1) * k = d * k + k
        BY ProductFacts
    <2> QED  BY <1>1, <2>1
<1>4. e \in Nat /\ t \in 0 .. k - 1 /\ i = k * e + t
    BY <1>2, DivFacts
<1>5. k * d + c = k * e + t
    BY <1>4
<1> HIDE DEF e, t
<1>6. e = d
    <2>1. CASE e < d
        <3>1. (e + 1) * k <= d * k /\ (e + 1) * k = e * k + k /\ e * k = k * e
            BY <1>4, <2>1, ProductFacts
        <3> QED  BY <1>1, <1>4, <1>5, <3>1
    <2>2. CASE d < e
        <3>1. (d + 1) * k <= e * k /\ (d + 1) * k = d * k + k /\ e * k = k * e
            BY <1>4, <2>2, ProductFacts
        <3> QED  BY <1>1, <1>4, <1>5, <3>1
    <2> QED  BY <1>4, <2>1, <2>2
<1>7. t = c
    BY <1>1, <1>4, <1>5, <1>6
<1> QED  BY <1>2, <1>3, <1>6, <1>7 DEF e, t

(* There is a pane for every place. *)
LEMMA PlacesFilled ==
    ASSUME NEW k \in Nat \ {0}, NEW m \in Nat \ {0}
    PROVE  \A a \in 0 .. k - 1, b \in 0 .. m - 1 :
               \E i \in Nat : i < m * k /\ i % k = a /\ i \div k = b
<1> SUFFICES ASSUME NEW a \in 0 .. k - 1, NEW b \in 0 .. m - 1
             PROVE  \E i \in Nat : i < m * k /\ i % k = a /\ i \div k = b
    OBVIOUS
<1>1. PICK i : i = k * b + a
    OBVIOUS
<1>2. i \in Nat /\ i < m * k /\ i % k = a /\ i \div k = b
    BY <1>1, CellNumber
<1> QED  BY <1>2

-----------------------------------------------------------------------------
(* One direction of the grid: w places divided among k columns (or rows).  *)
Start(w, k, c) == c * (w \div k)
Size(w, k, c) == IF c = k - 1 THEN w - c * (w \div k) ELSE w \div k

(* The columns are not empty, lie behind one another and fill the w places. *)
LEMMA StripFacts ==
    ASSUME NEW w \in Nat, NEW k \in Nat \ {0}, k <= w
    PROVE  /\ \A c \in 0 .. k - 1 :
                  /\ Start(w, k, c) \in Nat /\ Size(w, k, c) \in Nat \ {0}
                  /\ Start(w, k, c) + Size(w, k, c) <= w
           /\ \A c, d \in 0 .. k - 1 : c < d => Start(w, k, c) + Size(w, k, c) <= Start(w, k, d)
           /\ \A p \in 0 .. w - 1 : \E c \in 0 .. k - 1 :
                  p \in Start(w, k, c) .. Start(w, k, c) + Size(w, k, c) - 1
<1> DEFINE s == w \div k
           t == w % k
<1>1. s \in Nat /\ t \in 0 .. k - 1 /\ w = k * s + t
    BY DivFacts
<1> HIDE DEF s, t
<1>2. s # 0
    BY <1>1
<1>3. \A c, d \in Nat : /\ c * s \in Nat
                        /\ c < d => c * s + s <= d * s
    <2> SUFFICES ASSUME NEW c \in Nat, NEW d \in Nat
                 PROVE  c * s \in Nat /\ (c < d => c * s + s <= d * s)
        OBVIOUS
    <2>1. c < d => (c + 1) * s <= d * s
        BY <1>1, ProductFacts
    <2> QED  BY <1>1, <2>1, ProductFacts
<1>4. k * s <= w
    BY <1>1, <1>3
<1>5. \A c : /\ Start(w, k, c) = c * s
             /\ Size(w, k, c) = IF c = k - 1 THEN w - c * s ELSE s
    BY DEF Start, Size, s
<1>6. ASSUME NEW c \in 0 .. k - 1
      PROVE  /\ Start(w, k, c) \in Nat /\ Size(w, k, c) \in Nat \ {0}
             /\ Start(w, k, c) + Size(w, k, c) <= w
    <2>1. c * s \in Nat /\ k * s \in Nat /\ c * s + s <= k * s
        BY <1>3
    <2>2. PICK x : x = c * s
        OBVIOUS
    <2>3. x \in Nat /\ x + s <= w
        BY <1>1, <1>4, <2>1, <2>2
    <2>4. Start(w, k, c) = x /\ Size(w, k, c) \in {w - x, s}
        BY <1>5, <2>2
    <2> QED  BY <1>1, <1>2, <2>3, <2>4
<1>7. ASSUME NEW c \in 0 .. k - 1, NEW d \in 0 .. k - 1, c < d
      PROVE  Start(w, k, c) + Size(w, k, c) <= Start(w, k, d)
    <2>1. c * s \in Nat /\ d * s \in Nat /\ c * s + s <= d * s /\ c # k - 1
        BY <1>3, <1>7
    <2> QED  BY <1>5, <2>1
<1>8. ASSUME NEW p \in 0 .. w - 1
      PROVE  \E c \in 0 .. k - 1 : p \in Start(w, k, c) .. Start(w, k, c) + Size(w, k, c) - 1
    <2>1. \E a, b : a \in Nat /\ b \in 0 .. s - 1 /\ p = s * a + b
        <3>1. /\ p \div s \in Nat /\ p % s \in 0 .. s - 1
              /\ p = s * (p \div s) + (p % s)
            <4>1. s \in Nat \ {0} /\ p \in Nat
                BY <1>1, <1>2
            <4> HIDE <1>1
            <4> QED  BY <4>1, DivFacts
        <3> QED  BY <3>1
    <2> PICK a, b : a \in Nat /\ b \in 0 .. s - 1 /\ p = s * a + b
        BY <2>1
    <2>2. a * s \in Nat /\ p = a * s + b
        BY <1>1, <1>3, <2>1
    <2>3. CASE a < k - 1
        <3>1. a \in 0 .. k - 1 /\ Start(w, k, a) = a * s /\ Size(w, k, a) = s
            BY <1>5, <2>3
        <3>2. p \in Start(w, k, a) .. Start(w, k, a) + Size(w, k, a) - 1
            BY <1>1, <2>2, <3>1
        <3> QED  BY <3>1, <3>2
    <2>4. CASE a >= k - 1
        <3>1. k - 1 \in 0 .. k - 1 /\ (k - 1) * s \in Nat /\ (k - 1) * s <= a * s
            BY <1>1, <2>1, <2>4, ProductFacts
        <3>2. (k - 1) * s <= p /\ (k - 1) * s + (w - (k - 1) * s) = w
            BY <2>1, <2>2, <3>1
        <3>3. p \in Start(w, k, k - 1) .. Start(w, k, k - 1) + Size(w, k, k - 1) - 1
            BY <1>5, <3>1, <3>2
        <3> QED  BY <3>1, <3>3
    <2> QED  BY <2>1, <2>3, <2>4
<1> QED  BY <1>6, <1>7, <1>8

-----------------------------------------------------------------------------
(* Regions of the screen. *)
Place == [x : Nat, y : Nat, width : Nat, height : Nat]

(* The panes pane[1], ..., pane[n] are not empty, lie in r and apart. *)
Separate(pane, r, n) ==
    /\ \A i \in 1 .. n : /\ pane[i] \in Place /\ pane[i].width > 0 /\ pane[i].height > 0
                         /\ Grid!Inside(pane[i], r)
    /\ \A i, j \in 1 .. n : i < j => Grid!Apart(pane[i], pane[j])

(* Every place of r is in one of them. *)
Covers(pane, r, n) ==
    \A x \in r.x .. r.x + r.width - 1, y \in r.y .. r.y + r.height - 1 :
        \E i \in 1 .. n : Grid!Holds(pane[i], x, y)

(* One pane has it all, two share the columns, three are one and two. *)
LEMMA FewPanes ==
    ASSUME NEW r \in Place, r.width >= 2, r.height >= 2, NEW n \in {1, 2, 3}
    PROVE  /\ Separate(Grid!calculateGrid(r, n), r, n)
           /\ Covers(Grid!calculateGrid(r, n), r, n)
<1> DEFINE pane == Grid!calculateGrid(r, n)
           half == r.width \div 2
           halfH == r.height \div 2
<1>1. /\ half \in 1 .. r.width - 1 /\ halfH \in 1 .. r.height - 1
      /\ r.x \in Nat /\ r.y \in Nat /\ r.width \in Nat /\ r.height \in Nat
    BY DEF Place
<1>2. CASE n = 1
    <2>1. pane = <<r>> /\ 1 .. 1 = {1}
        BY <1>2 DEF Grid!calculateGrid
    <2> QED  BY <1>1, <1>2, <2>1 DEF Separate, Covers, Grid!Inside, Grid!Holds
<1>3. CASE n = 2
    <2>1. /\ pane = << Grid!Rect(r.x, r.y, half, r.height),
                       Grid!Rect(r.x + half, r.y, r.width - half, r.height) >>
          /\ 1 .. 2 = {1, 2}
        BY <1>3 DEF Grid!calculateGrid
    <2> HIDE DEF half, halfH
    <2>2. /\ pane[1] = [x |-> r.x, y |-> r.y, width |-> half, height |-> r.height]
          /\ pane[2] = [x |-> r.x + half, y |-> r.y, width |-> r.width - half,
                        height |-> r.height]
        BY <2>1 DEF Grid!Rect
    <2> HIDE DEF pane
    <2>3. Separate(pane, r, 2)
        BY <1>1, <2>1, <2>2 DEF Separate, Grid!Inside, Grid!Apart, Place
    <2>4. Covers(pane, r, 2)
        BY <1>1, <2>1, <2>2 DEF Covers, Grid!Holds
    <2> QED  BY <1>3, <2>3, <2>4 DEF pane
<1>4. CASE n = 3
    <2>1. /\ pane = << Grid!Rect(r.x, r.y, half, r.height),
                       Grid!Rect(r.x + half, r.y, r.width - half, halfH),
                       Grid!Rect(r.x + half, r.y + halfH, r.width - half, r.height - halfH) >>
          /\ 1 .. 3 = {1, 2, 3}
        BY <1>4 DEF Grid!calculateGrid
    <2> HIDE DEF half, halfH
    <2>2. /\ pane[1] = [x |-> r.x, y |-> r.y, width |-> half, height |-> r.height]
          /\ pane[2] = [x |-> r.x + half, y |-> r.y, width |-> r.width - half,
                        height |-> halfH]
          /\ pane[3] = [x |-> r.x + half, y |-> r.y + halfH, width |-> r.width - half,
                        height |-> r.height - halfH]
        BY <2>1 DEF Grid!Rect
    <2> HIDE DEF pane
    <2>3. Separate(pane, r, 3)
        BY <1>1, <2>1, <2>2 DEF Separate, Grid!Inside, Grid!Apart, Place
    <2>4. Covers(pane, r, 3)
        BY <1>1, <2>1, <2>2 DEF Covers, Grid!Holds
    <2> QED  BY <1>4, <2>3, <2>4 DEF pane
<1> QED  BY <1>2, <1>3, <1>4

(* w places are divided into k parts that are not empty and lie behind one *)
(* another; part a begins at left[a] and has wide[a] places.               *)
Strip(w, k, left, wide) ==
    /\ left \in [0 .. k - 1 -> Nat] /\ wide \in [0 .. k - 1 -> Nat \ {0}]
    /\ \A a \in 0 .. k - 1 : left[a] + wide[a] <= w
    /\ \A a, b \in 0 .. k - 1 : a < b => left[a] + wide[a] <= left[b]
    /\ \A p \in 0 .. w - 1 : \E a \in 0 .. k - 1 : p \in left[a] .. left[a] + wide[a] - 1

(* Pane i is where column c[i] and row d[i] meet. *)
Meet(pane, r, n, c, d, left, wide, top, high) ==
    \A i \in 1 .. n : pane[i] = [x |-> r.x + left[c[i]], y |-> r.y + top[d[i]],
                                 width |-> wide[c[i]], height |-> high[d[i]]]

(* Each pane has a column and a row, and no two have the same. *)
Distinct(n, k, m, c, d) ==
    /\ c \in [1 .. n -> 0 .. k - 1] /\ d \in [1 .. n -> 0 .. m - 1]
    /\ \A i, j \in 1 .. n : i < j => c[i] # c[j] \/ d[i] # d[j]

(* A pane is at each place. *)
Full(n, k, m, c, d) ==
    \A a \in 0 .. k - 1, b \in 0 .. m - 1 : \E i \in 1 .. n : c[i] = a /\ d[i] = b

(* Each pane is where a column and a row meet, no two at the same place. *)
LEMMA PanesMeet ==
    ASSUME NEW r \in Place, NEW k \in Nat, NEW m \in Nat, NEW n \in Nat,
           NEW left, NEW wide, Strip(r.width, k, left, wide),
           NEW top, NEW high, Strip(r.height, m, top, high),
           NEW c, NEW d, Distinct(n, k, m, c, d),
           NEW pane, Meet(pane, r, n, c, d, left, wide, top, high)
    PROVE  /\ Separate(pane, r, n)
           /\ Full(n, k, m, c, d) => Covers(pane, r, n)
<1>1. r.x \in Nat /\ r.y \in Nat /\ r.width \in Nat /\ r.height \in Nat
    BY DEF Place
<1>2. \A i \in 1 .. n : /\ pane[i].x = r.x + left[c[i]] /\ pane[i].width = wide[c[i]]
                        /\ pane[i].y = r.y + top[d[i]] /\ pane[i].height = high[d[i]]
    <2> SUFFICES ASSUME NEW i \in 1 .. n
                 PROVE  /\ pane[i].x = r.x + left[c[i]] /\ pane[i].width = wide[c[i]]
                        /\ pane[i].y = r.y + top[d[i]] /\ pane[i].height = high[d[i]]
        OBVIOUS
    <2>1. pane[i] = [x |-> r.x + left[c[i]], y |-> r.y + top[d[i]],
                     width |-> wide[c[i]], height |-> high[d[i]]]
        BY DEF Meet
    <2> QED  BY <2>1
<1>3. ASSUME NEW i \in 1 .. n
      PROVE  /\ pane[i] \in Place /\ pane[i].width > 0 /\ pane[i].height > 0
             /\ Grid!Inside(pane[i], r)
    <2>1. /\ left[c[i]] \in Nat /\ wide[c[i]] \in Nat \ {0} /\ left[c[i]] + wide[c[i]] <= r.width
          /\ top[d[i]] \in Nat /\ high[d[i]] \in Nat \ {0} /\ top[d[i]] + high[d[i]] <= r.height
        BY DEF Strip, Distinct
    <2>2. pane[i] \in Place
        <3>1. pane[i] = [x |-> r.x + left[c[i]], y |-> r.y + top[d[i]],
                         width |-> wide[c[i]], height |-> high[d[i]]]
            BY DEF Meet
        <3>2. r.x + left[c[i]] \in Nat /\ r.y + top[d[i]] \in Nat
            BY <1>1, <2>1
        <3> QED  BY <2>1, <3>1, <3>2 DEF Place
    <2> QED  BY <1>1, <1>2, <2>1, <2>2 DEF Grid!Inside
<1>4. ASSUME NEW i \in 1 .. n, NEW j \in 1 .. n, i < j
      PROVE  Grid!Apart(pane[i], pane[j])
    <2>1. c[i] \in 0 .. k - 1 /\ c[j] \in 0 .. k - 1 /\ d[i] \in 0 .. m - 1 /\ d[j] \in 0 .. m - 1
        BY DEF Distinct
    <2>2. \/ c[i] < c[j] \/ c[j] < c[i] \/ d[i] < d[j] \/ d[j] < d[i]
        <3>1. c[i] # c[j] \/ d[i] # d[j]
            BY <1>4 DEF Distinct
        <3> QED  BY <2>1, <3>1
    <2>3. \/ left[c[i]] + wide[c[i]] <= left[c[j]] \/ left[c[j]] + wide[c[j]] <= left[c[i]]
          \/ top[d[i]] + high[d[i]] <= top[d[j]] \/ top[d[j]] + high[d[j]] <= top[d[i]]
        BY <2>1, <2>2 DEF Strip
    <2>4. /\ left[c[i]] \in Nat /\ wide[c[i]] \in Nat /\ top[d[i]] \in Nat /\ high[d[i]] \in Nat
          /\ left[c[j]] \in Nat /\ wide[c[j]] \in Nat /\ top[d[j]] \in Nat /\ high[d[j]] \in Nat
        BY <2>1 DEF Strip
    <2> QED  BY <1>1, <1>2, <2>3, <2>4 DEF Grid!Apart
<1>5. ASSUME Full(n, k, m, c, d),
             NEW x \in r.x .. r.x + r.width - 1, NEW y \in r.y .. r.y + r.height - 1
      PROVE  \E i \in 1 .. n : Grid!Holds(pane[i], x, y)
    <2>1. x - r.x \in 0 .. r.width - 1 /\ y - r.y \in 0 .. r.height - 1
        BY <1>1
    <2>2. PICK a \in 0 .. k - 1 : x - r.x \in left[a] .. left[a] + wide[a] - 1
        BY <2>1 DEF Strip
    <2>3. PICK b \in 0 .. m - 1 : y - r.y \in top[b] .. top[b] + high[b] - 1
        BY <2>1 DEF Strip
    <2>4. PICK i \in 1 .. n : c[i] = a /\ d[i] = b
        BY <1>5 DEF Full
    <2>5. left[a] \in Nat /\ wide[a] \in Nat /\ top[b] \in Nat /\ high[b] \in Nat
        BY DEF Strip
    <2>6. Grid!Holds(pane[i], x, y)
        BY <1>1, <1>2, <2>2, <2>3, <2>4, <2>5 DEF Grid!Holds
    <2> QED  BY <2>6
<1> QED  BY <1>3, <1>4, <1>5 DEF Separate, Covers

(* A grid of k columns and m rows. *)
GridOf(r, n, k, m) == [i \in 1 .. n |-> Grid!Cell(r, k, m, i - 1)]

(* The cells of a grid. *)
LEMMA CellsTile ==
    ASSUME NEW r \in Place, NEW n \in Nat \ {0},
           NEW k \in Nat \ {0}, k <= r.width, NEW m \in Nat \ {0}, m <= r.height, n <= m * k
    PROVE  /\ Separate(GridOf(r, n, k, m), r, n)
           /\ n = m * k => Covers(GridOf(r, n, k, m), r, n)
<1>1. r.x \in Nat /\ r.y \in Nat /\ r.width \in Nat /\ r.height \in Nat
    BY DEF Place
<1> DEFINE pane == GridOf(r, n, k, m)
           c == [i \in 1 .. n |-> (i - 1) % k]
           d == [i \in 1 .. n |-> (i - 1) \div k]
           left == [a \in 0 .. k - 1 |-> Start(r.width, k, a)]
           wide == [a \in 0 .. k - 1 |-> Size(r.width, k, a)]
           top == [b \in 0 .. m - 1 |-> Start(r.height, m, b)]
           high == [b \in 0 .. m - 1 |-> Size(r.height, m, b)]
<1>3. ASSUME NEW i \in 1 .. n
      PROVE  /\ (i - 1) % k \in 0 .. k - 1 /\ (i - 1) \div k \in 0 .. m - 1
             /\ i - 1 = k * ((i - 1) \div k) + ((i - 1) % k)
    <2>1. i - 1 \in Nat /\ i - 1 < m * k
        BY ProductFacts
    <2> QED  BY <2>1, PlaceFacts
<1>4. c \in [1 .. n -> 0 .. k - 1] /\ d \in [1 .. n -> 0 .. m - 1]
    BY <1>3
<1>5. Distinct(n, k, m, c, d)
    <2> SUFFICES ASSUME NEW i \in 1 .. n, NEW j \in 1 .. n, c[i] = c[j], d[i] = d[j]
                 PROVE  i = j
        BY <1>4 DEF Distinct
    <2>1. i - 1 = k * d[i] + c[i] /\ j - 1 = k * d[j] + c[j]
        BY <1>3
    <2> HIDE DEF c, d
    <2>2. i - 1 = j - 1
        BY <2>1
    <2> QED  BY <2>2
<1>6. Strip(r.width, k, left, wide) /\ Strip(r.height, m, top, high)
    BY <1>1, StripFacts DEF Strip
<1>7. Meet(pane, r, n, c, d, left, wide, top, high)
    <2> SUFFICES ASSUME NEW i \in 1 .. n
                 PROVE  pane[i] = [x |-> r.x + left[c[i]], y |-> r.y + top[d[i]],
                                   width |-> wide[c[i]], height |-> high[d[i]]]
        BY DEF Meet
    <2>1. pane[i] = Grid!Cell(r, k, m, i - 1)
        BY DEF GridOf
    <2>2. /\ left[c[i]] = Start(r.width, k, (i - 1) % k)
          /\ wide[c[i]] = Size(r.width, k, (i - 1) % k)
          /\ top[d[i]] = Start(r.height, m, (i - 1) \div k)
          /\ high[d[i]] = Size(r.height, m, (i - 1) \div k)
        BY <1>3
    <2> QED  BY <2>1, <2>2 DEF Grid!Cell, Grid!Rect, Start, Size
<1>8. n = m * k => Full(n, k, m, c, d)
    <2> SUFFICES ASSUME n = m * k, NEW a \in 0 .. k - 1, NEW b \in 0 .. m - 1
                 PROVE  \E i \in 1 .. n : c[i] = a /\ d[i] = b
        BY DEF Full
    <2>1. \E j \in Nat : j < m * k /\ j % k = a /\ j \div k = b
        <3> HIDE DEF pane, c, d, left, wide, top, high
        <3> QED  BY PlacesFilled, Zenon
    <2>2. PICK j \in Nat : j < m * k /\ j % k = a /\ j \div k = b
        BY <2>1
    <2>3. j + 1 \in 1 .. n /\ (j + 1) - 1 = j
        BY <2>2
    <2> QED  BY <2>2, <2>3
<1> HIDE DEF pane, c, d, left, wide, top, high
<1>9. Separate(pane, r, n) /\ (n = m * k => Covers(pane, r, n))
    BY <1>4, <1>5, <1>6, <1>7, <1>8, PanesMeet
<1> QED  BY <1>9 DEF pane

(* Four panes and more form a grid. *)
LEMMA ManyPanes ==
    ASSUME NEW r \in Place, NEW n \in Nat, n > 3, Grid!CeilSqrt(n) <= r.width,
           Grid!CeilDiv(n, Grid!CeilSqrt(n)) <= r.height
    PROVE  /\ Separate(Grid!calculateGrid(r, n), r, n)
           /\ n % Grid!CeilSqrt(n) = 0 => Covers(Grid!calculateGrid(r, n), r, n)
<1> DEFINE k == Grid!CeilSqrt(n)
           m == Grid!CeilDiv(n, k)
<1>1. n \in Nat \ {0}
    OBVIOUS
<1>2. Grid!calculateGrid(r, n) = GridOf(r, n, k, m)
    BY DEF Grid!calculateGrid, GridOf
<1>3. k \in Nat \ {0}
    <2>1. k \in 1 .. n
        BY <1>1, CeilSqrtFacts, Zenon
    <2> QED  BY <1>1, <2>1
<1> HIDE DEF k
<1>4. m \in Nat \ {0} /\ n <= m * k /\ (n % k = 0 => n = m * k)
    BY <1>1, <1>3, CeilDivFacts
<1>5. k <= r.width /\ m <= r.height
    BY DEF k
<1> HIDE DEF m
<1>6. Separate(GridOf(r, n, k, m), r, n) /\ (n = m * k => Covers(GridOf(r, n, k, m), r, n))
    BY <1>1, <1>3, <1>4, <1>5, CellsTile
<1> QED  BY <1>2, <1>4, <1>6 DEF k

(* n panes have a place each, and two have, in w columns and h rows. *)
Fits(n, w, h) ==
    w >= 2 /\ h >= 2 /\ Grid!CeilSqrt(n) <= w /\ Grid!CeilDiv(n, Grid!CeilSqrt(n)) <= h

(* Panes that fit tile the region. *)
LEMMA PanesTile ==
    ASSUME NEW r \in Place, NEW n \in Nat \ {0}, Fits(n, r.width, r.height)
    PROVE  Grid!Tiles(r, n)
<1> DEFINE pane == Grid!calculateGrid(r, n)
           Right == {pane[i].x + pane[i].width : i \in 1 .. n} \ {r.x + r.width}
           Below == {pane[i].y + pane[i].height : i \in 1 .. n} \ {r.y + r.height}
           full == n \in {1, 2, 3} \/ n % Grid!CeilSqrt(n) = 0
<1>1. Separate(pane, r, n) /\ (full => Covers(pane, r, n))
    <2>1. CASE n \in {1, 2, 3}
        BY <2>1, FewPanes DEF Fits
    <2>2. CASE n > 3
        BY <2>2, ManyPanes DEF Fits
    <2> QED  BY <2>1, <2>2
<1> HIDE DEF pane
<1>2. ASSUME NEW x \in Right \cup {r.x}, NEW y \in Below \cup {r.y}
      PROVE  x \in r.x .. r.x + r.width - 1 /\ y \in r.y .. r.y + r.height - 1
    <2>1. /\ 1 \in 1 .. n /\ r.x \in Nat /\ r.y \in Nat /\ r.width \in Nat /\ r.height \in Nat
        BY DEF Place
    <2>2. \A i \in 1 .. n :
              /\ pane[i].x \in Nat /\ pane[i].width \in Nat \ {0}
              /\ pane[i].y \in Nat /\ pane[i].height \in Nat \ {0}
              /\ r.x <= pane[i].x /\ pane[i].x + pane[i].width <= r.x + r.width
              /\ r.y <= pane[i].y /\ pane[i].y + pane[i].height <= r.y + r.height
        BY <1>1 DEF Separate, Grid!Inside, Place
    <2>3. r.width > 0 /\ r.height > 0
        BY <2>1, <2>2
    <2>4. x \in r.x .. r.x + r.width - 1
        BY <2>1, <2>2, <2>3
    <2>5. y \in r.y .. r.y + r.height - 1
        BY <2>1, <2>2, <2>3
    <2> QED  BY <2>4, <2>5
<1>3. full => \A x \in Right \cup {r.x}, y \in Below \cup {r.y} :
                  \E i \in 1 .. n : Grid!Holds(pane[i], x, y)
    BY <1>1, <1>2 DEF Covers
<1> QED  BY <1>1, <1>3 DEF Grid!Tiles, Separate, pane

(***************************************************************************)
(* The theorems.                                                           *)
(***************************************************************************)

(* IInv is an inductive invariant of Workbench.                            *)
THEOREM Invariance == Spec => []IInv
<1>1. Init => IInv
    BY InitInv
<1>2. IInv /\ [Next]_vars => IInv'
    BY InnerSteps, ModeSteps DEF IInv
<1> QED  BY <1>1, <1>2, PTL DEF Spec

(* App, PaneManager, Sidebar and engine agree with one another whichever   *)
(* keys, exits and timers come between, with any number of sessions.       *)
THEOREM PartsAgree == Spec => []Consistent
<1>1. IInv => Consistent
    <2> SUFFICES ASSUME IInv  PROVE Consistent
        OBVIOUS
    <2>1. TypeOK
        <3>1. PaneInv /\ ListInv /\ FrameInv /\ ModeInv
            BY DEF IInv, Inner
        <3>2. /\ Panes \subseteq Session /\ lit \subseteq Session
              /\ tracked \subseteq Session /\ closing \subseteq Session
            BY <3>1, PaneFacts DEF PaneInv, FocusIsShown
        <3> QED  BY <3>1, <3>2 DEF TypeOK, PaneInv, ListInv, FrameInv, ModeInv
    <2> QED  BY <2>1 DEF IInv, Inner, PaneInv, ListInv, Consistent
<1> QED  BY <1>1, Invariance, PTL

(* Panes neither vanish nor overlap nor leave their region, and a full     *)
(* grid covers it, for any number of panes, on every screen on which as    *)
(* many panes fit beside the sidebar, which takes 18 columns.              *)
THEOREM RegionIsTiled ==
    ASSUME \A n \in 1 .. MaxGrid, w \in Cols, h \in Rows : Fits(n, w - 18, h - 3)
    PROVE  Spec => []GridTiles
<1>1. IInv => GridTiles
    <2> SUFFICES ASSUME IInv, NEW n \in 1 .. MaxGrid
                 PROVE  Grid!Tiles(Region, n)
        BY DEF GridTiles
    <2>1. n \in Nat \ {0} /\ cols \in Nat /\ rows \in Nat /\ cols \in Cols /\ rows \in Rows
        BY WorkbenchAssumption DEF IInv, Inner, FrameInv
    <2>2. Fits(n, cols - 18, rows - 3)
        BY <2>1
    <2>3. cols - 18 >= 2 /\ rows - 3 >= 2
        BY <2>2 DEF Fits
    <2>4. PICK x \in {1, 19} :
              Region = [x |-> x, y |-> 2, width |-> cols - x + 1, height |-> rows - 3]
        BY DEF Region
    <2>5. Region \in Place /\ Region.width >= cols - 18 /\ Region.height = rows - 3
        BY <2>1, <2>3, <2>4 DEF Place
    <2>6. Fits(n, Region.width, Region.height)
        <3>1. Grid!CeilSqrt(n) \in Nat
            BY <2>1, CeilSqrtFacts
        <3>2. Region.width \in Nat
            BY <2>5 DEF Place
        <3> QED  BY <2>1, <2>2, <2>5, <3>1, <3>2 DEF Fits
    <2> QED  BY <2>1, <2>5, <2>6, PanesTile
<1> QED  BY <1>1, Invariance, PTL

=============================================================================
