-------------------------------- MODULE Speller --------------------------------
(***************************************************************************)
(* lua/Keyboard.lua: the keyboard widget of a head unit.  It shows one of  *)
(* several layouts of letter buttons, enables the letters the application  *)
(* allows, moves a cursor with the rotary knob while it has the focus, and *)
(* hands the focus to and fro with a button container.                     *)
(*                                                                         *)
(* Each action is one callback of the framework, from start to end: Lua    *)
(* runs one at a time.  Buttons are numbers, nil is 0.  The button         *)
(* container, the user's hands and the application are external.           *)
(***************************************************************************)
EXTENDS Integers, Sequences, FiniteSets

CONSTANTS
  Layouts,          \* the layout sequence: for each layout the code of each button
  NumButtons,       \* self.tNumButtons: buttons of each of the five layout types
  Props,            \* values of GetLetterFunction, InvertGetLetterFunction, Enabled
  HasToggleEvent    \* the property IN_EVENT_toggle_layout is set

\* Codes: an unused button, one to be filled, and the space bar.
Empty == 0
Fill == -1
Space == 32

ASSUME LayoutsAssumption ==
  /\ Layouts \in Seq(Seq(Int)) /\ Layouts # <<>>
  /\ \A l \in DOMAIN Layouts : Len(Layouts[l]) > 0
ASSUME PropsAssumption ==
  Props \subseteq [letters : Seq(Int \ {Empty, Fill}), invert : BOOLEAN, enabled : BOOLEAN]
ASSUME TypesAssumption ==
  \A l \in DOMAIN Layouts : \E t \in DOMAIN NumButtons : NumButtons[t] = Len(Layouts[l])
ASSUME ToggleAssumption == HasToggleEvent \in BOOLEAN

VARIABLES
  props, updatePending,            \* the properties, and a data update under way
  buttons, visible,                \* tttLayouts: characters and flags, bVisible
  bEnabled, bSpaceBtnEnabled,
  toggleEnabled,                   \* property Enabled of the toggle button
  nLayout, nCursor, bGotFocus,
  bPressed, nPressed,
  registered,                      \* the groups of events the widget gets
  containerFocus, toSpeller, toContainer,   \* the container, SETFOCUS under way
  keyDown, touchDown,              \* what the user holds down
  alive                            \* the destructor has not run

appVars == <<props, updatePending>>
tableVars == <<buttons, visible, bEnabled, toggleEnabled>>
focusVars == <<nCursor, bGotFocus, registered, toContainer>>
handVars == <<keyDown, touchDown>>
vars == <<appVars, tableVars, bSpaceBtnEnabled, nLayout, focusVars, bPressed,
          nPressed, containerFocus, toSpeller, handVars, alive>>

Least(S) == CHOOSE k \in S : \A j \in S : k <= j

-----------------------------------------------------------------------------
(* updateEnabled: which button shows which character, enabled or not.      *)

Places == UNION {{l} \X DOMAIN Layouts[l] : l \in DOMAIN Layouts}
CodeAt(p) == Layouts[p[1]][p[2]]
FillPlaces == {p \in Places : CodeAt(p) = Fill}
FixedCharacters == {CodeAt(p) : p \in Places} \ {Empty, Fill}
Before(p, q) == p[1] < q[1] \/ (p[1] = q[1] /\ p[2] < q[2])

\* The letters no button has of its own, each where it is mentioned first.
Unplaced(letters) ==
  {i \in DOMAIN letters : /\ letters[i] \notin FixedCharacters
                          /\ \A j \in 1..(i - 1) : letters[j] # letters[i]}

\* They are dealt out to the fill buttons, layout by layout.
FillCharacter(p, letters) ==
  LET rank == Cardinality({q \in FillPlaces : Before(q, p)})
      mine == {i \in Unplaced(letters) :
                 Cardinality({j \in Unplaced(letters) : j < i}) = rank}
  IN IF mine = {} THEN Empty ELSE letters[CHOOSE i \in mine : TRUE]

Allowed(c, pr) == pr.enabled /\ ((\E i \in DOMAIN pr.letters : pr.letters[i] = c) # pr.invert)

ButtonDef(p, pr, space) ==
  IF CodeAt(p) = Fill
  THEN LET c == IF pr.enabled /\ ~pr.invert THEN FillCharacter(p, pr.letters) ELSE Empty
       IN [character |-> c, enabled |-> c # Empty]
  ELSE [character |-> CodeAt(p),
        enabled |-> /\ CodeAt(p) # Empty
                    /\ Allowed(CodeAt(p), pr)
                    /\ CodeAt(p) = Space => space]

Table(pr, space) ==
  [l \in DOMAIN Layouts |-> [b \in DOMAIN Layouts[l] |-> ButtonDef(<<l, b>>, pr, space)]]

Letters(layout) == {b \in DOMAIN layout : layout[b].character \notin {Empty, Space}}
HasEnabledLetter(layout) == \E b \in Letters(layout) : layout[b].enabled
HasEnabledSpace(layout) ==
  \E b \in DOMAIN layout : layout[b].character = Space /\ layout[b].enabled

\* A layout with an enabled space bar but no enabled letter counts only as
\* long as no layout before it counts.
Showable(layout) == \/ HasEnabledLetter(layout)
                    \/ Letters(layout) # {} /\ HasEnabledSpace(layout)

Visible(table) ==
  [l \in DOMAIN Layouts |-> \/ HasEnabledLetter(table[l])
                            \/ /\ Showable(table[l])
                               /\ \A k \in 1..(l - 1) : ~Showable(table[k])]

-----------------------------------------------------------------------------
(* Focus and cursor.                                                       *)

\* A slip: the widget still thinks it has the focus.
HandOverKeeping(param) ==
  /\ UNCHANGED <<bGotFocus, registered>>
  /\ nCursor' = 0
  /\ toContainer' = param

\* focusLost, and a SETFOCUS for the container.
HandOver(param) ==
  /\ bGotFocus' = FALSE
  /\ registered' = registered \ {"HK_MAIN"}
  /\ nCursor' = 0
  /\ toContainer' = param

\* repositionCursor: the enabled button nearest to pos, the one to the right
\* first; when the widget is disabled, any button at or left of pos does.
Near(pos, k) == IF k % 2 = 1 THEN pos - (k \div 2) ELSE pos + (k \div 2)
Suits(k, pos, layout, on) ==
  /\ Near(pos, k) \in DOMAIN layout
  /\ layout[Near(pos, k)].enabled \/ (k % 2 = 1 /\ ~on)
Found(pos, layout, on) == {k \in 1..(2 * Len(layout)) : Suits(k, pos, layout, on)}
Reposition(pos, layout, on) ==
  IF Found(pos, layout, on) = {} THEN 0 ELSE Near(pos, Least(Found(pos, layout, on)))

\* The layouts in turn, and the next one that is visible, or the same.
Turn(k) == ((nLayout - 1 + k) % Len(Layouts)) + 1

NextLayout(vis) ==
  LET found == {k \in 1..Len(Layouts) : vis[Turn(k)]}
  IN IF found = {} THEN nLayout ELSE Turn(Least(found))

\* A slip: the pressed button is not let go.
SwitchLayoutHolding(vis) ==
  /\ nLayout' = NextLayout(vis)
  /\ bPressed' = bPressed
  /\ IF bGotFocus THEN HandOver(3) ELSE UNCHANGED focusVars

SwitchLayout(vis) ==
  /\ nLayout' = NextLayout(vis)
  /\ bPressed' = FALSE
  /\ IF bGotFocus THEN HandOver(3) ELSE UNCHANGED focusVars

\* What updateEnabled does when the layout need not change.
KeepLayout(table, on) ==
  /\ UNCHANGED <<nLayout, bPressed>>
  /\ IF ~bGotFocus THEN UNCHANGED focusVars
     ELSE LET cursor == Reposition(nCursor, table[nLayout], on)
          IN IF cursor = 0 THEN HandOver(1)
             ELSE nCursor' = cursor /\ UNCHANGED <<bGotFocus, registered, toContainer>>

UpdateEnabled(space) ==
  LET table == Table(props, space)
      vis == Visible(table)
  IN /\ buttons' = table
     /\ visible' = vis
     /\ bEnabled' = props.enabled
     /\ toggleEnabled' = (Cardinality({l \in DOMAIN Layouts : vis[l]}) > 1)
     /\ IF ~vis[nLayout] /\ props.enabled THEN SwitchLayout(vis)
        ELSE KeepLayout(table, props.enabled)

-----------------------------------------------------------------------------
(* Callbacks of the framework.                                             *)

\* The application changes the letters it allows; a data update follows.
ChangeProps ==
  /\ alive
  /\ props' \in Props
  /\ updatePending' = TRUE
  /\ UNCHANGED <<tableVars, bSpaceBtnEnabled, nLayout, focusVars, bPressed,
                 nPressed, containerFocus, toSpeller, handVars, alive>>

OnDataUpdate ==
  /\ alive /\ updatePending
  /\ updatePending' = FALSE
  /\ UpdateEnabled(bSpaceBtnEnabled)
  /\ UNCHANGED <<props, bSpaceBtnEnabled, nPressed, containerFocus, toSpeller,
                 handVars, alive>>

\* WIDGET_ENTRYFIELD_EMPTY: the space bar is enabled if there is text.
EntryfieldEmpty ==
  /\ alive
  /\ bSpaceBtnEnabled' \in BOOLEAN
  /\ UpdateEnabled(bSpaceBtnEnabled')
  /\ UNCHANGED <<appVars, nPressed, containerFocus, toSpeller, handVars, alive>>

ToggleLayout ==
  /\ alive /\ "toggle" \in registered
  /\ SwitchLayout(visible)
  /\ UNCHANGED <<appVars, tableVars, bSpaceBtnEnabled, nPressed, containerFocus,
                 toSpeller, handVars, alive>>

\* A slip: the cursor is set on the first or last button as it is.
SetFocusAnywhere ==
  /\ alive /\ toSpeller # 0
  /\ toSpeller' = 0
  /\ nCursor' = IF toSpeller = 1 THEN 1 ELSE Len(Layouts[nLayout])
  /\ bGotFocus' = TRUE
  /\ registered' = registered \cup {"HK_MAIN"}
  /\ UNCHANGED <<appVars, tableVars, bSpaceBtnEnabled, nLayout, bPressed, nPressed,
                 containerFocus, toContainer, handVars, alive>>

\* WIDGET_SETFOCUS from the container, 1 for the first button, 2 for the last.
SetFocus ==
  /\ alive /\ toSpeller # 0
  /\ toSpeller' = 0
  /\ IF bGotFocus THEN UNCHANGED focusVars
     ELSE LET cursor == Reposition((toSpeller - 1) * Len(Layouts[nLayout]),
                                   buttons[nLayout], bEnabled)
          IN /\ nCursor' = cursor
             /\ IF cursor # 0
                THEN /\ bGotFocus' = TRUE
                     /\ registered' = registered \cup {"HK_MAIN"}
                     /\ UNCHANGED toContainer
                ELSE /\ toContainer' = 2
                     /\ UNCHANGED <<bGotFocus, registered>>
  /\ UNCHANGED <<appVars, tableVars, bSpaceBtnEnabled, nLayout, bPressed, nPressed,
                 containerFocus, handVars, alive>>

\* HK_MAIN_NEG and HK_MAIN_POS: to the next enabled button on that side; off
\* the left end to the container, and nowhere off the right end.
MoveCursor(move) ==
  /\ alive /\ "HK_MAIN" \in registered
  /\ LET enabled == {b \in DOMAIN buttons[nLayout] :
                       buttons[nLayout][b].enabled /\ (b - nCursor) * move > 0}
     IN \/ /\ enabled # {}
           /\ nCursor' = nCursor + move * Least({(b - nCursor) * move : b \in enabled})
           /\ UNCHANGED <<bGotFocus, registered, toContainer>>
        \/ /\ enabled = {} /\ move < 0
           /\ HandOver(1)
  /\ UNCHANGED <<appVars, tableVars, bSpaceBtnEnabled, nLayout, bPressed, nPressed,
                 containerFocus, toSpeller, handVars, alive>>

Press(b) == nPressed' = b /\ bPressed' = TRUE

\* The user presses the knob and lets it go; the widget hears of it only while
\* it is registered.
PressKey ==
  /\ alive /\ ~keyDown
  /\ keyDown' = TRUE
  /\ IF "HK_MAIN" \in registered THEN Press(nCursor) ELSE UNCHANGED <<nPressed, bPressed>>
  /\ UNCHANGED <<appVars, tableVars, bSpaceBtnEnabled, nLayout, focusVars,
                 containerFocus, toSpeller, touchDown, alive>>

ReleaseKey ==
  /\ alive /\ keyDown
  /\ keyDown' = FALSE
  /\ bPressed' = (bPressed /\ "HK_MAIN" \notin registered)
  /\ UNCHANGED <<appVars, tableVars, bSpaceBtnEnabled, nLayout, nPressed, focusVars,
                 containerFocus, toSpeller, touchDown, alive>>

\* isInTouchArea finds an enabled button, and onTouch follows.
TouchPress(b) ==
  /\ alive /\ ~touchDown
  /\ buttons[nLayout][b].enabled
  /\ touchDown' = TRUE
  /\ Press(b)
  /\ UNCHANGED <<appVars, tableVars, bSpaceBtnEnabled, nLayout, focusVars,
                 containerFocus, toSpeller, keyDown, alive>>

TouchRelease ==
  /\ alive /\ touchDown
  /\ touchDown' = FALSE
  /\ bPressed' = FALSE
  /\ UNCHANGED <<appVars, tableVars, bSpaceBtnEnabled, nLayout, nPressed, focusVars,
                 containerFocus, toSpeller, keyDown, alive>>

\* WIDGET_VIEW_CHANGE.
ViewChange ==
  /\ alive /\ bPressed
  /\ bPressed' = FALSE
  /\ UNCHANGED <<appVars, tableVars, bSpaceBtnEnabled, nLayout, nPressed, focusVars,
                 containerFocus, toSpeller, handVars, alive>>

Destructor ==
  /\ alive
  /\ alive' = FALSE
  /\ registered' = IF bGotFocus \/ HasToggleEvent THEN {} ELSE registered
  /\ UNCHANGED <<appVars, tableVars, bSpaceBtnEnabled, nLayout, nCursor, bGotFocus,
                 toContainer, bPressed, nPressed, containerFocus, toSpeller, handVars>>

-----------------------------------------------------------------------------
(* The button container, by the protocol in the header of Keyboard.lua.    *)

ContainerGivesFocus ==
  /\ alive /\ containerFocus
  /\ containerFocus' = FALSE
  /\ toSpeller' \in {1, 2}
  /\ UNCHANGED <<appVars, tableVars, bSpaceBtnEnabled, nLayout, focusVars, bPressed,
                 nPressed, handVars, alive>>

ContainerTakesFocus ==
  /\ alive /\ toContainer # 0
  /\ toContainer' = 0
  /\ containerFocus' = TRUE
  /\ UNCHANGED <<appVars, tableVars, bSpaceBtnEnabled, nLayout, nCursor, bGotFocus,
                 registered, bPressed, nPressed, toSpeller, handVars, alive>>

-----------------------------------------------------------------------------
\* The constructor, which ends with updateEnabled.
Init ==
  /\ props \in Props /\ updatePending = FALSE
  /\ bSpaceBtnEnabled = FALSE
  /\ buttons = Table(props, FALSE)
  /\ visible = Visible(buttons)
  /\ bEnabled = props.enabled
  /\ toggleEnabled = (Cardinality({l \in DOMAIN Layouts : visible[l]}) > 1)
  /\ nLayout = LET seen == {l \in DOMAIN Layouts : visible[l]}
               IN IF props.enabled /\ seen # {} THEN Least(seen) ELSE 1
  /\ nCursor = 0 /\ bGotFocus = FALSE
  /\ bPressed = FALSE /\ nPressed = 0
  /\ registered = {"VIEW_CHANGE"} \cup (IF HasToggleEvent THEN {"toggle"} ELSE {})
  /\ containerFocus = TRUE /\ toSpeller = 0 /\ toContainer = 0
  /\ keyDown = FALSE /\ touchDown = FALSE
  /\ alive = TRUE

Next ==
  \/ ChangeProps \/ OnDataUpdate \/ EntryfieldEmpty \/ ToggleLayout
  \/ SetFocus \/ (\E move \in {-1, 1} : MoveCursor(move))
  \/ PressKey \/ ReleaseKey
  \/ (\E b \in DOMAIN buttons[nLayout] : TouchPress(b)) \/ TouchRelease
  \/ ViewChange \/ Destructor
  \/ ContainerGivesFocus \/ ContainerTakesFocus

Spec == Init /\ [][Next]_vars

-----------------------------------------------------------------------------
(* Properties.                                                             *)

ButtonNumbers == 0..Len(Layouts[nLayout])

TypeOK ==
  /\ props \in Props /\ updatePending \in BOOLEAN
  /\ DOMAIN buttons = DOMAIN Layouts
  /\ \A p \in Places : buttons[p[1]][p[2]] \in [character : Int, enabled : BOOLEAN]
  /\ visible \in [DOMAIN Layouts -> BOOLEAN]
  /\ bEnabled \in BOOLEAN /\ bSpaceBtnEnabled \in BOOLEAN /\ toggleEnabled \in BOOLEAN
  /\ nLayout \in DOMAIN Layouts
  /\ nCursor \in ButtonNumbers /\ nPressed \in Nat
  /\ bGotFocus \in BOOLEAN /\ bPressed \in BOOLEAN
  /\ registered \subseteq {"VIEW_CHANGE", "toggle", "HK_MAIN"}
  /\ containerFocus \in BOOLEAN /\ toSpeller \in 0..2 /\ toContainer \in 0..3
  /\ keyDown \in BOOLEAN /\ touchDown \in BOOLEAN /\ alive \in BOOLEAN

\* The focus is in one place at a time and never nowhere: with the container,
\* with the widget (which is registered to the knob then, and only then), or
\* on its way from one to the other.
OneFocus ==
  alive =>
    /\ bGotFocus <=> "HK_MAIN" \in registered
    /\ containerFocus \/ bGotFocus \/ toSpeller # 0 \/ toContainer # 0
    /\ containerFocus => ~bGotFocus /\ toSpeller = 0 /\ toContainer = 0
    /\ bGotFocus => toSpeller = 0 /\ toContainer = 0
    /\ toSpeller = 0 \/ toContainer = 0

\* preDraw: how button b of the current layout is drawn.
State(b) ==
  CASE ~buttons[nLayout][b].enabled -> "disabled"
    [] buttons[nLayout][b].enabled /\ bPressed /\ b = nPressed -> "pressed"
    [] buttons[nLayout][b].enabled /\ ~(bPressed /\ b = nPressed) /\ b = nCursor -> "focused"
    [] OTHER -> "enabled"

\* Who has the focus sees a cursor, and nobody else: the widget has a cursor
\* exactly while it has the focus, and unless the widget is disabled the
\* button under the cursor is enabled and drawn so, however layouts and letters
\* have changed since the knob was last turned.
CursorShown ==
  /\ bGotFocus <=> nCursor # 0
  /\ bGotFocus => nCursor \in DOMAIN buttons[nLayout]
  /\ bGotFocus /\ bEnabled => State(nCursor) \in {"focused", "pressed"}

\* A button that counts as pressed is a button of the layout that is shown:
\* press and preDraw never take an index of another layout.
PressedInLayout == bPressed => nPressed \in DOMAIN buttons[nLayout]

\* The layout that is shown is one with letters whenever there is any.
ShownLayoutHasLetters ==
  bEnabled /\ (\E l \in DOMAIN Layouts : visible[l]) => visible[nLayout]

\* With all updates delivered and the letter function not inverted, exactly
\* the letters it names are enabled somewhere: the space bar needs text in the
\* entry field, and a letter without a button of its own needs a fill button
\* that is free.  No fill button repeats another button.
LettersOffered ==
  LET named == {props.letters[i] : i \in DOMAIN props.letters}
      shown == {p \in Places : buttons[p[1]][p[2]].enabled}
      offered == {buttons[p[1]][p[2]].character : p \in shown}
  IN ~updatePending =>
       /\ ~props.enabled => offered = {}
       /\ props.enabled /\ ~props.invert =>
            /\ offered \subseteq named
            /\ \A c \in (named \ offered) \ {Space} :
                 c \notin FixedCharacters /\ FillPlaces \subseteq shown
            /\ \A p \in shown \cap FillPlaces, q \in shown :
                 buttons[p[1]][p[2]].character = buttons[q[1]][q[2]].character => p = q
       /\ props.enabled /\ props.invert =>
            offered \ {Space} = FixedCharacters \ (named \cup {Space})

\* While the toggle button is enabled it does change the layout.
ToggleChangesLayout ==
  [][ToggleLayout /\ toggleEnabled => nLayout' # nLayout]_vars

\* Keyboard.lua:41-44: an update that leaves the widget the focus leaves the
\* cursor where it is while the widget is disabled, and otherwise on the
\* closest enabled button.
CursorMovesLeast ==
  [][ OnDataUpdate /\ bGotFocus /\ bGotFocus' =>
        /\ ~bEnabled' => nCursor' = nCursor
        /\ bEnabled' => \A b \in DOMAIN buttons'[nLayout] :
             buttons'[nLayout][b].enabled =>
               (b - nCursor) * (b - nCursor) >= (nCursor' - nCursor) * (nCursor' - nCursor) ]_vars

-----------------------------------------------------------------------------
(* What the comments of Keyboard.lua say and the code does not do.         *)

\* Keyboard.lua:29-30: bPressed is true while a button is pressed, false
\* otherwise.
PressedWhileHeld == alive /\ bPressed => keyDown \/ touchDown

\* getAbsoluteChildIndex has coordinates for these indices...
HasCoordinates(n) == n # 0 /\ n <= NumButtons[nLayout]

\* ...and Keyboard.lua:1266 says: if nIndex addresses a valid child.
ChildIndexValid ==
  \A n \in 0..50 : HasCoordinates(n) => n \in DOMAIN buttons[nLayout]
=============================================================================
