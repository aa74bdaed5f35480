------------------------------- MODULE Editor -------------------------------
(***************************************************************************)
(* tui.py: the loop that draws and then handles one key.  The ledger is    *)
(* read for every frame and again for the key, so the clock and the list   *)
(* may have moved in between; Enter checks its preview and then submits in *)
(* a transaction of its own.  Colours, panels and dialogs that only show   *)
(* are left out; the cursor over the GPUs is any card.                     *)
(***************************************************************************)
EXTENDS Timetable

CONSTANTS
    Zooms,              \* ticks per column of the timeline
    Columns,            \* columns of the timeline
    ContextColumns,     \* columns kept before a framed selection, and before NOW
    QuickTicks,         \* EDITOR_MIN_QUICK_MINUTES
    MaxKeys, MaxLength  \* bounds

VARIABLE ui

GpuFocus == -1
Header == 0

DefaultViewStart(zoom) == Floor(Floor(moment) - ContextColumns * zoom)

ClosedEditor(u) ==
    [u EXCEPT !.mode = "list", !.begun = FALSE, !.target = 0, !.view = 0, !.anchor = 0,
              !.steps = 0, !.cards = {}, !.kind = "shared"]

EditorInit ==
    ui = [at |-> "draw", mode |-> "list", begun |-> FALSE, target |-> 0, view |-> 0, steps |-> 0,
          anchor |-> 0, length |-> 1, cards |-> {}, kind |-> "shared",
          zoom |-> Min(Zooms), row |-> Header, keys |-> 0, ready |-> NoClaim]

(* A view that follows the clock. *)
EditorViewStartLive(u) == DefaultViewStart(u.zoom)

EditorViewStart(u) == IF u.mode = "list" THEN DefaultViewStart(u.zoom) ELSE u.view

EditorStart(u) == EditorViewStart(u) + u.steps * Slice
EditorEnd(u) == EditorStart(u) + u.length * Slice

QuickSteps(u) == Larger(1, Ceil(Larger(QuickTicks, u.zoom)) \div Slice)

PreviewOf(u) == Terms(EditorStart(u), EditorEnd(u), u.cards, u.kind)

PreviewValid(u) ==
    LET p == PreviewOf(u)
        earliest == IF u.mode = "edit" THEN Ceil(moment) ELSE Floor(moment)
    IN /\ u.begun \/ earliest <= p.from
       /\ p.gpus # {}
       /\ IF u.begun THEN EndMayMove(u.target, p.to)
          ELSE \A g \in p.gpus : FitsOn(u.target, g, p.from, p.to, p.mode)

StartAdd(u, card) ==
    LET view == DefaultViewStart(u.zoom)
    IN [u EXCEPT !.mode = "add", !.target = 0, !.begun = FALSE, !.view = view,
                 !.anchor = Floor(moment), !.steps = Larger(0, (Floor(moment) - view) \div Slice),
                 !.cards = {card}, !.kind = "shared"]

LoadEdit(u, i) ==
    LET context == Larger(1, Ceil(QuickTicks) \div Slice)
    IN [u EXCEPT !.mode = "edit", !.target = i, !.begun = plan[i].from <= moment,
                 !.view = plan[i].from - context * Slice, !.steps = context,
                 !.anchor = plan[i].from,
                 !.length = Larger(1, (plan[i].to - plan[i].from) \div Slice),
                 !.cards = plan[i].gpus, !.kind = plan[i].mode]

(* The window that shows a selection: the live one if it fits, else one    *)
(* that begins a little before it.                                         *)
Framed(u, from, to, autoZoom) ==
    LET margin(z) == ContextColumns * z
        live(z) == Floor(Floor(moment) - margin(z))
        shows(z) == live(z) <= from /\ to + margin(z) <= live(z) + Columns * z
        wide == {z \in Zooms : u.zoom <= z /\ shows(z)}
        zoom == IF ~autoZoom THEN u.zoom ELSE IF wide = {} THEN Max(Zooms) ELSE Min(wide)
        view == IF shows(zoom) THEN live(zoom) ELSE Floor(from - margin(zoom))
    IN [u EXCEPT !.zoom = zoom, !.view = view, !.steps = Larger(0, (from - view) \div Slice)]

----------------------------------------------------------------------------
(* The main loop. *)

AfterKey(u) ==
    /\ ui' = [u EXCEPT !.at = "draw", !.keys = ui.keys + 1]
    /\ UNCHANGED timetable

Selected == IF ui.row > Len(Listing) THEN Len(Listing) ELSE ui.row

Draw ==
    /\ ui.at = "draw"
    /\ ui' = [ui EXCEPT !.at = "key",
                        !.row = IF ui.mode = "list" /\ ui.row > 0 /\ Listing # <<>> THEN Selected ELSE @]
    /\ screen' = IF ui.mode = "list" THEN NoClaim ELSE PreviewOf(ui)
    /\ UNCHANGED <<moment, plan, deed, elsewhere>>

KeyPressed == ui.at = "key" /\ ui.keys < MaxKeys

(* getch timed out, or a key that only shows something. *)
NoKey ==
    /\ ui.at = "key"
    /\ ui' = [ui EXCEPT !.at = "draw"]
    /\ UNCHANGED timetable

MoveFocus ==
    /\ KeyPressed /\ ui.mode = "list"
    /\ \E r \in {GpuFocus, Header} \cup DOMAIN Listing : AfterKey([ui EXCEPT !.row = r])

ListZoom ==
    /\ KeyPressed /\ ui.mode = "list"
    /\ \E z \in Zooms \ {ui.zoom} : AfterKey([ui EXCEPT !.zoom = z])

StartAddSelect ==
    /\ KeyPressed /\ ui.mode = "list"
    /\ \E g \in Cards : AfterKey(StartAdd(ui, g))

OwnSelected == Listing # <<>> /\ ui.row > 0 /\ plan[Listing[Selected]].uid = Myself

StartEditSelect ==
    /\ KeyPressed /\ ui.mode = "list" /\ ui.row > 0
    /\ AfterKey(IF OwnSelected THEN LoadEdit([ui EXCEPT !.row = Selected], Listing[Selected])
                ELSE IF Listing = <<>> THEN ui ELSE [ui EXCEPT !.row = Selected])

DeleteSelected ==
    /\ KeyPressed /\ ui.mode = "list" /\ ui.row > 0 /\ OwnSelected
    /\ ui' = [ui EXCEPT !.at = "sure", !.row = Selected, !.target = Listing[Selected],
                        !.keys = @ + 1]
    /\ screen' = ClaimId(Listing[Selected])
    /\ UNCHANGED <<moment, plan, deed, elsewhere>>

AnswerDelete ==
    /\ ui.at = "sure"
    /\ ui' = [ui EXCEPT !.at = "draw", !.target = 0]
    /\ \/ UNCHANGED <<plan, deed>>
       \/ /\ CancelAllowed(ui.target)
          /\ Deed(screen, ui.target, [plan EXCEPT ![ui.target].live = FALSE])
    /\ UNCHANGED <<moment, screen, elsewhere>>

----------------------------------------------------------------------------
(* Keys of the add and edit modes. *)

EditorKey == KeyPressed /\ ui.mode # "list"
Unlocked == EditorKey /\ ~ui.begun

MoveEditorStart ==
    /\ Unlocked
    /\ \E d \in {-QuickSteps(ui), -1, 1, QuickSteps(ui)} :
          LET requested == ui.steps + d
              moved == IF requested >= 0 THEN [ui EXCEPT !.steps = requested]
                       ELSE IF ui.mode = "edit"
                       THEN [ui EXCEPT !.view = @ + requested * Slice, !.steps = 0]
                       ELSE [ui EXCEPT !.steps = 0]
          IN AfterKey([moved EXCEPT !.anchor = EditorStart(moved)])

ChangeLength ==
    /\ EditorKey
    /\ \E d \in {-QuickSteps(ui), -1, 1, QuickSteps(ui)} :
          /\ ui.length + d <= MaxLength
          /\ AfterKey([ui EXCEPT !.length = Larger(1, @ + d)])

ToggleCard ==
    /\ Unlocked
    /\ \E g \in Cards :
          AfterKey([ui EXCEPT !.cards = IF g \in @ THEN @ \ {g} ELSE @ \cup {g}])

SetKind ==
    /\ Unlocked
    /\ \E k \in {"shared", "exclusive"} : AfterKey([ui EXCEPT !.kind = k])

ChangeEditorZoom ==
    /\ EditorKey
    /\ \E z \in Zooms :
          AfterKey(Framed([ui EXCEPT !.zoom = z], EditorStart(ui), EditorEnd(ui), FALSE))

ResetEditor ==
    /\ EditorKey
    /\ IF ui.mode = "edit" THEN AfterKey(LoadEdit(ui, ui.target))
       ELSE \E g \in Cards :
               AfterKey(StartAdd([ui EXCEPT !.length = Larger(1, Ceil(QuickTicks) \div Slice)], g))

CloseEditor == EditorKey /\ AfterKey(ClosedEditor(ui))

(* 1-9, f, o and g: the earliest or the nearest slot, on any cards or on   *)
(* the selected ones; found or not, the user sees the result first.        *)
FindAddSlot ==
    /\ Unlocked
    /\ \E nearest, fixed \in BOOLEAN, n \in 1 .. Cardinality(Cards) :
          LET minimum == IF ui.mode = "edit" THEN Ceil(moment) ELSE Floor(moment)
              want == Larger(IF nearest THEN EditorStart(ui) ELSE ui.anchor, minimum)
              count == IF fixed THEN Cardinality(ui.cards) ELSE n
              pool == IF fixed THEN ui.cards ELSE Cards
              slots == IF nearest
                       THEN NearestSlot(ui.target, count, want, ui.length * Slice, ui.kind, pool)
                       ELSE EarliestSlot(ui.target, count, want, ui.length * Slice, ui.kind, pool)
          IN /\ nearest => ~fixed
             /\ fixed => ui.cards # {}
             /\ IF slots = {} THEN AfterKey(ui)
                ELSE \E s \in slots :
                        AfterKey(Framed([ui EXCEPT !.cards = s.gpus], s.from, s.to, TRUE))

(* Enter: an edit of a reservation that has started meanwhile is reloaded  *)
(* as an edit of its end; an invalid preview is refused; else the preview  *)
(* is submitted.                                                           *)
PressEnter ==
    /\ EditorKey
    /\ IF ui.mode = "edit" /\ ~ui.begun /\ plan[ui.target].from <= moment
       THEN AfterKey(LoadEdit(ui, ui.target))
       ELSE IF ~PreviewValid(ui) THEN AfterKey(ui)
       ELSE /\ ui' = [ui EXCEPT !.at = "send", !.ready = PreviewOf(ui), !.keys = @ + 1]
            /\ UNCHANGED timetable

(* The submitted request: all of the preview, or only the new length once  *)
(* the reservation has started.                                            *)
Request ==
    IF ui.begun THEN [length |-> ui.ready.to - ui.ready.from]
    ELSE [from |-> ui.ready.from, length |-> ui.ready.to - ui.ready.from,
          gpus |-> ui.ready.gpus, mode |-> ui.ready.mode]

Submitted(i, ledger) ==
    /\ Deed(screen, i, ledger)
    /\ UNCHANGED <<moment, screen, elsewhere>>
    /\ ui' = [ClosedEditor(ui) EXCEPT !.at = "draw", !.ready = NoClaim,
                  !.row = Max({Header} \cup {r \in DOMAIN Listing' : Listing'[r] = i})]

Submit ==
    /\ ui.at = "send"
    /\ \/ /\ ui.mode = "add"
          /\ \E a \in Added(ui.ready) : Submitted(a.id, a.ledger)
       \/ /\ ui.mode = "edit"
          /\ \E r \in Edited(Myself, ui.target, Request) :
                Submitted(ui.target, [plan EXCEPT ![ui.target] = r])

SubmitRefused ==
    /\ ui.at = "send"
    /\ {} = IF ui.mode = "add" THEN Added(ui.ready) ELSE Edited(Myself, ui.target, Request)
    /\ ui' = [ui EXCEPT !.at = "draw", !.ready = NoClaim]
    /\ UNCHANGED timetable

EditorNext ==
    \/ Draw \/ NoKey \/ MoveFocus \/ ListZoom \/ StartAddSelect \/ StartEditSelect
    \/ DeleteSelected \/ AnswerDelete \/ MoveEditorStart \/ ChangeLength \/ ToggleCard
    \/ SetKind \/ ChangeEditorZoom \/ ResetEditor \/ CloseEditor \/ FindAddSlot
    \/ PressEnter \/ Submit \/ SubmitRefused
    \/ (Environment /\ UNCHANGED ui)
=============================================================================
