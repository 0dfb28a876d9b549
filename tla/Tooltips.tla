------------------------------- MODULE Tooltips -------------------------------
(***************************************************************************)
(* The one tooltip window of the panel, which all widgets share: it comes  *)
(* up a while after the pointer has come over one of them, or at once when *)
(* the last has only just gone.                                            *)
(***************************************************************************)
EXTENDS Integers, FiniteSets

CONSTANTS
    Widgets,
    Texts,        \* what a widget may say; 0 is nothing
    NoOne,
    MaxMoves, MaxClicks

VARIABLES
    panel,   \* the manager, and what each widget says
    world,   \* the pointer, and the widgets on the screen
    wire     \* is not used

vars == <<panel, world, wire>>
Now == [panel |-> panel, world |-> world, wire |-> wire]
Become(s) == \E t \in {s} : panel' = t.panel /\ world' = t.world /\ wire' = t.wire

-----------------------------------------------------------------------------

\* schedule
Schedule(s, w) ==
    [s EXCEPT !.panel.anchor = w, !.panel.text = w,
              !.panel.pending = IF s.panel.recent THEN "at once" ELSE "soon"]

\* prepare, show_at
Prepared(s, w) == [s EXCEPT !.panel.drawn = s.panel.says[w]]

\* show
Show(s) ==
    LET w == s.panel.anchor
        t == [s EXCEPT !.panel.pending = NoOne]
    IN  IF w = NoOne THEN t
        ELSE IF w \notin s.world.mapped \/ s.panel.says[s.panel.text] = 0 THEN t
        ELSE [Prepared(t, s.panel.text) EXCEPT !.panel.visible = TRUE]

\* refresh
Refresh(s, w) == IF s.panel.visible /\ s.panel.text = w THEN Prepared(s, w) ELSE s

\* hide: whoever's it is.
Hide(s) ==
    [s EXCEPT !.panel.pending = NoOne, !.panel.visible = FALSE, !.panel.recent = @ \/ s.panel.visible,
              !.panel.anchor = NoOne, !.panel.text = NoOne]

-----------------------------------------------------------------------------
(* attach: the pointer, a click or a turn of the wheel, a widget that goes.*)

Clicked == world.clicks < MaxClicks
Did(s) == [s EXCEPT !.world.clicks = @ + 1]
Over(s, w) == Schedule([s EXCEPT !.world.over = w, !.world.waved = FALSE], w)
Off(s) == IF s.world.over = NoOne THEN s ELSE Hide([s EXCEPT !.world.over = NoOne])

Enter == \E w \in world.mapped : Clicked /\ w # world.over /\ Become(Over(Off(Did(Now)), w))
Leave == world.over # NoOne /\ Become(Off(Now))
Wave == Clicked /\ world.over # NoOne /\ Become(Hide([Did(Now) EXCEPT !.world.waved = TRUE]))

\* A widget under the pointer loses it before it goes.
Unmap ==
    \E w \in world.mapped :
        /\ world.moves < MaxMoves
        /\ LET s == [Now EXCEPT !.world.moves = @ + 1, !.world.mapped = @ \ {w},
                                !.world.others = @ \/ w # world.over]
           IN  Become(Hide(IF w = world.over THEN Off(s) ELSE s))
Map ==
    \E w \in Widgets \ world.mapped : Become([Now EXCEPT !.world.mapped = @ \cup {w}])

\* set_text
SetText ==
    \E w \in Widgets : \E v \in Texts \ {panel.says[w]} :
        /\ world.moves < MaxMoves
        /\ Become(Refresh([Now EXCEPT !.world.moves = @ + 1, !.panel.says[w] = v,
                                      !.world.mute = @ \/ 0 \in {v, panel.says[w]}], w))

\* The timer, and the half second that follows a tooltip.
Timer == panel.pending # NoOne /\ Become(Show(Now))
Cool == panel.recent /\ ~panel.visible /\ Become([Now EXCEPT !.panel.recent = FALSE])

Init ==
    /\ panel \in {[anchor |-> NoOne, text |-> NoOne, pending |-> NoOne, visible |-> FALSE, recent |-> FALSE,
                   drawn |-> 0, says |-> says] : says \in [Widgets -> Texts]}
    /\ world = [over |-> NoOne, waved |-> FALSE, others |-> FALSE, mute |-> FALSE, mapped |-> Widgets,
                moves |-> 0, clicks |-> 0]
    /\ wire = 0

Clock == Timer
ClockDue == panel.pending # NoOne
Next == Clock \/ Cool \/ Enter \/ Leave \/ Wave \/ Unmap \/ Map \/ SetText

Spec == Init /\ [][Next]_vars /\ WF_vars(Clock)

-----------------------------------------------------------------------------
(* Properties.                                                             *)

Due == world.over # NoOne /\ ~world.waved /\ panel.pending = NoOne

\* What the pointer has rested on is explained, as long as no other widget has gone and no
\* text has been nothing; a click or a turn of the wheel lasts until the pointer comes back.
QuietIsCurrent ==
    /\ Due /\ ~world.others /\ ~world.mute /\ panel.says[world.over] # 0 => panel.visible
    /\ world.waved /\ world.over # NoOne => ~panel.visible /\ panel.pending = NoOne

\* A tooltip is that of the widget under the pointer, and says what that says now; none is
\* on its way to a widget that has gone.
TipsBelong ==
    /\ panel.visible => /\ panel.anchor = world.over /\ world.over \in world.mapped
                        /\ panel.drawn = panel.says[world.over]
    /\ panel.pending # NoOne => panel.anchor = world.over /\ world.over \in world.mapped

\* "dismissed by leaving, clicking, scrolling, or the anchor going away" (tooltip.rs:15): not
\* by another widget that goes.
OnlyItsAnchorDismisses == Due /\ ~world.mute /\ panel.says[world.over] # 0 => panel.visible

\* What says nothing has no tooltip, and what says something has (tooltip.rs, show).
NothingIsNotShown == panel.visible => panel.drawn # 0
=============================================================================
