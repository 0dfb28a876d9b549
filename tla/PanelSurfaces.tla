---------------------------- MODULE PanelSurfaces ----------------------------
(***************************************************************************)
(* What the main loop keeps on screen, side by side, as PanelServices has  *)
(* the services: one part, the subject, takes every step.  Where a part    *)
(* calls into another - an install that makes the bars again - the caller  *)
(* has its own view of the result (Reload's `drawn`), and the callee takes *)
(* the call whenever it may come (Bars' Rebuild).                          *)
(***************************************************************************)
EXTENDS Naturals, Sequences, FiniteSets, TLC

CONSTANTS
    Subjects,    \* the parts looked at, by name
    Connectors,  \* names of outputs
    Nothing,     \* a file that is broken, a monitor without a name
    Files,       \* the configurations the file may hold
    Start,       \* the one the panel starts from
    BlurOffered, \* whether the compositor offers the blur protocol
    QueueLimit,  \* how many file events wait for the watcher
    SaveBound,   \* bounds the times the file changes, and the reload commands
    PlugBound,   \* bounds the monitors ever plugged in
    AskBound     \* bounds the rebuilds and the visibility commands

VARIABLES
    subject,
    file, config, drawn, plain, told, sent, events, watcher, loaded, commands, saves,
    monitors, plugged, bars, pending, waiting, wanted, asked

reloadVars ==
    <<file, config, drawn, plain, told, sent, events, watcher, loaded, commands, saves>>
barsVars == <<monitors, plugged, bars, pending, waiting, wanted, asked>>
vars == <<subject, reloadVars, barsVars>>

Reload == INSTANCE Reload WITH Broken <- Nothing

Bars == INSTANCE Bars WITH Unnamed <- Nothing

ASSUME ConstantsAssumption == Reload!ConstantsOK /\ Bars!ConstantsOK

-----------------------------------------------------------------------------
Init == subject \in Subjects /\ Reload!Init /\ Bars!Init

ReloadStep == subject = "reload" /\ Reload!Next /\ UNCHANGED <<subject, barsVars>>

BarsStep == subject = "bars" /\ Bars!Next /\ UNCHANGED <<subject, reloadVars>>

Next == ReloadStep \/ BarsStep

\* Only the subject is owed its steps.
Fairness ==
    /\ subject = "reload" => Reload!Fairness
    /\ subject = "bars" => Bars!Fairness

Spec == Init /\ [][Next]_vars /\ Fairness

-----------------------------------------------------------------------------
(* Properties.                                                             *)

\* Every variable has its type.
TypeOK == Reload!TypeOK /\ Bars!TypeOK

\* Whatever the order of saves, commands and late reads, every part shows the
\* running configuration in every section it is rebuilt for (reload.rs:222).
RoutedIsDrawn == Reload!RoutedIsDrawn

\* A file that stops changing is what the panel ends up with, however the events of
\* its saves were drained, dropped or overtaken by a command.
LastSaveWins == subject = "reload" => Reload!LastSaveWins

\* With no sync queued there are as many bars as monitors, whatever bursts,
\* half-arrivals and reloads came before (manager.rs:123).
OneBarEach == Bars!OneBarEach

\* A hidden bar does not come back by itself (manager.rs:251).
ReloadKeepsHidden == Bars!ReloadKeepsHidden

\* The wait for a monitor that never gets a size is bounded (manager.rs:174).
SettlesDown == subject = "bars" => Bars!SettlesDown

-----------------------------------------------------------------------------
(* What the documentation says and the code does not keep.                 *)

\* docs/configuration.md:617, a changed theme needs no widget touched: the strip and
\* the capsule show the palette of the running file.
PaintFollowsTheme == Reload!PaintFollowsTheme

\* docs/configuration.md:618, animations are two switches: the strip moves, or does
\* not, as the running file says.
StripFollowsMotion == Reload!StripFollowsMotion

\* control_panel/mod.rs:105, the clock's panel has "the same component the weather
\* widget's popover mounts": it shows the running [widgets.weather].
ForecastFollowsWeather == Reload!ForecastFollowsWeather

\* reload.rs:293, "hand the changed sections to the services that own them": when all
\* of them have arrived, the services work from the running settings.
ToldTheLast == Reload!ToldTheLast

\* fonts.rs:18, "apply the workaround to every label": with it on, no widget's labels
\* are left at GTK's own sizes.
EveryLabelRestated == Reload!EveryLabelRestated

\* manager.rs:126, "bars for monitors that are still present are left untouched".
PresentIsUntouched == Bars!PresentIsUntouched

\* manager.rs:282, "a bar nobody can find is worse than one nobody asked for": bars
\* are hidden only after a command that hid them.
HiddenWasAsked == Bars!HiddenWasAsked

\* manager.rs:307, a burst reconfigures the bars "from the state the display settled
\* in": with no sync queued, each bar is on a listed object.
OnAListedMonitor == Bars!OnAListedMonitor

-----------------------------------------------------------------------------
(* Small instances.                                                        *)

AllSections == {"bar", "layout", "advanced", "blur", "styling", "colours", "states",
    "typography", "animations", "osd", "workspaces", "clock", "weather", "updates", "audio"}

Base == [s \in AllSections |-> 0]
Changed(s) == [Base EXCEPT ![s] = 1]

\* Files that differ from the first in one section, in that and the layout, and in the
\* font workaround and one widget.
SmallFiles ==
    {Base, [Changed("clock") EXCEPT !["advanced"] = 1]}
        \cup UNION {{Changed(s), [Changed(s) EXCEPT !["layout"] = 1]} : s \in AllSections}
=============================================================================
