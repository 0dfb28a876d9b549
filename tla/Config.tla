--------------------------------- MODULE Config ---------------------------------
(***************************************************************************)
(* The configuration file: where it is looked for, what is read out of it, *)
(* what is said about the rest, and what of it a running panel goes by.    *)
(*                                                                         *)
(* A document gives some keys a value.  Of a value only its class is kept: *)
(* one that can be used, one of the right type that cannot ("bad"), one of *)
(* the wrong type ("mistyped"), one that this version has its own idea of  *)
(* ("odd").  A key is a pair, of its table and its name.                   *)
(***************************************************************************)
EXTENDS Integers, SequencesExt, FiniteSets, Functions

CONSTANTS
    Xdg, Home,      \* whether XDG_CONFIG_HOME and HOME are set
    Explicit,       \* the place named with --config, or NoOne
    Edited,         \* the tables whose keys the user touches
    Lists,          \* whether the user rearranges the widgets
    Does,           \* part of {"move", "remove", "garble"}
    NoOne,
    MaxMoves, MaxClicks

VARIABLES
    panel,   \* the running panel: its configuration, the file it watches
    world,   \* the files
    wire     \* a change that was noticed, a load that is under way

vars == <<panel, world, wire>>
Now == [panel |-> panel, world |-> world, wire |-> wire]
Become(s) == \E t \in {s} : panel' = t.panel /\ world' = t.world /\ wire' = t.wire

-----------------------------------------------------------------------------
(* The schema: per table, the keys of which any value of the type will do  *)
(* and those that have to pass a check.                                    *)

Keys(free, ruled) == [free |-> free, ruled |-> ruled]
OnClicks == {"on_click", "on_click_right", "on_click_middle"}

Bar == Keys({"spacing", "screen_margin", "inset", "padding", "border_radius", "popover_offset"},
            {"position", "size", "background_color", "background_opacity"})

WidgetsTable == Keys({"border_radius"},
                     {"background_color", "background_opacity", "popover_background_opacity"})

Workspaces == Keys({"animate", "filter_by_output", "show_unoccupied"} \cup OnClicks, {"label_type"})

Clock == Keys({"control_panel", "show_week_numbers"} \cup OnClicks, {"format", "world_clocks"})

Weather == Keys({"tooltip", "max_chars", "show_description"} \cup OnClicks,
                {"latitude", "longitude", "unit", "interval", "forecast_days"})

Crypto == Keys({"tooltip", "max_chars"} \cup OnClicks, {"entries", "interval"})

Notmuch == Keys({"tooltip"} \cup OnClicks, {"query", "interval", "max_items"})

Tray == Keys({"max_icons", "pixmap_icon_size"} \cup OnClicks, {})

\* A word that mic does not know is a wrong type to it: see MicSlider.
QuickSettings ==
    Keys({"network", "bluetooth", "vpn", "idle_inhibitor", "updates", "audio", "mic", "brightness", "power",
          "battery", "battery_health", "resource_overview", "vpn_close_on_connect"} \cup OnClicks,
         {"audio_scroll_percentage"})

SystemMonitor == Keys({"tooltip"} \cup OnClicks, {"cpu_threshold", "memory_threshold", "disk_threshold", "interval"})

Headset == Keys({"tooltip", "max_chars"} \cup OnClicks, {"interval", "command"})

KeyboardLayout == Keys({"show_icon", "show_label"} \cup OnClicks, {"format"})

OsLogo == Keys({"tooltip", "label", "max_chars"} \cup OnClicks, {})

Custom == Keys({"exec", "interval", "tooltip", "max_chars", "requires_network", "icon", "label"} \cup OnClicks,
               {"template"})

Theme == Keys({"animations", "ripple", "blur"}, {"mode", "accent"})
Icons == Keys({"weight"}, {"theme"})
States == Keys({}, {"success", "warning", "urgent"})
Typography == Keys({}, {"font_family"})
Osd == Keys({"enabled", "show_value"}, {"position", "timeout_ms"})
Audio == Keys({"allow_overdrive"}, {})
UpdatesTable == Keys({"update_count_command", "flake"}, {"check_interval"})
Advanced == Keys({"pango_font_rendering"}, {"compositor"})

\* The tables of the widgets, where "custom-a" stands for any that a user makes up; those in
\* [theme]; those at the root.
OfWidgets == {"workspaces", "clock", "weather", "crypto", "notmuch", "tray", "quick_settings", "system_monitor",
              "headset", "keyboard_layout", "os_logo", "custom-a"}
InTheme == {"icons", "states", "typography"}
AtRoot == {"bar", "widgets", "theme", "osd", "audio", "updates", "advanced"}

Schema(t) ==
    CASE t = "bar" -> Bar             [] t = "widgets" -> WidgetsTable  [] t = "workspaces" -> Workspaces
      [] t = "clock" -> Clock         [] t = "weather" -> Weather       [] t = "crypto" -> Crypto
      [] t = "notmuch" -> Notmuch     [] t = "tray" -> Tray             [] t = "headset" -> Headset
      [] t = "os_logo" -> OsLogo      [] t = "custom-a" -> Custom       [] t = "keyboard_layout" -> KeyboardLayout
      [] t = "theme" -> Theme         [] t = "icons" -> Icons           [] t = "quick_settings" -> QuickSettings
      [] t = "states" -> States       [] t = "typography" -> Typography [] t = "system_monitor" -> SystemMonitor
      [] t = "osd" -> Osd             [] t = "audio" -> Audio           [] t = "updates" -> UpdatesTable
      [] t = "advanced" -> Advanced

\* The keys that were given up, by path; and those any widget's table may still hold.
DroppedByPath ==
    {<<"bar", "outputs">>, <<"bar", "outline">>, <<"widgets", "outline">>, <<"widgets", "media">>,
     <<"updates", "terminal">>, <<"clock", "control_panel_weather_widget">>, <<"workspaces", "separator">>}
    \cup {"theme"} \X {"scheme", "wallpaper", "popover", "shadows", "outline", "outline_width", "outline_color",
                       "outline_opacity"}
OfAnyWidget == {"disabled", "show_if", "show_if_interval", "background_color", "outline_color"}
OfCustom == {"image", "position"}

\* Those whose value can still agree with what is done now.
Agreeable == {<<"bar", "outline">>, <<"widgets", "outline">>, <<"theme", "outline">>, <<"theme", "shadows">>}
SilentNoop(key) == key \in Agreeable \cup {<<"bar", "outputs">>} \cup OfWidgets \X {"disabled"}

Why(key) ==
    IF \/ key \in DroppedByPath
       \/ key[1] \in OfWidgets /\ key[2] \in OfAnyWidget
       \/ key[1] = "custom-a" /\ key[2] \in OfCustom
    THEN "dropped" ELSE "unknown"

-----------------------------------------------------------------------------
(* Config::parse.                                                          *)

Known(t) == Schema(t).free \cup Schema(t).ruled
Holds(doc, t, k, classes) == <<t, k>> \in DOMAIN doc.keys /\ doc.keys[<<t, k>>] \in classes

\* take_table: a table that is no table is an error, and read as an empty one.
TableErrors(doc) == {<<t, "itself">> : t \in {u \in AtRoot : Holds(doc, u, "itself", {"mistyped"})}}

\* parse_bar, parse_theme and parse_widgets, before a table is deserialized.
EarlyErrors(doc) ==
    {key \in DOMAIN doc.keys : <<key, doc.keys[key]>> \in {<<<<"bar", "position">>, "odd">>, <<<<"theme", "mode">>, "bad">>,
                                                          <<<<"widgets", "custom-">>, "bad">>}}
TakenOut(doc) ==
    EarlyErrors(doc) \cup {key \in {<<"theme", "mode">>, <<"theme", "accent">>} : Holds(doc, key[1], key[2], {"odd"})}

\* What stays of a table, for theme with the tables in it. In those, and nowhere else, one
\* that is no table is left for deserialize to find.
Whole(t) == IF t \in InTheme THEN "theme" ELSE t
Entries(doc, t) ==
    {key \in DOMAIN doc.keys \ TakenOut(doc) :
        Whole(key[1]) = t /\ key[2] \in Known(key[1]) \cup (IF key[1] # t THEN {"itself"} ELSE {})}

\* The tables there is anything to deserialize for.
Written(doc) == {Whole(key[1]) : key \in DOMAIN doc.keys}

\* deserialize: at the first value of a wrong type the whole table is left at its defaults.
Misfits(doc, t) == {key \in Entries(doc, t) : doc.keys[key] = "mistyped"}
Deserialized(doc, t) == IF Misfits(doc, t) = {} THEN Entries(doc, t) ELSE {}
TypeErrors(doc) == {CHOOSE key \in Misfits(doc, t) : TRUE : t \in {u \in Written(doc) : Misfits(doc, u) # {}}}

\* validate, of what came out; a widget of one's own has to have something to show.
RuleErrors(doc) ==
    {key \in UNION {Deserialized(doc, t) : t \in Written(doc)} : doc.keys[key] = "bad"}
    \cup {<<t, "nothing to show">> : t \in {u \in {"custom-a"} :
            /\ \E key \in DOMAIN doc.keys : key[1] = u /\ key[2] # "itself"
            /\ Deserialized(doc, u) \cap {<<u, k>> : k \in {"exec", "label", "icon"}} = {}}}

\* parse_placements: an item is a name or a group of names, "3" something that is no name.
Sides == {"left", "center", "right"}
Base(word) == IF word = "clock:short" THEN "clock" ELSE word
Words(doc, side) == FlattenSeq([i \in DOMAIN doc.lists[side] |-> doc.lists[side][i].names])
Names(doc, side) == SelectSeq([i \in DOMAIN Words(doc, side) |-> Base(Words(doc, side)[i])],
                              LAMBDA base : base \in OfWidgets)
Default == [left |-> <<"workspaces">>, center |-> <<"clock">>, right |-> <<"tray", "quick_settings">>]
Placements(doc) == [side \in Sides |-> IF side \in DOMAIN doc.lists THEN Names(doc, side) ELSE Default[side]]
ListErrors(doc) ==
    {<<"widgets", side>> : side \in {x \in Sides : Holds(doc, "widgets", x, {"mistyped"})}
                                  \cup {x \in DOMAIN doc.lists : "3" \in ToSet(Words(doc, x))}}
ListWarnings(doc) ==
    {<<"widgets", side>> : side \in {x \in DOMAIN doc.lists :
        \/ \E i \in DOMAIN doc.lists[x] : doc.lists[x][i].group
        \/ \E w \in ToSet(Words(doc, x)) : w # Base(w) \/ w \notin OfWidgets}}

\* retain_known and unknown_key; a widget's table that is none is a key [widgets] lacks.
Strangers(doc) == {key \in DOMAIN doc.keys :
    IF key[2] = "itself" THEN key[1] \in OfWidgets
    ELSE key[2] \notin Known(key[1]) \cup (IF key[1] = "widgets" THEN Sides \cup {"custom-"} ELSE {})}
Unplaced(doc) == {t \in OfWidgets : /\ \E key \in DOMAIN doc.keys : key[1] = t /\ key[2] # "itself"
                                           /\ \A side \in Sides : t \notin ToSet(Placements(doc)[side])}
Warnings(doc) ==
    {[at |-> key, why |-> Why(key)] : key \in {k \in Strangers(doc) : ~(SilentNoop(k) /\ doc.keys[k] = "agrees")}}
    \cup {[at |-> <<t, "itself">>, why |-> "not placed"] : t \in Unplaced(doc)}
    \cup {[at |-> key, why |-> "dropped"] : key \in ListWarnings(doc) \cup (TakenOut(doc) \ EarlyErrors(doc))}

Errors(doc) == TableErrors(doc) \cup EarlyErrors(doc) \cup TypeErrors(doc) \cup RuleErrors(doc) \cup ListErrors(doc)

Values(doc) == [keys |-> Restrict(doc.keys, UNION {Deserialized(doc, t) : t \in Written(doc)}), lists |-> Placements(doc)]

-----------------------------------------------------------------------------
(* Where the file is: chain_from, find_and_load.                           *)

Empty == [there |-> TRUE, toml |-> TRUE, keys |-> <<>>, lists |-> <<>>]
NoFile == [Empty EXCEPT !.there = FALSE]

Places == {"xdg", "home", "xdg-old", "home-old", "cwd"}
Chain == (IF Xdg THEN <<"xdg">> ELSE <<>>) \o (IF Home THEN <<"home">> ELSE <<>>)
         \o (IF Xdg THEN <<"xdg-old">> ELSE <<>>) \o (IF Home THEN <<"home-old">> ELSE <<>>) \o <<"cwd">>
Supersedes(place) == CASE place = "xdg-old" -> "xdg" [] place = "home-old" -> "home" [] OTHER -> NoOne

Found(files) ==
    LET there == SelectSeq(Chain, LAMBDA place : files[place].there)
    IN  IF Explicit # NoOne THEN Explicit ELSE IF there = <<>> THEN NoOne ELSE Head(there)

\* What a load comes to: a failure, or a configuration and what there is to say of it.
Failed == [ok |-> FALSE, values |-> Values(Empty), warnings |-> {}, source |-> NoOne, legacy |-> NoOne]
FindAndLoad(files) ==
    LET place == Found(files)
        doc == IF place = NoOne THEN Empty ELSE files[place]
    IN  IF ~doc.there \/ ~doc.toml \/ Errors(doc) # {} THEN Failed
        ELSE [ok |-> TRUE, values |-> Values(doc), warnings |-> Warnings(doc), source |-> place,
              legacy |-> IF place = NoOne \/ Explicit # NoOne THEN NoOne ELSE Supersedes(place)]

\* read_audio_allow_overdrive, whatever else the file holds.
Overdrive(files) ==
    LET place == Found(files)
    IN  place # NoOne /\ files[place].toml /\ Holds(files[place], "audio", "allow_overdrive", {"good"})

-----------------------------------------------------------------------------
(* The user, and the panel.                                                *)

\* A change of the file that the panel watches is noticed.
Saved(s, place, doc) ==
    [s EXCEPT !.world.files[place] = doc, !.wire.event = @ \/ (s.panel.up /\ s.panel.watched = place)]
Clicked(s) == [s EXCEPT !.world.clicks = @ + 1]
Counted(s) == [s EXCEPT !.world.moves = @ + 1]
Moved(what) == what \in Does /\ world.moves < MaxMoves

Classes(t, k) ==
    CASE k = "itself" -> {"mistyped"}
      [] k \in Schema(t).free -> {"good", "mistyped"}
      [] k \in Schema(t).ruled -> {"good", "bad", "mistyped"}
                                  \cup (IF <<t, k>> \in {<<"bar", "position">>, <<"theme", "mode">>, <<"theme", "accent">>}
                                        THEN {"odd"} ELSE {})
      [] t = "widgets" /\ k \in Sides -> {"mistyped"}
      [] <<t, k>> = <<"widgets", "custom-">> -> {"bad"}
      [] SilentNoop(<<t, k>>) -> {"agrees", "good"}
      [] OTHER -> {"good"}
Writable(t) == Known(t) \cup {"itself", "nonsense"} \cup {key[2] : key \in {d \in DroppedByPath : d[1] = t}}
               \cup (IF t \in OfWidgets THEN OfAnyWidget ELSE {})
               \cup (IF t = "custom-a" THEN OfCustom ELSE {}) \cup (IF t = "widgets" THEN Sides \cup {"custom-"} ELSE {})

\* A table is written once, and in a table.
Parent(t) == IF t \in OfWidgets THEN "widgets" ELSE Whole(t)
Fits(doc, t, k) ==
    /\ k = "itself" => \A key \in DOMAIN doc.keys : t \notin {key[1], Parent(key[1])}
    /\ t = "widgets" /\ k \in Sides \cup {"itself"} => doc.lists = <<>>
    /\ ~Holds(doc, Parent(t), "itself", {"mistyped"})
    /\ k # "itself" => ~Holds(doc, t, "itself", {"mistyped"})

\* The files that the user may have in an editor.
Open == {place \in Places : world.clicks < MaxClicks /\ world.files[place].there /\ world.files[place].toml}

Set ==
    \E place \in Open : \E t \in Edited : \E k \in Writable(t) : \E class \in Classes(t, k) :
        /\ Fits(world.files[place], t, k)
        /\ Become(Saved(Clicked(Now), place, [world.files[place] EXCEPT !.keys = (<<t, k>> :> class) @@ @]))
Unset ==
    \E place \in Places : world.files[place].there /\ \E key \in DOMAIN world.files[place].keys :
        /\ world.clicks < MaxClicks
        /\ Become(Saved(Clicked(Now), place, [world.files[place] EXCEPT !.keys = Restrict(@, DOMAIN @ \ {key})]))

Items == {[group |-> FALSE, names |-> <<w>>] : w \in {"tray", "clock:short", "custom-a", "nope", "3"}}
         \cup {[group |-> TRUE, names |-> ws] : ws \in {<<"weather", "clock">>, <<"clock", "3">>}}
Place ==
    \E place \in Open : \E side \in Sides : \E item \in Items :
        /\ Lists
        /\ \A k \in {side, "itself"} : ~Holds(world.files[place], "widgets", k, {"mistyped"})
        /\ LET doc == world.files[place]
               list == IF side \in DOMAIN doc.lists THEN doc.lists[side] ELSE <<>>
           IN  Become(Saved(Clicked(Now), place, [doc EXCEPT !.lists = (side :> Append(list, item)) @@ @]))

Garble ==
    \E place \in Places :
        /\ Moved("garble") /\ world.files[place].there
        /\ Become(Saved(Counted(Now), place, [Empty EXCEPT !.toml = FALSE]))
Delete ==
    \E place \in Places :
        /\ Moved("remove") /\ world.files[place].there
        /\ Become(Saved(Counted(Now), place, NoFile))
Create ==
    \E place \in ToSet(Chain) :
        /\ world.clicks < MaxClicks /\ ~world.files[place].there
        /\ "move" \in Does \/ panel.watched = place \/ ~panel.up
        /\ Become(Saved(Clicked(Now), place, Empty))

\* "move it to": what the panel says of a file under the old name.
Move ==
    \E place \in ToSet(Chain) :
        /\ Moved("move") /\ world.files[place].there /\ Found(world.files) = place /\ Supersedes(place) # NoOne
        /\ Become(Saved(Saved(Counted(Now), Supersedes(place), world.files[place]), place, NoFile))

Runs(s, load) == [s EXCEPT !.panel.values = load.values, !.panel.source = load.source]

\* main, with or without --strict.
Start ==
    \E strict \in BOOLEAN :
        /\ ~panel.up
        /\ LET load == FindAndLoad(world.files)
               starts == load.ok /\ ~(strict /\ load.warnings # {})
           IN  Become(IF starts THEN Runs([Now EXCEPT !.panel.up = TRUE, !.panel.watched = load.source], load) ELSE Now)

\* Reloader::watch: read on a thread of its own what there is by then, and install it on the
\* main one; a failure leaves everything as it is.
Read ==
    /\ wire.event /\ wire.read = {}
    /\ Become([Now EXCEPT !.wire.event = FALSE, !.wire.read = {FindAndLoad(world.files)}])
Install ==
    \E load \in wire.read :
        Become(IF load.ok THEN Runs([Now EXCEPT !.wire.read = {}], load) ELSE [Now EXCEPT !.wire.read = {}])

\* `topbar reload`
Reload ==
    /\ panel.up
    /\ LET load == FindAndLoad(world.files) IN Become(IF load.ok THEN Runs(Now, load) ELSE Now)

Init ==
    /\ panel = [up |-> FALSE, values |-> Values(Empty), source |-> NoOne, watched |-> NoOne]
    /\ \E place \in ToSet(Chain) :
        world = [files |-> [p \in Places |-> IF p = place THEN Empty ELSE NoFile], moves |-> 0, clicks |-> 0]
    /\ wire = [event |-> FALSE, read |-> {}]

Turn == Read \/ Install
TurnDue == wire.event \/ wire.read # {}
Next == Turn \/ Set \/ Unset \/ Place \/ Garble \/ Delete \/ Create \/ Move \/ Start \/ Reload

Spec == Init /\ [][Next]_vars /\ WF_vars(Turn)

-----------------------------------------------------------------------------
(* Properties.                                                             *)

Documents == {world.files[place] : place \in {p \in Places : world.files[p].there /\ world.files[p].toml}}

\* Nothing a file asks for is left aside in silence: in a file that loads every key is in
\* effect or warned about, unless it asks for what is done anyway.
NothingIsSilent ==
    \A doc \in Documents : Errors(doc) = {} =>
        \A key \in DOMAIN doc.keys \ DOMAIN Values(doc).keys :
            \/ \E w \in Warnings(doc) : w.at = key
            \/ doc.keys[key] = "agrees"

\* Of every table that holds something unusable at least that is said; so a file is mended
\* in as many tries as it has mistakes.
Unusable(doc) == {key \in DOMAIN doc.keys : doc.keys[key] \in IF key = <<"bar", "position">>
                                                             THEN {"bad", "mistyped", "odd"} ELSE {"bad", "mistyped"}}
                 \ Strangers(doc)
EachTableIsNamed ==
    \A doc \in Documents : \A key \in Unusable(doc) : \E e \in Errors(doc) : Whole(e[1]) = Whole(key[1])

\* The panel goes by usable values, whatever it was started with and reloaded since.
RunsTheUsable == \A key \in DOMAIN panel.values.keys : panel.values.keys[key] = "good"

\* With nothing left to read, the panel and the volume keys go by the file that is there now,
\* where it is never anywhere but at the place the panel watches.
Settled == panel.up /\ ~wire.event /\ wire.read = {}
IsCurrent ==
    LET load == FindAndLoad(world.files)
    IN  load.ok => /\ panel.values = load.values
                   /\ Overdrive(world.files) <=> <<"audio", "allow_overdrive">> \in DOMAIN panel.values.keys
QuietIsCurrent == Settled /\ Found(world.files) \in {panel.watched, NoOne} => IsCurrent

\* Moving a file where the panel says it belongs settles the matter, and changes nothing.
AdviceHelps ==
    LET load == FindAndLoad(world.files)
        moved == [world.files EXCEPT ![load.source] = NoFile, ![load.legacy] = world.files[load.source]]
        next == FindAndLoad(moved)
    IN  load.legacy # NoOne => next.ok /\ next.values = load.values /\ next.legacy = NoOne

\* "One run tells you everything" (docs/configuration.md:57, config.rs:416).
OneRunTellsAll == \A doc \in Documents : Unusable(doc) \subseteq Errors(doc)

\* An error is about something the file holds.
ErrorsAreReal == \A doc \in Documents :
    (\E key \in DOMAIN doc.keys : key[1] = "custom-a" /\ key[2] \in {"exec", "label", "icon"} /\ doc.keys[key] = "good")
        => <<"custom-a", "nothing to show">> \notin Errors(doc)

\* What `topbar dump config` prints "parses back to the same configuration"
\* (docs/configuration.md:67).
Dumped == [Empty EXCEPT
    !.keys = Restrict(panel.values.keys, {key \in DOMAIN panel.values.keys : key[1] \notin OfWidgets}),
    !.lists = [side \in Sides |-> [i \in DOMAIN panel.values.lists[side] |->
                                      [group |-> FALSE, names |-> <<panel.values.lists[side][i]>>]]]]
ParsesBack == panel.up => Values(Dumped) = panel.values

\* Saving the file does what `topbar reload` does (docs/configuration.md:601), wherever the
\* file is by then.
SavesAreNoticed == Settled => IsCurrent
=============================================================================
