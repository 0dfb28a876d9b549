----------------------------- MODULE PanelServices -----------------------------
(***************************************************************************)
(* The services that run by themselves, side by side.  Each is a task that *)
(* shares no state with the others: what they have in common is the panel  *)
(* that starts them, and it is modelled in Wake and Reload.  So every      *)
(* behaviour of their composition is a shuffle of behaviours of each, and  *)
(* none of their properties can tell a shuffle from the behaviour of the   *)
(* service it is about: here one of them, the subject, takes every step.   *)
(***************************************************************************)
EXTENDS Naturals, Sequences, FiniteSets, TLC

CONSTANTS
    Subjects,    \* the services looked at, by name
    None,
    Card,        \* the weather: its places, settings and searches
    Dialog,      \* the weather again, with places to search for
    Market,      \* the assets and the refresh intervals of crypto
    Scripts,     \* the custom widgets, told apart by what they need
    Packages,    \* the sections of the update check
    Inbox,       \* bounds of the mail count
    Login        \* bounds of the inhibitor and of logind

VARIABLES
    subject,
    settings, location, lastGood, phase, due, net, online, request, deferred, backoff, changes,
    dialog, interval, entries, chosen, seed, saved, quotes, view, sent, wanted,
    cPhase, cDue, cRequest, cDeferred, cNet, cOnline, cBackoff, cChanges,
    section, registry, held, tasks, scripts, sNet, sChanges,
    config, busy, shown, queue, unanswered, uDue, uDeferred, uNet, uOnline, uChanges,
    db, step, counted, listed, list, mShown, mAsked,
    life, up, owners, lock, active, answered, calling, iQueue, iAsked

weatherVars ==
    <<settings, location, lastGood, phase, due, net, online, request, deferred, backoff, changes,
      dialog>>
cryptoVars ==
    <<interval, entries, chosen, seed, saved, quotes, view, sent, wanted,
      cPhase, cDue, cRequest, cDeferred, cNet, cOnline, cBackoff, cChanges>>
customVars == <<section, registry, held, tasks, scripts, sNet, sChanges>>
updatesVars ==
    <<config, busy, shown, queue, unanswered, uDue, uDeferred, uNet, uOnline, uChanges>>
notmuchVars == <<db, step, counted, listed, list, mShown, mAsked>>
inhibitorVars == <<life, up, owners, lock, active, answered, calling, iQueue, iAsked>>
vars == <<subject, weatherVars, cryptoVars, customVars, updatesVars, notmuchVars, inhibitorVars>>

-----------------------------------------------------------------------------
\* The weather is looked at twice: its card, and the dialog that chooses the place.
Weather(part) == INSTANCE Weather WITH
    Places <- part.places, Settings <- part.settings, Interval <- part.interval,
    Found <- part.found, Short <- part.short, Unnamed <- part.unnamed,
    ChangeBound <- part.changes

Crypto == INSTANCE Crypto WITH
    Assets <- Market.assets, Intervals <- Market.intervals, ChangeBound <- Market.changes,
    phase <- cPhase, due <- cDue, request <- cRequest, deferred <- cDeferred,
    net <- cNet, online <- cOnline, backoff <- cBackoff, changes <- cChanges

Custom == INSTANCE Custom WITH
    Configs <- Scripts.configs, Repeats <- Scripts.repeats, NeedsNet <- Scripts.needsNet,
    Labelled <- Scripts.labelled, TaskBound <- Scripts.tasks, ChangeBound <- Scripts.changes,
    net <- sNet, changes <- sChanges

Updates == INSTANCE Updates WITH
    Configs <- Packages.configs, Runnable <- Packages.runnable,
    QueueLimit <- Packages.queue, ChangeBound <- Packages.changes,
    due <- uDue, deferred <- uDeferred, net <- uNet, online <- uOnline, changes <- uChanges

Notmuch == INSTANCE Notmuch WITH
    MailBound <- Inbox.changes, AskBound <- Inbox.asks, shown <- mShown, asked <- mAsked

Inhibitor == INSTANCE Inhibitor WITH
    LifeBound <- Login.lives, AskBound <- Login.asks, QueueLimit <- Login.queue,
    queue <- iQueue, asked <- iAsked

ASSUME ConstantsAssumption ==
    /\ Weather(Card)!ConstantsOK /\ Weather(Dialog)!ConstantsOK
    /\ Crypto!ConstantsOK /\ Custom!ConstantsOK /\ Updates!ConstantsOK
    /\ Notmuch!ConstantsOK /\ Inhibitor!ConstantsOK

-----------------------------------------------------------------------------
\* Those that are not looked at stand in one of their first states.
OneOf(S) == CHOOSE x \in S : TRUE

Init ==
    /\ subject \in Subjects
    /\ IF subject = "location" THEN Weather(Dialog)!Init ELSE Weather(Card)!Init
    /\ subject \notin {"weather", "location"} => settings = OneOf(Card.settings)
    /\ subject # "weather" => location = None /\ net
    /\ Crypto!Init
    /\ subject # "crypto" =>
          /\ interval = OneOf(Market.intervals) /\ seed = {OneOf(Market.assets)}
          /\ saved = None /\ cNet
    /\ Custom!Init /\ (subject # "custom" => section = OneOf(Scripts.configs) /\ sNet)
    /\ Updates!Init
    /\ subject # "updates" => config = OneOf(Packages.configs \ Packages.runnable) /\ uNet
    /\ Notmuch!Init /\ (subject # "notmuch" => ~db.unread)
    /\ Inhibitor!Init

WeatherStep ==
    /\ subject = "weather" /\ Weather(Card)!Next
    /\ UNCHANGED <<subject, cryptoVars, customVars, updatesVars, notmuchVars, inhibitorVars>>

LocationStep ==
    /\ subject = "location" /\ Weather(Dialog)!Next
    /\ UNCHANGED <<subject, cryptoVars, customVars, updatesVars, notmuchVars, inhibitorVars>>

CryptoStep ==
    /\ subject = "crypto" /\ Crypto!Next
    /\ UNCHANGED <<subject, weatherVars, customVars, updatesVars, notmuchVars, inhibitorVars>>

CustomStep ==
    /\ subject = "custom" /\ Custom!Next
    /\ UNCHANGED <<subject, weatherVars, cryptoVars, updatesVars, notmuchVars, inhibitorVars>>

UpdatesStep ==
    /\ subject = "updates" /\ Updates!Next
    /\ UNCHANGED <<subject, weatherVars, cryptoVars, customVars, notmuchVars, inhibitorVars>>

NotmuchStep ==
    /\ subject = "notmuch" /\ Notmuch!Next
    /\ UNCHANGED <<subject, weatherVars, cryptoVars, customVars, updatesVars, inhibitorVars>>

InhibitorStep ==
    /\ subject = "inhibitor" /\ Inhibitor!Next
    /\ UNCHANGED <<subject, weatherVars, cryptoVars, customVars, updatesVars, notmuchVars>>

Next == WeatherStep \/ LocationStep \/ CryptoStep \/ CustomStep \/ UpdatesStep \/ NotmuchStep \/ InhibitorStep

Spec == Init /\ [][Next]_vars

\* Only the subject is owed its steps.
Fairness ==
    /\ subject = "weather" => Weather(Card)!Fairness
    /\ subject = "updates" => Updates!Fairness
    /\ subject = "inhibitor" => Inhibitor!Fairness

FairSpec == Spec /\ Fairness

-----------------------------------------------------------------------------
(* Properties.  Those that are not temporal hold of a service that is not  *)
(* looked at too.                                                          *)

\* Every variable has its type.
TypeOK ==
    /\ IF subject = "location" THEN Weather(Dialog)!TypeOK ELSE Weather(Card)!TypeOK
    /\ Crypto!TypeOK /\ Custom!TypeOK /\ Updates!TypeOK /\ Notmuch!TypeOK
    /\ Inhibitor!TypeOK

\* Nothing that is read again and again is read for the last time: whatever came
\* while a request was out, failed, or was offline, another is scheduled, under way,
\* or owed until the network is back; and a failing one is not put off for ever.
KeepsTrying ==
    /\ Weather(Card)!AlwaysAnotherFetch
    /\ IF subject = "location" THEN Weather(Dialog)!LadderIsCapped ELSE Weather(Card)!LadderIsCapped
    /\ Crypto!AlwaysAnotherFetch /\ Custom!AlwaysAnotherRun /\ Updates!AlwaysAnotherCheck

\* What is published is what the task has: prices exactly while there are prices, a
\* placeholder while a script can replace it, "checking" while a check is out, a
\* toggle that is on while a descriptor is held, a mail list that is not older than the
\* count beside it and read again while it is empty under one, and in the location
\* dialog what the last search found.
SnapshotsFit ==
    (subject = "location" => Weather(Dialog)!RowsAreNewest) /\
    Crypto!PhaseFitsPrices /\ Custom!LoadingIsKept /\ Updates!CheckingIsTrue
    /\ Inhibitor!ShownIsHeld /\ Notmuch!ListIsNotOlder /\ Notmuch!EmptyIsReread

\* The running file decides what runs, but loses to a list the user picked, through
\* reloads and restarts in any order.
FileAndChoice == Crypto!ChoiceOutranksSeed /\ Custom!RegistryFollows

\* A failure never takes a reading off the card, and nothing is asked of a network
\* that the task believes is down (weather/mod.rs:19).
QuietWhenItFails ==
    /\ [][Weather(Card)!KeepsReading]_phase
    /\ [][Weather(Card)!AsksOnline]_request

\* Once the world stays up, everything comes right, whatever was under way when it
\* changed: a card that knows where it is shows the place and the settings in force
\* (weather/task.rs:288), a resume gets its check however much is queued with it
\* (updates/task.rs:201), and a toggle that shows on is a lock that logind honours
\* (inhibitor.rs:15).
ComesRight ==
    /\ subject = "weather" => Weather(Card)!ComesRight
    /\ subject = "updates" => Updates!RecheckIsMet
    /\ subject = "inhibitor" => Inhibitor!ActiveIsHonoured

-----------------------------------------------------------------------------
(* What the source says and the code does not keep.                        *)

\* With nothing to run, "the snapshot stays at its default -- unavailable, count
\* zero -- and the card never appears" (updates/task.rs:79).
NothingToShow == Updates!NothingToShow

\* "Every control applies immediately" (crypto/settings.rs:16): once everything sent
\* has arrived and been drawn, every click since has counted.
EveryClickCounts == Crypto!EveryClickCounts

\* A reading kept for another place "would be wrong and look right"
\* (weather/task.rs:288): the card is for the place named above it.
ShownIsForHere == Weather(Card)!ShownIsForHere

\* A text too short to search for "goes quiet" (dialog.rs:333).
ShortIsQuiet == subject = "location" => Weather(Dialog)!ShortIsQuiet

\* Loading is "there is a location" (weather/model.rs:148): the card asks for one
\* exactly while there is none.
AsksWhenNowhere == Weather(Card)!AsksWhenNowhere

\* "Runs never overlap" (custom/task.rs:6): a widget's script runs once at a time.
RunsNeverOverlap == Custom!RunsNeverOverlap

\* "The service ... takes the lock again if it was holding one" (inhibitor.rs:15):
\* what was asked for and granted is held once logind stays up.
StaysAwake == subject = "inhibitor" => Inhibitor!StaysAwake

-----------------------------------------------------------------------------
(* Small instances: enough changes to change something while a request is  *)
(* out, change it back, and have the request fail in between.              *)

\* The shortest interval the configuration takes, and one that stops the ladder between
\* two of its steps.
MCCard ==
    [places |-> {"here", "there"}, settings |-> {"celsius", "fahrenheit"},
     interval |-> "celsius" :> 60 @@ "fahrenheit" :> 300,
     found |-> <<>>, short |-> "p", unnamed |-> [p \in {"here", "there"} |-> p], changes |-> 4]

\* Two searches that find a place each, and a text that is too short.
MCDialog ==
    [places |-> {"Paris", "Oslo", "48N", "59N"}, settings |-> {"celsius"},
     interval |-> "celsius" :> 60, found |-> "pa" :> {"Paris"} @@ "os" :> {"Oslo"}, short |-> "p",
     unnamed |-> "Paris" :> "48N" @@ "Oslo" :> "59N" @@ "48N" :> "48N" @@ "59N" :> "59N",
     changes |-> 3]

MCMarket == [assets |-> {"btc", "eth"}, intervals |-> {60, 300}, changes |-> 3]

\* One script that runs once, one that repeats, and one that needs the network.
MCScripts ==
    [configs |-> {"once", "mail", "price"}, repeats |-> {"mail", "price"},
     needsNet |-> {"price"}, labelled |-> {"mail"}, tasks |-> 2, changes |-> 3]

\* Two sections with something to run, and one without.
MCPackages ==
    [configs |-> {"pacman", "script", "unknown"}, runnable |-> {"pacman", "script"},
     queue |-> 2, changes |-> 4]

MCInbox == [changes |-> 5, asks |-> 2]

MCLogin == [lives |-> 4, asks |-> 4, queue |-> 2]

=============================================================================
