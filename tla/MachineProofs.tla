---------------------------- MODULE MachineProofs ----------------------------
(***************************************************************************)
(* What is proved of the machine's own: the battery, the headset, the      *)
(* power mode, the capsule, the requests of niri and the backlight.        *)
(***************************************************************************)
EXTENDS PanelLevels, TLAPS, FiniteSetTheorems, WellFoundedInduction

-----------------------------------------------------------------------------
(* The battery.                                                            *)

Presets(part) == {part.whole, part.limited}

\* The pairs the kernel takes.
Limits(part) == {pair \in Nat \X Nat : pair[1] < pair[2] /\ pair[2] <= part.hundred}

BatteryShape(part) ==
    /\ DOMAIN panel = {"doing", "read", "state", "asked", "writes", "pending", "answer", "probed", "due", "card"}
    /\ DOMAIN world = {"battery", "limit", "charge", "upower", "untold", "asked", "touched", "moves", "clicks"}
    /\ DOMAIN wire = {"sent", "signal"}
    /\ world.limit \in Limits(part)
    /\ \A c \in wire.sent : c.pair \in Presets(part)
    /\ panel.doing \in {"nothing", "write", "upower", "kernel", "join"}

\* What the user and the kernel did, and nobody else.
Undisturbed == world.touched \subseteq {"ui", "charge", "fail"}

\* Of a limit that is being written one half is to come, or both in the order that is taken.
Half(i) == [file |-> i, to |-> panel.asked[i]]
Halfway(part) ==
    \/ panel.writes = Battery(part)!OrderedWrites(panel.asked, world.limit[2])
    \/ panel.writes = <<Half(1)>> /\ world.limit[2] = panel.asked[2]
    \/ panel.writes = <<Half(2)>> /\ world.limit[1] = panel.asked[1]

AskedInv(part) ==
    /\ panel.doing = "nothing" => panel.asked = NoOne
    /\ panel.doing \in {"write", "upower"} => panel.asked \in Presets(part)
    /\ panel.asked # NoOne => panel.asked = world.asked
    /\ panel.doing = "write" =>
          panel.writes \in {<<Half(1)>>, <<Half(2)>>, <<Half(1), Half(2)>>, <<Half(2), Half(1)>>}
    /\ panel.doing = "write" /\ Undisturbed => Halfway(part)

\* What was asked for is done, through the files as it was asked.
Done(part) ==
    /\ Battery(part)!Limited(world.limit) = Battery(part)!Limited(world.asked)
    /\ (part.files /\ part.writable /\ "fail" \notin world.touched) => (world.limit = world.asked)

SaidInv(part) ==
    Undisturbed =>
        /\ panel.probed => world.battery
        /\ panel.doing = "upower" /\ part.files /\ part.writable /\ "fail" \notin world.touched => ~world.battery
        /\ panel.doing \in {"kernel", "join"} /\ panel.asked # NoOne /\ panel.pending = TRUE => Done(part)
        /\ panel.doing \in {"nothing", "kernel", "join"} /\ panel.asked = NoOne /\ panel.answer = TRUE => Done(part)

CardInv(part) ==
    /\ ~panel.due => panel.card = panel.state
    /\ panel.doing = "join" /\ ~world.untold => panel.read = Battery(part)!Kernel(world)
    /\ panel.doing = "nothing" /\ ~wire.signal /\ ~world.untold =>
          panel.state = Battery(part)!Joined(world, Battery(part)!Kernel(world), panel.probed)

BatteryInv(part) == BatteryShape(part) /\ AskedInv(part) /\ SaidInv(part) /\ CardInv(part)

LEMMA PresetsAreLimits ==
    ASSUME NEW part, Battery(part)!ConstantsOK
    PROVE  Presets(part) \subseteq Limits(part)
BY DEF Presets, Limits, Battery!ConstantsOK, Battery!Takes

LEMMA BatteryPromises ==
    ASSUME NEW part, Battery(part)!ConstantsOK, BatteryInv(part)
    PROVE  Battery(part)!QuietIsCurrent /\ Battery(part)!SaidIsDone /\ Battery(part)!NeverCrossed
<1>1. Battery(part)!QuietIsCurrent
  BY DEF BatteryInv, BatteryShape, CardInv, Battery!QuietIsCurrent, Battery!Rest, Battery!TurnDue, Battery!LoopDue
<1>2. Battery(part)!SaidIsDone
  BY DEF BatteryInv, AskedInv, SaidInv, Done, Undisturbed,
         Battery!SaidIsDone, Battery!Rest, Battery!TurnDue, Battery!LoopDue
<1>3. Battery(part)!NeverCrossed
  <2> SUFFICES ASSUME panel.doing = "write", Undisturbed
               PROVE  Battery(part)!Takes([world.limit EXCEPT ![Head(panel.writes).file] = Head(panel.writes).to])
    BY DEF Battery!NeverCrossed, Undisturbed
  <2>1. Halfway(part) /\ panel.asked \in Limits(part) /\ world.limit \in Limits(part)
    BY PresetsAreLimits DEF BatteryInv, AskedInv, BatteryShape
  <2> QED BY <2>1 DEF Halfway, Half, Limits, Battery!OrderedWrites, Battery!Takes
<1> QED BY <1>1, <1>2, <1>3

LEMMA BatteryStarts ==
    ASSUME NEW part, Battery(part)!ConstantsOK, Battery(part)!Init
    PROVE  BatteryInv(part)
<1>1. BatteryShape(part)
  BY PresetsAreLimits DEF BatteryShape, Presets, Battery!Init
<1>2. AskedInv(part)
  BY DEF AskedInv, Battery!Init
<1>3. SaidInv(part)
  BY DEF SaidInv, Battery!Init, Battery!ConstantsOK
<1>4. CardInv(part)
  BY DEF CardInv, Battery!Init
<1> QED BY <1>1, <1>2, <1>3, <1>4 DEF BatteryInv

LEMMA BatteryTakesCommand ==
    ASSUME NEW part, Battery(part)!ConstantsOK, BatteryInv(part), Battery(part)!TakeCommand
    PROVE  BatteryInv(part)'
<1> DEFINE s(c) == [Battery(part)!Now EXCEPT !.wire.sent = @ \ {c}, !.panel.asked = c.pair, !.world.asked = c.pair]
           files == world.battery /\ part.files /\ part.writable
           to(c) == IF files
                    THEN [s(c) EXCEPT !.panel.doing = "write",
                                      !.panel.writes = Battery(part)!OrderedWrites(c.pair, world.limit[2])]
                    ELSE [s(c) EXCEPT !.panel.doing = "upower"]
<1>1. \A c \in wire.sent : Battery(part)!Validate(c.pair)
  BY DEF BatteryInv, BatteryShape, Presets, Battery!Validate, Battery!ConstantsOK
<1>2. PICK c \in wire.sent : Battery(part)!Become(to(c))
  BY <1>1 DEF Battery!TakeCommand
<1>3. panel' = to(c).panel /\ world' = to(c).world /\ wire' = to(c).wire
  BY <1>2 DEF Battery!Become
<1>4. c.pair \in Presets(part) /\ panel.doing = "nothing"
  BY DEF Battery!TakeCommand, BatteryInv, BatteryShape
<1>5. /\ DOMAIN panel' = DOMAIN panel /\ DOMAIN world' = DOMAIN world /\ DOMAIN wire' = DOMAIN wire
      /\ wire'.sent \subseteq wire.sent
      /\ panel'.asked = c.pair /\ world'.asked = c.pair
      /\ panel'.probed = panel.probed /\ panel'.due = panel.due /\ panel'.state = panel.state
      /\ panel'.card = panel.card
      /\ world'.battery = world.battery /\ world'.limit = world.limit /\ world'.touched = world.touched
      /\ \/ /\ files /\ panel'.doing = "write"
            /\ panel'.writes = Battery(part)!OrderedWrites(c.pair, world.limit[2])
         \/ ~files /\ panel'.doing = "upower"
  <2>1. CASE files
    BY <1>3, <2>1 DEF Battery!Now, BatteryInv, BatteryShape
  <2>2. CASE ~files
    BY <1>3, <2>2 DEF Battery!Now, BatteryInv, BatteryShape
  <2> QED BY <2>1, <2>2
<1> HIDE DEF s, to
<1>6. BatteryShape(part)'
  BY <1>4, <1>5 DEF BatteryInv, BatteryShape
<1>7. AskedInv(part)'
  BY <1>4, <1>5 DEF BatteryInv, BatteryShape, AskedInv, Halfway, Half, Undisturbed, Battery!OrderedWrites
<1>8. SaidInv(part)'
  <2>1. panel'.doing = "upower" /\ part.files /\ part.writable => ~world'.battery
    BY <1>5
  <2> QED BY <1>4, <1>5, <2>1 DEF BatteryInv, SaidInv, Undisturbed
<1>9. CardInv(part)'
  BY <1>4, <1>5 DEF BatteryInv, CardInv
<1> QED BY <1>6, <1>7, <1>8, <1>9 DEF BatteryInv

LEMMA TwoOrOne ==
    ASSUME NEW a, NEW b, NEW s \in {<<a>>, <<b>>, <<a, b>>, <<b, a>>}, Len(s) > 1
    PROVE  \/ s = <<a, b>> /\ Head(s) = a /\ Tail(s) = <<b>>
           \/ s = <<b, a>> /\ Head(s) = b /\ Tail(s) = <<a>>
<1>1. Len(<<a>>) = 1
  OBVIOUS
<1>2. Len(<<b>>) = 1
  OBVIOUS
<1>3. s # <<a>> /\ s # <<b>>
  BY <1>1, <1>2
<1>4. s = <<a, b>> \/ s = <<b, a>>
  BY <1>3, Zenon
<1>5. Head(<<a, b>>) = a /\ Head(<<b, a>>) = b
  OBVIOUS
<1>6. Tail(<<a, b>>) = <<b>>
  OBVIOUS
<1>7. Tail(<<b, a>>) = <<a>>
  OBVIOUS
<1> QED BY <1>4, <1>5, <1>6, <1>7, Zenon

LEMMA BatteryWrites ==
    ASSUME NEW part, Battery(part)!ConstantsOK, BatteryInv(part), Battery(part)!WriteFile
    PROVE  BatteryInv(part)'
<1> DEFINE w == Head(panel.writes)
           new == [world.limit EXCEPT ![w.file] = w.to]
           done == [Battery(part)!Now EXCEPT !.world.limit = new, !.panel.writes = Tail(@)]
           refused == [Battery(part)!Now EXCEPT !.panel.doing = "upower", !.panel.writes = <<>>]
           failed == [refused EXCEPT !.world.moves = @ + 1, !.world.touched = @ \cup {"fail"}]
           takes == world.battery /\ Battery(part)!Takes(new)
<1>1. panel.doing = "write" /\ panel.asked \in Presets(part)
  BY DEF Battery!WriteFile, BatteryInv, AskedInv
<1>2. \/ Battery(part)!Become(IF ~world.battery \/ ~Battery(part)!Takes(new) THEN refused
                              ELSE IF Len(panel.writes) > 1 THEN done
                              ELSE Battery(part)!Settled(done, TRUE))
      \/ "fail" \in part.does /\ Battery(part)!Become(failed)
  BY DEF Battery!WriteFile
<1>3. /\ DOMAIN panel' = DOMAIN panel /\ DOMAIN world' = DOMAIN world /\ wire' = wire
      /\ panel'.asked = panel.asked /\ world'.asked = world.asked
      /\ panel'.probed = panel.probed /\ panel'.due = panel.due /\ panel'.state = panel.state
      /\ panel'.card = panel.card /\ world'.battery = world.battery
      /\ \/ /\ takes /\ Len(panel.writes) > 1 /\ world'.limit = new /\ world'.touched = world.touched
            /\ panel'.doing = "write" /\ panel'.writes = Tail(panel.writes)
         \/ /\ takes /\ ~(Len(panel.writes) > 1) /\ world'.limit = new /\ world'.touched = world.touched
            /\ panel'.doing = "kernel"
         \/ ~takes /\ world'.limit = world.limit /\ world'.touched = world.touched /\ panel'.doing = "upower"
         \/ world'.limit = world.limit /\ world'.touched = world.touched \cup {"fail"} /\ panel'.doing = "upower"
  <2>1. CASE Battery(part)!Become(failed)
    <3>1. panel' = failed.panel /\ world' = failed.world /\ wire' = failed.wire
      BY <2>1 DEF Battery!Become
    <3> QED BY <1>1, <2>1, <3>1 DEF Battery!Now, BatteryInv, BatteryShape
  <2>2. CASE Battery(part)!Become(refused) /\ ~takes
    <3>1. panel' = refused.panel /\ world' = refused.world /\ wire' = refused.wire
      BY <2>2 DEF Battery!Become
    <3> QED BY <1>1, <2>2, <3>1 DEF Battery!Now, BatteryInv, BatteryShape
  <2>3. CASE Battery(part)!Become(done) /\ Len(panel.writes) > 1 /\ takes
    <3>1. panel' = done.panel /\ world' = done.world /\ wire' = done.wire
      BY <2>3 DEF Battery!Become
    <3> QED BY <1>1, <2>3, <3>1 DEF Battery!Now, BatteryInv, BatteryShape
  <2>4. CASE Battery(part)!Become(Battery(part)!Settled(done, TRUE)) /\ ~(Len(panel.writes) > 1) /\ takes
    <3>1. /\ panel' = Battery(part)!Settled(done, TRUE).panel
          /\ world' = Battery(part)!Settled(done, TRUE).world
          /\ wire' = Battery(part)!Settled(done, TRUE).wire
      BY <2>4 DEF Battery!Become
    <3>2. world' = done.world /\ wire' = done.wire
      BY <3>1 DEF Battery!Settled, Battery!Reads, Battery!Now
    <3>3. panel' = [done.panel EXCEPT !.doing = "kernel", !.pending = TRUE, !.writes = <<>>]
      BY <3>1 DEF Battery!Settled, Battery!Reads, Battery!Now
    <3>4. world' = [world EXCEPT !.limit = new] /\ wire' = wire /\ done.panel = [panel EXCEPT !.writes = Tail(@)]
      BY <3>2 DEF Battery!Now
    <3> HIDE DEF done, new
    <3>5. /\ DOMAIN panel' = DOMAIN panel
          /\ panel'.asked = panel.asked
          /\ panel'.probed = panel.probed /\ panel'.due = panel.due /\ panel'.state = panel.state
          /\ panel'.card = panel.card /\ panel'.doing = "kernel"
      BY <3>3, <3>4 DEF BatteryInv, BatteryShape
    <3> QED BY <2>4, <3>4, <3>5 DEF BatteryInv, BatteryShape
  <2> QED BY <1>2, <2>1, <2>2, <2>3, <2>4
<1>4. takes => new \in Limits(part)
  <2>1. panel.asked \in Limits(part) /\ world.limit \in Limits(part)
    BY <1>1, PresetsAreLimits DEF BatteryInv, BatteryShape
  <2>2. w \in {Half(1), Half(2)}
    BY <1>1 DEF BatteryInv, AskedInv
  <2>3. (w.file = 1 /\ w.to = panel.asked[1]) \/ (w.file = 2 /\ w.to = panel.asked[2])
    BY <2>2 DEF Half
  <2>4. new \in Nat \X Nat /\ new[2] <= part.hundred
    BY <2>1, <2>3 DEF Limits
  <2> QED BY <2>4 DEF Limits, Battery!Takes
<1>5. BatteryShape(part)'
  BY <1>3, <1>4 DEF BatteryInv, BatteryShape
<1> HIDE DEF done, failed, refused
<1>6. panel.doing = "write" /\ Undisturbed => takes \/ ~world.battery
  BY BatteryPromises DEF Battery!NeverCrossed, Undisturbed
<1>7. AskedInv(part)'
  <2>1. CASE panel'.doing = "write"
    <3>1. /\ takes /\ Len(panel.writes) > 1 /\ world'.limit = new /\ world'.touched = world.touched
          /\ panel'.writes = Tail(panel.writes)
      BY <1>3, <2>1
    <3>2. /\ panel.asked = world.asked /\ panel.asked[1] \in Nat /\ panel.asked[2] \in Nat
          /\ world.limit \in Nat \X Nat
      <4>1. panel.asked # NoOne
        BY <1>1 DEF Presets, Battery!ConstantsOK
      <4> QED BY <1>1, <4>1, PresetsAreLimits DEF BatteryInv, BatteryShape, Limits, AskedInv
    <3>3. \/ panel.writes = <<Half(1), Half(2)>> /\ w = Half(1) /\ panel'.writes = <<Half(2)>>
          \/ panel.writes = <<Half(2), Half(1)>> /\ w = Half(2) /\ panel'.writes = <<Half(1)>>
      <4>1. panel.writes \in {<<Half(1)>>, <<Half(2)>>, <<Half(1), Half(2)>>, <<Half(2), Half(1)>>}
        BY <1>1 DEF BatteryInv, AskedInv
      <4>2. Len(panel.writes) > 1 /\ panel'.writes = Tail(panel.writes)
        BY <3>1
      <4>3. \/ /\ panel.writes = <<Half(1), Half(2)>> /\ Head(panel.writes) = Half(1)
               /\ Tail(panel.writes) = <<Half(2)>>
            \/ /\ panel.writes = <<Half(2), Half(1)>> /\ Head(panel.writes) = Half(2)
               /\ Tail(panel.writes) = <<Half(1)>>
        <5> HIDE DEF w, new, takes
        <5> DEFINE a == Half(1)
                   b == Half(2)
                   s == panel.writes
        <5>1. s \in {<<a>>, <<b>>, <<a, b>>, <<b, a>>} /\ Len(s) > 1
          BY <4>1, <4>2
        <5> HIDE DEF a, b, s
        <5>2. \/ s = <<a, b>> /\ Head(s) = a /\ Tail(s) = <<b>>
              \/ s = <<b, a>> /\ Head(s) = b /\ Tail(s) = <<a>>
          BY ONLY <5>1, TwoOrOne
        <5> QED BY <5>2 DEF a, b, s
      <4> QED BY <4>2, <4>3
    <3>4. Half(1)' = Half(1) /\ Half(2)' = Half(2)
      BY <1>3 DEF Half
    <3>5. w = Half(1) => new[1] = panel.asked[1] /\ new[2] = world.limit[2]
      BY <3>2 DEF Half
    <3>6. w = Half(2) => new[2] = panel.asked[2] /\ new[1] = world.limit[1]
      BY <3>2 DEF Half
    <3>7. Halfway(part)'
      BY <1>3, <3>1, <3>3, <3>4, <3>5, <3>6 DEF Halfway
    <3> QED BY <1>1, <1>3, <3>2, <3>3, <3>4, <3>7 DEF AskedInv
  <2>2. CASE panel'.doing # "write"
    BY <1>1, <1>3, <2>2 DEF BatteryInv, AskedInv
  <2> QED BY <2>1, <2>2
<1>8. SaidInv(part)'
  <2>1. CASE panel'.doing = "kernel"
    <3>1. takes /\ ~(Len(panel.writes) > 1) /\ world'.limit = new /\ world'.touched = world.touched
      BY <1>3, <2>1
    <3>2. panel.asked \in Nat \X Nat /\ world.limit \in Nat \X Nat /\ world'.asked = panel.asked
      <4>1. panel.asked # NoOne
        BY <1>1 DEF Presets, Battery!ConstantsOK
      <4> QED BY <1>1, <1>3, <4>1, PresetsAreLimits DEF BatteryInv, BatteryShape, Limits, AskedInv
    <3>3. Undisturbed => new = panel.asked
      <4> SUFFICES ASSUME Undisturbed PROVE new = panel.asked
        OBVIOUS
      <4>1. \/ panel.writes = <<Half(1)>> /\ world.limit[2] = panel.asked[2]
            \/ panel.writes = <<Half(2)>> /\ world.limit[1] = panel.asked[1]
        BY <1>1, <3>1 DEF BatteryInv, AskedInv, Halfway, Battery!OrderedWrites
      <4>2. new \in Nat \X Nat /\ new[1] = panel.asked[1] /\ new[2] = panel.asked[2]
        BY <3>2, <4>1 DEF Half
      <4> QED BY <3>2, <4>2
    <3>4. Undisturbed' => Done(part)'
      BY <1>3, <3>1, <3>2, <3>3 DEF Undisturbed, Done, Battery!Limited
    <3> QED BY <1>1, <1>3, <2>1, <3>1, <3>4 DEF BatteryInv, SaidInv, Undisturbed
  <2>2. CASE panel'.doing # "kernel"
    BY <1>1, <1>3, <1>6, <2>2 DEF BatteryInv, AskedInv, SaidInv, Undisturbed
  <2> QED BY <2>1, <2>2
<1>9. CardInv(part)'
  BY <1>3 DEF BatteryInv, CardInv
<1> QED BY <1>5, <1>7, <1>8, <1>9 DEF BatteryInv

LEMMA BatteryAsksUpower ==
    ASSUME NEW part, Battery(part)!ConstantsOK, BatteryInv(part), Battery(part)!AskUpower
    PROVE  BatteryInv(part)'
<1> DEFINE set == [Battery(part)!Now EXCEPT !.world.limit = IF Battery(part)!Limited(panel.asked) THEN part.limited
                                                            ELSE <<0, part.hundred>>]
           cannot == ~panel.probed \/ ~world.upower \/ ~part.supported
           no == Battery(part)!Settled(Battery(part)!Now, FALSE)
           yes == Battery(part)!Settled(set, TRUE)
<1>1. panel.doing = "upower" /\ panel.asked \in Presets(part)
  BY DEF Battery!AskUpower, BatteryInv, AskedInv
<1>2. Battery(part)!Become(IF cannot THEN no ELSE yes)
  BY DEF Battery!AskUpower
<1>3. /\ DOMAIN panel' = DOMAIN panel /\ DOMAIN world' = DOMAIN world /\ wire' = wire
      /\ panel'.asked = panel.asked /\ world'.asked = world.asked
      /\ panel'.probed = panel.probed /\ panel'.due = panel.due /\ panel'.state = panel.state
      /\ panel'.card = panel.card /\ world'.battery = world.battery
      /\ world'.touched = world.touched /\ panel'.doing = "kernel" /\ panel'.answer = panel.answer
      /\ \/ world'.limit = world.limit /\ panel'.pending = FALSE
         \/ /\ panel.probed
            /\ world'.limit = IF Battery(part)!Limited(panel.asked) THEN part.limited ELSE <<0, part.hundred>>
  <2>1. CASE cannot
    <3>1. panel' = no.panel /\ world' = no.world /\ wire' = no.wire
      BY <1>2, <2>1 DEF Battery!Become
    <3> QED BY <3>1 DEF Battery!Settled, Battery!Reads, Battery!Now, BatteryInv, BatteryShape
  <2>2. CASE ~cannot
    <3>1. panel' = yes.panel /\ world' = yes.world /\ wire' = yes.wire
      BY <1>2, <2>2 DEF Battery!Become
    <3>2. world' = set.world /\ wire' = wire
      BY <3>1 DEF Battery!Settled, Battery!Reads, Battery!Now
    <3>3. panel' = [panel EXCEPT !.doing = "kernel", !.pending = TRUE, !.writes = <<>>]
      BY <3>1 DEF Battery!Settled, Battery!Reads, Battery!Now
    <3>4. world' = [world EXCEPT !.limit = IF Battery(part)!Limited(panel.asked) THEN part.limited
                                           ELSE <<0, part.hundred>>]
      BY <3>2 DEF Battery!Now
    <3> QED BY <2>2, <3>2, <3>3, <3>4 DEF BatteryInv, BatteryShape
  <2> QED BY <2>1, <2>2
<1> HIDE DEF no, yes, set
<1>4. BatteryShape(part)'
  <2>1. part.limited \in Limits(part)
    BY PresetsAreLimits DEF Presets
  <2>2. <<0, part.hundred>> \in Limits(part)
    BY DEF Limits, Battery!ConstantsOK
  <2> QED BY <1>3, <2>1, <2>2 DEF BatteryInv, BatteryShape
<1>5. AskedInv(part)'
  BY <1>1, <1>3 DEF BatteryInv, AskedInv
<1>6. SaidInv(part)'
  <2> SUFFICES ASSUME Undisturbed'
               PROVE  /\ panel'.probed => world'.battery
                      /\ panel'.asked # NoOne /\ panel'.pending = TRUE => Done(part)'
                      /\ panel'.asked = NoOne /\ panel'.answer = TRUE => Done(part)'
    BY <1>3 DEF SaidInv
  <2>1. Undisturbed
    BY <1>3 DEF Undisturbed
  <2>2. panel.asked # NoOne /\ panel.asked = world.asked
    BY <1>1 DEF Presets, Battery!ConstantsOK, BatteryInv, AskedInv
  <2>3. panel.probed => world.battery
    BY <2>1 DEF BatteryInv, SaidInv
  <2>4. CASE world'.limit = world.limit /\ panel'.pending = FALSE
    BY <1>3, <2>2, <2>3, <2>4
  <2>5. CASE /\ panel.probed
             /\ world'.limit = IF Battery(part)!Limited(panel.asked) THEN part.limited ELSE <<0, part.hundred>>
    <3>1. (part.files /\ part.writable) => "fail" \in world.touched
      BY <1>1, <2>1, <2>3, <2>5 DEF BatteryInv, SaidInv
    <3>2. Battery(part)!Limited(part.limited) /\ ~Battery(part)!Limited(<<0, part.hundred>>)
      BY DEF Battery!ConstantsOK, Battery!Limited
    <3>3. Battery(part)!Limited(world'.limit) = Battery(part)!Limited(world'.asked)
      <4>1. CASE Battery(part)!Limited(panel.asked)
        BY <1>3, <2>2, <2>5, <3>2, <4>1 DEF Battery!Limited
      <4>2. CASE ~Battery(part)!Limited(panel.asked)
        BY <1>3, <2>2, <2>5, <3>2, <4>2 DEF Battery!Limited
      <4> QED BY <4>1, <4>2
    <3>4. Done(part)'
      BY <1>3, <3>1, <3>3 DEF Done, Battery!Limited
    <3> QED BY <1>3, <2>3, <3>4
  <2> QED BY <1>3, <2>4, <2>5
<1>7. CardInv(part)'
  BY <1>3 DEF BatteryInv, CardInv
<1> QED BY <1>4, <1>5, <1>6, <1>7 DEF BatteryInv

LEMMA BatteryReadsKernel ==
    ASSUME NEW part, Battery(part)!ConstantsOK, BatteryInv(part), Battery(part)!ReadKernel
    PROVE  BatteryInv(part)'
<1>1. /\ panel.doing = "kernel" /\ wire' = wire
      /\ panel' = [panel EXCEPT !.doing = "join", !.read = Battery(part)!Kernel(world)]
      /\ world' = [world EXCEPT !.untold = FALSE]
  BY DEF Battery!ReadKernel, Battery!Become, Battery!Now
<1>2. Battery(part)!Kernel(world)' = Battery(part)!Kernel(world)
  BY <1>1 DEF BatteryInv, BatteryShape, Battery!Kernel
<1>3. BatteryShape(part)'
  BY <1>1 DEF BatteryInv, BatteryShape
<1>4. AskedInv(part)'
  BY <1>1 DEF BatteryInv, BatteryShape, AskedInv
<1>5. SaidInv(part)'
  BY <1>1 DEF BatteryInv, BatteryShape, AskedInv, SaidInv, Undisturbed, Done, Battery!Limited
<1>6. CardInv(part)'
  BY <1>1, <1>2 DEF BatteryInv, BatteryShape, CardInv
<1> QED BY <1>3, <1>4, <1>5, <1>6 DEF BatteryInv

LEMMA BatteryReadsUpower ==
    ASSUME NEW part, Battery(part)!ConstantsOK, BatteryInv(part), Battery(part)!ReadUpower
    PROVE  BatteryInv(part)'
<1> DEFINE next == Battery(part)!Joined(world, panel.read, panel.probed)
           t == [Battery(part)!Now EXCEPT !.panel.doing = "nothing", !.panel.read = NoOne, !.panel.asked = NoOne,
                     !.panel.answer = IF panel.asked = NoOne THEN @ ELSE panel.pending]
           u == [t EXCEPT !.panel.state = next, !.panel.due = TRUE]
<1>1. panel.doing = "join" /\ Battery(part)!Become(IF next = panel.state THEN t ELSE u)
  BY DEF Battery!ReadUpower, Battery!Publish, Battery!Now
<1>2. /\ wire' = wire /\ world' = world
      /\ DOMAIN panel' = DOMAIN panel
      /\ panel'.doing = "nothing" /\ panel'.asked = NoOne /\ panel'.probed = panel.probed
      /\ panel'.state = next /\ panel'.card = panel.card
      /\ panel'.due \/ (panel'.due = panel.due /\ next = panel.state)
      /\ panel'.answer = IF panel.asked = NoOne THEN panel.answer ELSE panel.pending
  <2>1. CASE next = panel.state
    <3>1. panel' = t.panel /\ world' = t.world /\ wire' = t.wire
      BY <1>1, <2>1 DEF Battery!Become
    <3> HIDE DEF next
    <3> QED BY <2>1, <3>1 DEF Battery!Now, BatteryInv, BatteryShape
  <2>2. CASE next # panel.state
    <3>1. panel' = u.panel /\ world' = u.world /\ wire' = u.wire
      BY <1>1, <2>2 DEF Battery!Become
    <3> HIDE DEF next
    <3> QED BY ZenonT(60), <2>2, <3>1 DEF Battery!Now, BatteryInv, BatteryShape
  <2> QED BY <2>1, <2>2
<1> HIDE DEF t, u
<1>3. BatteryShape(part)'
  BY <1>2 DEF BatteryInv, BatteryShape
<1>4. AskedInv(part)'
  BY <1>2 DEF BatteryInv, AskedInv
<1>5. SaidInv(part)'
  BY <1>1, <1>2 DEF BatteryInv, AskedInv, SaidInv, Undisturbed, Done, Battery!Limited
<1>6. CardInv(part)'
  <2>1. ~panel'.due => panel'.card = panel'.state
    BY <1>2 DEF BatteryInv, CardInv
  <2>2. ~world.untold => panel.read = Battery(part)!Kernel(world)
    BY <1>1 DEF BatteryInv, CardInv
  <2>3. (Battery(part)!Joined(world, Battery(part)!Kernel(world), panel.probed))'
          = Battery(part)!Joined(world, Battery(part)!Kernel(world), panel.probed)
    BY <1>2 DEF Battery!Joined, Battery!Kernel
  <2> QED BY <1>2, <2>1, <2>2, <2>3 DEF CardInv
<1> QED BY <1>3, <1>4, <1>5, <1>6 DEF BatteryInv

\* A signal or the clock has everything read again.
LEMMA BatteryLooks ==
    ASSUME NEW part, Battery(part)!ConstantsOK, BatteryInv(part), Battery(part)!TakeSignal \/ Battery(part)!Poll
    PROVE  BatteryInv(part)'
<1>1. /\ panel.doing = "nothing" /\ panel' = [panel EXCEPT !.doing = "kernel"] /\ world' = world
      /\ DOMAIN wire' = DOMAIN wire /\ wire'.sent = wire.sent
  <2>1. CASE Battery(part)!TakeSignal
    <3> DEFINE s == [Battery(part)!Now EXCEPT !.wire.signal = FALSE]
    <3>1. panel.doing = "nothing" /\ Battery(part)!Become(Battery(part)!Reads(s))
      BY <2>1 DEF Battery!TakeSignal
    <3>2. /\ panel' = Battery(part)!Reads(s).panel /\ world' = Battery(part)!Reads(s).world
          /\ wire' = Battery(part)!Reads(s).wire
      BY <3>1 DEF Battery!Become
    <3>3. panel' = [panel EXCEPT !.doing = "kernel"] /\ world' = world /\ wire' = [wire EXCEPT !.signal = FALSE]
      BY <3>2 DEF Battery!Reads, Battery!Now
    <3> QED BY <3>1, <3>3 DEF BatteryInv, BatteryShape
  <2>2. CASE Battery(part)!Poll
    BY <2>2 DEF Battery!Poll, Battery!Reads, Battery!Become, Battery!Now, BatteryInv, BatteryShape
  <2> QED BY <2>1, <2>2
<1>2. BatteryShape(part)'
  BY <1>1 DEF BatteryInv, BatteryShape
<1>3. AskedInv(part)'
  BY <1>1 DEF BatteryInv, BatteryShape, AskedInv
<1>4. SaidInv(part)'
  BY <1>1 DEF BatteryInv, BatteryShape, AskedInv, SaidInv, Undisturbed, Done, Battery!Limited
<1>5. CardInv(part)'
  BY <1>1 DEF BatteryInv, BatteryShape, CardInv
<1> QED BY <1>2, <1>3, <1>4, <1>5 DEF BatteryInv

\* Whatever the machine does by itself is signalled or not told at all, and is not the user's.
LEMMA BatteryMachine ==
    ASSUME NEW part, Battery(part)!ConstantsOK, BatteryInv(part),
           Battery(part)!Charges \/ Battery(part)!Retuned \/ Battery(part)!Daemon \/ Battery(part)!Swapped
    PROVE  BatteryInv(part)'
<1>1. /\ panel' = panel /\ DOMAIN world' = DOMAIN world /\ DOMAIN wire' = DOMAIN wire
      /\ wire'.sent = wire.sent /\ world'.asked = world.asked /\ world'.limit \in Limits(part)
      /\ \/ /\ ~Undisturbed'
            /\ world'.untold
         \/ /\ world'.touched = world.touched \cup {"charge"}
            /\ world'.battery = world.battery /\ world'.limit = world.limit
            /\ world'.upower = world.upower /\ world'.untold = world.untold
            /\ wire' = wire \/ wire'.signal
            /\ wire'.signal \/ ~part.bus \/ ~world.upower
  <2>1. CASE Battery(part)!Charges
    <3>1. PICK c \in {0, 1} : Battery(part)!Become(Battery(part)!Signalled(
                                  [Battery(part)!Did(Battery(part)!Now, "charge") EXCEPT !.world.charge = c]))
      BY <2>1 DEF Battery!Charges
    <3> DEFINE s == [Battery(part)!Did(Battery(part)!Now, "charge") EXCEPT !.world.charge = c]
    <3>2. /\ panel' = Battery(part)!Signalled(s).panel /\ world' = Battery(part)!Signalled(s).world
          /\ wire' = Battery(part)!Signalled(s).wire
      BY <3>1 DEF Battery!Become
    <3>3. s.panel = panel /\ s.wire = wire /\ DOMAIN s = {"panel", "world", "wire"}
          /\ s.world = [world EXCEPT !.moves = @ + 1, !.touched = @ \cup {"charge"}, !.charge = c]
      BY DEF Battery!Did, Battery!Now
    <3> HIDE DEF s
    <3>4. /\ DOMAIN s.world = DOMAIN world
          /\ s.world.asked = world.asked /\ s.world.limit = world.limit /\ s.world.battery = world.battery
          /\ s.world.upower = world.upower /\ s.world.untold = world.untold
          /\ s.world.touched = world.touched \cup {"charge"}
      BY <3>3 DEF BatteryInv, BatteryShape
    <3>5. world.limit \in Limits(part) /\ "signal" \in DOMAIN wire /\ "sent" \in DOMAIN wire
      BY DEF BatteryInv, BatteryShape
    <3>6. CASE part.bus /\ s.world.upower
      <4>1. panel' = panel /\ world' = s.world /\ wire' = [wire EXCEPT !.signal = TRUE]
        BY <3>2, <3>3, <3>6 DEF Battery!Signalled
      <4> QED BY <3>4, <3>5, <4>1
    <3>7. CASE ~(part.bus /\ s.world.upower)
      <4>1. panel' = panel /\ world' = s.world /\ wire' = wire
        BY <3>2, <3>3, <3>7 DEF Battery!Signalled
      <4> QED BY <3>4, <3>5, <3>7, <4>1
    <3> QED BY <3>6, <3>7
  <2>2. CASE Battery(part)!Retuned
    <3>1. PICK pair \in {part.whole, part.limited, <<0, 1>>} :
             Battery(part)!Become([Battery(part)!Did(Battery(part)!Now, "tlp") EXCEPT
                                     !.world.limit = pair, !.world.untold = TRUE])
      BY <2>2 DEF Battery!Retuned
    <3>2. /\ panel' = panel /\ wire' = wire
          /\ world' = [world EXCEPT !.moves = @ + 1, !.touched = @ \cup {"tlp"}, !.limit = pair, !.untold = TRUE]
      BY ZenonT(60), <3>1 DEF Battery!Become, Battery!Did, Battery!Now
    <3>3. pair \in Limits(part)
      <4>1. <<0, 1>> \in Limits(part)
        BY DEF Limits, Battery!ConstantsOK
      <4> QED BY <4>1, PresetsAreLimits DEF Presets
    <3> QED BY <3>2, <3>3 DEF Undisturbed, BatteryInv, BatteryShape
  <2>3. CASE Battery(part)!Daemon
    <3> DEFINE s == [Battery(part)!Did(Battery(part)!Now, "upower") EXCEPT !.world.upower = ~@, !.world.untold = TRUE]
    <3>1. Battery(part)!Become(s)
      BY <2>3 DEF Battery!Daemon
    <3>2. panel' = s.panel /\ world' = s.world /\ wire' = s.wire
      BY <3>1 DEF Battery!Become
    <3>3. s.panel = panel /\ s.wire = wire
          /\ s.world = [world EXCEPT !.moves = @ + 1, !.touched = @ \cup {"upower"}, !.upower = ~@, !.untold = TRUE]
      BY DEF Battery!Did, Battery!Now
    <3> HIDE DEF s
    <3>4. /\ DOMAIN s.world = DOMAIN world
          /\ s.world.asked = world.asked /\ s.world.limit = world.limit /\ s.world.untold
          /\ s.world.touched = world.touched \cup {"upower"}
      BY <3>3 DEF BatteryInv, BatteryShape
    <3> QED BY <3>2, <3>3, <3>4 DEF Undisturbed, BatteryInv, BatteryShape
  <2>4. CASE Battery(part)!Swapped
    <3> DEFINE s == [Battery(part)!Did(Battery(part)!Now, "unplug") EXCEPT !.world.battery = ~@, !.world.untold = TRUE]
    <3>1. Battery(part)!Become(Battery(part)!Signalled(s))
      BY <2>4 DEF Battery!Swapped
    <3>2. /\ panel' = Battery(part)!Signalled(s).panel /\ world' = Battery(part)!Signalled(s).world
          /\ wire' = Battery(part)!Signalled(s).wire
      BY <3>1 DEF Battery!Become
    <3>3. s.panel = panel /\ s.wire = wire /\ DOMAIN s = {"panel", "world", "wire"}
          /\ s.world = [world EXCEPT !.moves = @ + 1, !.touched = @ \cup {"unplug"}, !.battery = ~@, !.untold = TRUE]
      BY DEF Battery!Did, Battery!Now
    <3> HIDE DEF s
    <3>4. /\ DOMAIN s.world = DOMAIN world
          /\ s.world.asked = world.asked /\ s.world.limit = world.limit /\ s.world.untold
          /\ s.world.touched = world.touched \cup {"unplug"}
      BY <3>3 DEF BatteryInv, BatteryShape
    <3>5. panel' = panel /\ world' = s.world /\ DOMAIN wire' = DOMAIN wire /\ wire'.sent = wire.sent
      BY <3>2, <3>3 DEF Battery!Signalled, BatteryInv, BatteryShape
    <3> QED BY <3>4, <3>5 DEF Undisturbed, BatteryInv, BatteryShape
  <2> QED BY <2>1, <2>2, <2>3, <2>4
<1>2. BatteryShape(part)'
  BY <1>1 DEF BatteryInv, BatteryShape
<1>3. Undisturbed' =>
        /\ Undisturbed /\ world'.limit = world.limit /\ world'.battery = world.battery
        /\ "fail" \notin world'.touched => "fail" \notin world.touched
  BY <1>1 DEF Undisturbed
<1>4. AskedInv(part)'
  BY <1>1, <1>3 DEF BatteryInv, AskedInv, Halfway, Half, Battery!OrderedWrites
<1>5. SaidInv(part)'
  BY <1>1, <1>3 DEF BatteryInv, SaidInv, Done, Battery!Limited
<1>6. CardInv(part)'
  <2>1. CASE world'.untold
    BY <1>1, <2>1 DEF BatteryInv, CardInv
  <2>2. CASE ~world'.untold
    <3>1. /\ world'.battery = world.battery /\ world'.limit = world.limit
          /\ world'.upower = world.upower /\ ~world.untold
          /\ wire' = wire \/ wire'.signal
          /\ wire'.signal \/ ~part.bus \/ ~world.upower
      BY <1>1, <2>2
    <3>2. Battery(part)!Kernel(world)' = Battery(part)!Kernel(world)
      BY <3>1 DEF Battery!Kernel
    <3>3. ~wire'.signal => Battery(part)!Joined(world, Battery(part)!Kernel(world), panel.probed)'
                             = Battery(part)!Joined(world, Battery(part)!Kernel(world), panel.probed)
      BY <1>1, <3>1, <3>2 DEF Battery!Joined
    <3> QED BY <1>1, <3>1, <3>2, <3>3 DEF BatteryInv, CardInv
  <2> QED BY <2>1, <2>2
<1> QED BY <1>2, <1>4, <1>5, <1>6 DEF BatteryInv

LEMMA BatteryDraws ==
    ASSUME NEW part, Battery(part)!ConstantsOK, BatteryInv(part), Battery(part)!Draw \/ Battery(part)!Click
    PROVE  BatteryInv(part)'
<1>1. /\ DOMAIN panel' = DOMAIN panel /\ DOMAIN world' = DOMAIN world /\ DOMAIN wire' = DOMAIN wire
      /\ \A c \in wire'.sent : c.pair \in Presets(part)
      /\ wire'.signal = wire.signal
      /\ panel'.doing = panel.doing /\ panel'.asked = panel.asked /\ panel'.writes = panel.writes
      /\ panel'.probed = panel.probed /\ panel'.pending = panel.pending /\ panel'.answer = panel.answer
      /\ panel'.read = panel.read /\ panel'.state = panel.state
      /\ \/ panel'.card = panel.card /\ panel'.due = panel.due
         \/ panel'.card = panel.state
      /\ world'.battery = world.battery /\ world'.limit = world.limit /\ world'.upower = world.upower
      /\ world'.charge = world.charge /\ world'.untold = world.untold /\ world'.asked = world.asked
      /\ world'.touched = world.touched \/ world'.touched = world.touched \cup {"ui"}
  <2>1. CASE Battery(part)!Draw
    <3>1. panel' = [panel EXCEPT !.due = FALSE, !.card = panel.state] /\ world' = world /\ wire' = wire
      BY <2>1 DEF Battery!Draw, Battery!Become, Battery!Now
    <3> QED BY <3>1 DEF BatteryInv, BatteryShape
  <2>2. CASE Battery(part)!Click
    <3> DEFINE c(pair) == [n |-> world.clicks, pair |-> pair]
               s(pair) == [Battery(part)!Now EXCEPT !.wire.sent = @ \cup {c(pair)},
                                 !.world.clicks = @ + 1, !.world.touched = @ \cup {"ui"}]
    <3>1. PICK pair \in Presets(part) : Battery(part)!Become(s(pair))
      BY <2>2 DEF Battery!Click, Presets
    <3>2. panel' = s(pair).panel /\ wire' = s(pair).wire /\ world' = s(pair).world
      BY <3>1 DEF Battery!Become
    <3>3. /\ panel' = panel /\ wire' = [wire EXCEPT !.sent = @ \cup {c(pair)}]
          /\ world' = [world EXCEPT !.clicks = @ + 1, !.touched = @ \cup {"ui"}]
      BY <3>2 DEF Battery!Now
    <3>4. c(pair).pair \in Presets(part)
      BY <3>1
    <3> HIDE DEF s, c
    <3> QED BY <3>3, <3>4 DEF BatteryInv, BatteryShape
  <2> QED BY <2>1, <2>2
<1>2. BatteryShape(part)'
  BY <1>1 DEF BatteryInv, BatteryShape
<1>3. (Undisturbed' <=> Undisturbed) /\ ("fail" \in world'.touched <=> "fail" \in world.touched)
  BY <1>1 DEF Undisturbed
<1>4. AskedInv(part)'
  BY <1>1, <1>3 DEF BatteryInv, AskedInv, Halfway, Half, Battery!OrderedWrites
<1>5. SaidInv(part)'
  BY <1>1, <1>3 DEF BatteryInv, SaidInv, Done, Battery!Limited
<1>6. CardInv(part)'
  <2>1. Battery(part)!Kernel(world)' = Battery(part)!Kernel(world)
    BY <1>1 DEF Battery!Kernel
  <2>2. Battery(part)!Joined(world, Battery(part)!Kernel(world), panel.probed)'
          = Battery(part)!Joined(world, Battery(part)!Kernel(world), panel.probed)
    BY <1>1, <2>1 DEF Battery!Joined
  <2> QED BY <1>1, <2>1, <2>2 DEF BatteryInv, CardInv
<1> QED BY <1>2, <1>4, <1>5, <1>6 DEF BatteryInv

LEMMA BatterySteps ==
    ASSUME NEW part, Battery(part)!ConstantsOK, BatteryInv(part), Battery(part)!Next
    PROVE  BatteryInv(part)'
BY BatteryTakesCommand, BatteryWrites, BatteryAsksUpower, BatteryReadsKernel, BatteryReadsUpower, BatteryLooks,
   BatteryMachine, BatteryDraws DEF Battery!Next, Battery!Turn, Battery!Loop

LEMMA BatteryStays ==
    ASSUME NEW part, BatteryInv(part), UNCHANGED <<panel, world, wire>>
    PROVE  BatteryInv(part)'
BY DEF BatteryInv, BatteryShape, AskedInv, Halfway, Half, Undisturbed, SaidInv, Done, CardInv,
       Battery!OrderedWrites, Battery!Limited, Battery!Kernel, Battery!Joined

-----------------------------------------------------------------------------
(* The headset.                                                            *)

Command(part) == [kind : {"now"}] \cup [kind : {"configure"}, tool : part.tools]

HeadsetShape(part) ==
    /\ DOMAIN panel = {"doing", "due", "tool", "reading", "draw", "drawn"}
    /\ DOMAIN world = {"device", "tool", "moves"}
    /\ DOMAIN wire = {"tasks", "queue"}
    /\ wire.queue \in Seq(Command(part))
    /\ \A t \in wire.tasks : t.c \in Command(part)

Configures(c) == c.kind = "configure"

\* The last section that is queued, or the one in use, is the file's, unless the file's is
\* still to be queued; and no other is.
ToldInv(part) ==
    /\ \A t \in wire.tasks : Configures(t.c) => t.c.tool = world.tool
    /\ \/ \E t \in wire.tasks : Configures(t.c)
       \/ \E i \in 1..Len(wire.queue) :
             /\ Configures(wire.queue[i]) /\ wire.queue[i].tool = world.tool
             /\ \A j \in i + 1 .. Len(wire.queue) : ~Configures(wire.queue[j])
       \/ /\ \A i \in 1..Len(wire.queue) : ~Configures(wire.queue[i])
          /\ panel.tool = world.tool

HeadsetInv(part) == HeadsetShape(part) /\ ("twice" \notin part.does => ToldInv(part))

LEMMA HeadsetPromises ==
    ASSUME NEW part, HeadsetInv(part), "twice" \notin part.does
    PROVE  Headset(part)!ToolIsCurrent
BY DEF HeadsetInv, HeadsetShape, ToldInv, Headset!ToolIsCurrent

LEMMA HeadsetStarts ==
    ASSUME NEW part, Headset(part)!Init
    PROVE  HeadsetInv(part)
BY DEF HeadsetInv, HeadsetShape, ToldInv, Headset!Init

LEMMA HeadsetTakesCommand ==
    ASSUME NEW part, HeadsetInv(part), Headset(part)!TakeCommand
    PROVE  HeadsetInv(part)'
<1> DEFINE c == Head(wire.queue)
           s == [Headset(part)!Now EXCEPT !.wire.queue = Tail(@)]
           now == [s EXCEPT !.panel.due = TRUE]
           new == [s EXCEPT !.panel.tool = c.tool, !.panel.due = TRUE]
<1>1. wire.queue # <<>> /\ wire.queue \in Seq(Command(part)) /\ c \in Command(part)
  BY DEF Headset!TakeCommand, HeadsetInv, HeadsetShape
<1>2. c.kind \in {"now", "configure"}
  BY <1>1 DEF Command
<1>3. \/ c.kind = "now" /\ Headset(part)!Become(now)
      \/ c.kind = "configure" /\ Headset(part)!Become(IF c.tool = panel.tool THEN s ELSE new)
  <2>1. Headset(part)!Become(CASE c.kind = "now" -> now
                               [] c.kind = "configure" -> IF c.tool = panel.tool THEN s ELSE new)
    BY DEF Headset!TakeCommand
  <2>2. CASE c.kind = "now"
    BY <2>1, <2>2
  <2>3. CASE c.kind = "configure"
    BY <2>1, <2>3
  <2> QED BY <1>2, <2>2, <2>3
<1>4. /\ DOMAIN panel' = DOMAIN panel /\ world' = world /\ DOMAIN wire' = DOMAIN wire
      /\ wire'.tasks = wire.tasks /\ wire'.queue = Tail(wire.queue)
      /\ \/ ~Configures(c) /\ panel'.tool = panel.tool
         \/ Configures(c) /\ panel'.tool = c.tool
  <2> HIDE DEF c
  <2>1. CASE c.kind = "now" /\ Headset(part)!Become(now)
    <3>1. panel' = now.panel /\ world' = now.world /\ wire' = now.wire
      BY <2>1 DEF Headset!Become
    <3> QED BY <2>1, <3>1 DEF Headset!Now, HeadsetInv, HeadsetShape, Configures
  <2>2. CASE c.kind = "configure" /\ c.tool = panel.tool /\ Headset(part)!Become(s)
    <3>1. panel' = s.panel /\ world' = s.world /\ wire' = s.wire
      BY <2>2 DEF Headset!Become
    <3> QED BY <2>2, <3>1 DEF Headset!Now, HeadsetInv, HeadsetShape, Configures
  <2>3. CASE c.kind = "configure" /\ c.tool # panel.tool /\ Headset(part)!Become(new)
    <3>1. panel' = new.panel /\ world' = new.world /\ wire' = new.wire
      BY <2>3 DEF Headset!Become
    <3> QED BY <2>3, <3>1 DEF Headset!Now, HeadsetInv, HeadsetShape, Configures
  <2> QED BY <1>3, <2>1, <2>2, <2>3
<1> HIDE DEF s, now, new
<1>5. /\ Len(wire'.queue) = Len(wire.queue) - 1 /\ wire'.queue \in Seq(Command(part))
      /\ \A i \in 1..Len(wire'.queue) : wire'.queue[i] = wire.queue[i + 1]
      /\ c = wire.queue[1] /\ Len(wire.queue) \in Nat \ {0}
  BY <1>1, <1>4
<1>6. HeadsetShape(part)'
  BY <1>4, <1>5 DEF HeadsetInv, HeadsetShape
<1>7. ToldInv(part) => ToldInv(part)'
  <2> SUFFICES ASSUME ToldInv(part) PROVE ToldInv(part)'
    OBVIOUS
  <2> HIDE DEF c
  <2>1. CASE \E t \in wire.tasks : Configures(t.c)
    BY <1>4, <2>1 DEF ToldInv, Configures
  <2>2. ASSUME NEW i \in 1..Len(wire.queue),
               Configures(wire.queue[i]), wire.queue[i].tool = world.tool,
               \A j \in i + 1 .. Len(wire.queue) : ~Configures(wire.queue[j])
        PROVE  ToldInv(part)'
    <3>1. CASE i = 1
      <4>1. panel'.tool = world'.tool
        BY <1>4, <1>5, <2>2, <3>1
      <4>2. \A j \in 1..Len(wire'.queue) : ~Configures(wire'.queue[j])
        BY <1>5, <2>2, <3>1
      <4> QED BY <1>4, <4>1, <4>2 DEF ToldInv, Configures
    <3>2. CASE i # 1
      <4> DEFINE k == i - 1
      <4>1. /\ k \in 1..Len(wire'.queue) /\ wire'.queue[k] = wire.queue[i]
            /\ \A j \in k + 1 .. Len(wire'.queue) : ~Configures(wire'.queue[j])
        BY <1>5, <2>2, <3>2
      <4>2. \A t \in wire'.tasks : Configures(t.c) => t.c.tool = world'.tool
        BY <1>4 DEF ToldInv
      <4>3. Configures(wire'.queue[k]) /\ wire'.queue[k].tool = world'.tool
        BY <1>4, <2>2, <4>1 DEF Configures
      <4> HIDE DEF k
      <4> QED BY <4>1, <4>2, <4>3 DEF ToldInv, Configures
    <3> QED BY <3>1, <3>2
  <2>3. CASE /\ \A i \in 1..Len(wire.queue) : ~Configures(wire.queue[i])
             /\ panel.tool = world.tool
    <3>1. ~Configures(c) /\ \A i \in 1..Len(wire'.queue) : ~Configures(wire'.queue[i])
      BY <1>5, <2>3
    <3> QED BY <1>4, <2>3, <3>1 DEF ToldInv, Configures
  <2> QED BY <2>1, <2>2, <2>3 DEF ToldInv
<1> QED BY <1>6, <1>7 DEF HeadsetInv

LEMMA HeadsetEnqueues ==
    ASSUME NEW part, HeadsetInv(part), Headset(part)!Enqueue
    PROVE  HeadsetInv(part)'
<1>1. PICK t \in wire.tasks :
         Headset(part)!Become([Headset(part)!Now EXCEPT !.wire.tasks = @ \ {t}, !.wire.queue = Append(@, t.c)])
  BY DEF Headset!Enqueue
<1>2. panel' = panel /\ world' = world /\ wire' = [wire EXCEPT !.tasks = @ \ {t}, !.queue = Append(@, t.c)]
  BY <1>1 DEF Headset!Become, Headset!Now
<1>3. /\ DOMAIN wire' = DOMAIN wire /\ wire'.tasks = wire.tasks \ {t} /\ wire'.queue = Append(wire.queue, t.c)
      /\ wire.queue \in Seq(Command(part)) /\ t.c \in Command(part)
  BY <1>2 DEF HeadsetInv, HeadsetShape
<1>4. /\ Len(wire'.queue) = Len(wire.queue) + 1 /\ wire'.queue \in Seq(Command(part))
      /\ \A i \in 1..Len(wire.queue) : wire'.queue[i] = wire.queue[i]
      /\ wire'.queue[Len(wire.queue) + 1] = t.c /\ Len(wire.queue) \in Nat
  BY <1>3
<1>5. HeadsetShape(part)'
  BY <1>2, <1>3, <1>4 DEF HeadsetInv, HeadsetShape
<1>6. ToldInv(part) => ToldInv(part)'
  <2> SUFFICES ASSUME ToldInv(part) PROVE ToldInv(part)'
    OBVIOUS
  <2>1. \A u \in wire'.tasks : Configures(u.c) => u.c.tool = world'.tool
    BY <1>2, <1>3 DEF ToldInv
  <2>2. CASE Configures(t.c)
    <3>1. t.c.tool = world.tool
      BY <2>2 DEF ToldInv
    <3> DEFINE i == Len(wire.queue) + 1
    <3>2. /\ i \in 1..Len(wire'.queue) /\ Configures(wire'.queue[i]) /\ wire'.queue[i].tool = world'.tool
          /\ \A j \in i + 1 .. Len(wire'.queue) : ~Configures(wire'.queue[j])
      BY <1>2, <1>4, <2>2, <3>1
    <3> HIDE DEF i
    <3> QED BY <2>1, <3>2 DEF ToldInv, Configures
  <2>3. CASE ~Configures(t.c)
    <3>1. CASE \E u \in wire.tasks : Configures(u.c)
      BY <1>3, <2>1, <2>3, <3>1 DEF ToldInv, Configures
    <3>2. ASSUME NEW i \in 1..Len(wire.queue),
                 Configures(wire.queue[i]), wire.queue[i].tool = world.tool,
                 \A j \in i + 1 .. Len(wire.queue) : ~Configures(wire.queue[j])
          PROVE  ToldInv(part)'
      <4>1. /\ i \in 1..Len(wire'.queue) /\ wire'.queue[i] = wire.queue[i]
            /\ \A j \in i + 1 .. Len(wire'.queue) : ~Configures(wire'.queue[j])
        BY <1>4, <2>3, <3>2
      <4> QED BY <1>2, <2>1, <3>2, <4>1 DEF ToldInv, Configures
    <3>3. CASE (\A i \in 1..Len(wire.queue) : ~Configures(wire.queue[i])) /\ panel.tool = world.tool
      <4>1. \A i \in 1..Len(wire'.queue) : ~Configures(wire'.queue[i])
        BY <1>4, <2>3, <3>3
      <4> QED BY <1>2, <2>1, <3>3, <4>1 DEF ToldInv, Configures
    <3> QED BY <3>1, <3>2, <3>3 DEF ToldInv
  <2> QED BY <2>2, <2>3
<1> QED BY <1>2, <1>5, <1>6 DEF HeadsetInv

LEMMA HeadsetReloads ==
    ASSUME NEW part, HeadsetInv(part), Headset(part)!Reload \/ Headset(part)!Resume
    PROVE  HeadsetInv(part)'
<1>1. PICK c \in Command(part) :
        /\ panel' = panel /\ DOMAIN world' = DOMAIN world
        /\ wire' = [wire EXCEPT !.tasks = @ \cup {[n |-> world.moves, c |-> c]}]
        /\ Configures(c) => c.tool = world'.tool
        /\ \/ ~Configures(c) /\ world'.tool = world.tool
           \/ /\ Configures(c)
              /\ "twice" \notin part.does => \A t \in wire.tasks : ~Configures(t.c)
  <2>1. CASE Headset(part)!Reload
    <3> DEFINE c(tool) == [kind |-> "configure", tool |-> tool]
               s(tool) == [Headset(part)!Did(Headset(part)!Now) EXCEPT !.world.tool = tool]
               to(tool) == Headset(part)!Send(s(tool), c(tool))
    <3>1. PICK tool \in part.tools : Headset(part)!Become(to(tool))
      BY <2>1 DEF Headset!Reload
    <3>2. "twice" \notin part.does => \A t \in wire.tasks : t.c.kind = "now"
      BY <2>1 DEF Headset!Reload
    <3>3. panel' = to(tool).panel /\ world' = to(tool).world /\ wire' = to(tool).wire
      BY <3>1 DEF Headset!Become
    <3>4. /\ panel' = panel /\ world' = [world EXCEPT !.moves = @ + 1, !.tool = tool]
          /\ wire' = [wire EXCEPT !.tasks = @ \cup {[n |-> world.moves, c |-> c(tool)]}]
      BY <3>3 DEF Headset!Send, Headset!Did, Headset!Now
    <3>5. c(tool) \in Command(part) /\ Configures(c(tool)) /\ c(tool).tool = tool
      BY <3>1 DEF Command, Configures
    <3> HIDE DEF c, s, to
    <3>6. DOMAIN world' = DOMAIN world /\ world'.tool = tool
      BY <3>4 DEF HeadsetInv, HeadsetShape
    <3>7. "twice" \notin part.does => \A t \in wire.tasks : ~Configures(t.c)
      BY <3>2 DEF Configures
    <3> QED BY <3>4, <3>5, <3>6, <3>7
  <2>2. CASE Headset(part)!Resume
    <3> DEFINE c == [kind |-> "now"]
               to == Headset(part)!Send(Headset(part)!Did(Headset(part)!Now), c)
    <3>1. Headset(part)!Become(to)
      BY <2>2 DEF Headset!Resume
    <3>2. panel' = to.panel /\ world' = to.world /\ wire' = to.wire
      BY <3>1 DEF Headset!Become
    <3>3. /\ panel' = panel /\ world' = [world EXCEPT !.moves = @ + 1]
          /\ wire' = [wire EXCEPT !.tasks = @ \cup {[n |-> world.moves, c |-> c]}]
      BY <3>2 DEF Headset!Send, Headset!Did, Headset!Now
    <3>4. c \in Command(part) /\ ~Configures(c)
      BY DEF Command, Configures
    <3> HIDE DEF c, to
    <3>5. DOMAIN world' = DOMAIN world /\ world'.tool = world.tool
      BY <3>3 DEF HeadsetInv, HeadsetShape
    <3> QED BY <3>3, <3>4, <3>5
  <2> QED BY <2>1, <2>2
<1> DEFINE t == [n |-> world.moves, c |-> c]
<1>2. DOMAIN wire' = DOMAIN wire /\ wire'.tasks = wire.tasks \cup {t} /\ wire'.queue = wire.queue
  BY <1>1 DEF HeadsetInv, HeadsetShape
<1>3. t.c = c
  OBVIOUS
<1> HIDE DEF t
<1>4. HeadsetShape(part)'
  BY <1>1, <1>2, <1>3 DEF HeadsetInv, HeadsetShape
<1>5. ASSUME "twice" \notin part.does PROVE ToldInv(part)'
  <2>1. ToldInv(part)
    BY <1>5 DEF HeadsetInv
  <2>2. CASE Configures(c)
    BY <1>1, <1>2, <1>3, <1>5, <2>2 DEF ToldInv, Configures
  <2>3. CASE ~Configures(c)
    BY <1>1, <1>2, <1>3, <2>1, <2>3 DEF ToldInv, Configures
  <2> QED BY <2>2, <2>3
<1> QED BY <1>4, <1>5 DEF HeadsetInv

\* The rest leaves the sections alone.
LEMMA HeadsetRests ==
    ASSUME NEW part, HeadsetInv(part), DOMAIN panel' = DOMAIN panel, DOMAIN world' = DOMAIN world,
           panel'.tool = panel.tool, world'.tool = world.tool, wire' = wire
    PROVE  HeadsetInv(part)'
BY DEF HeadsetInv, HeadsetShape, ToldInv, Configures

LEMMA HeadsetSteps ==
    ASSUME NEW part, HeadsetInv(part), Headset(part)!Next
    PROVE  HeadsetInv(part)'
<1>1. CASE Headset(part)!TakeCommand
  BY <1>1, HeadsetTakesCommand
<1>2. CASE Headset(part)!Enqueue
  BY <1>2, HeadsetEnqueues
<1>3. CASE Headset(part)!Reload \/ Headset(part)!Resume
  BY <1>3, HeadsetReloads
<1>4. CASE Headset(part)!Tick
  <2>1. panel' = [panel EXCEPT !.doing = "reading", !.due = FALSE] /\ world' = world /\ wire' = wire
    BY <1>4 DEF Headset!Tick, Headset!Become, Headset!Now
  <2> QED BY <2>1, HeadsetRests DEF HeadsetInv, HeadsetShape
<1>5. CASE Headset(part)!Elapse
  <2>1. panel' = [panel EXCEPT !.due = TRUE] /\ world' = world /\ wire' = wire
    BY <1>5 DEF Headset!Elapse, Headset!Become, Headset!Now
  <2> QED BY <2>1, HeadsetRests DEF HeadsetInv, HeadsetShape
<1>6. CASE Headset(part)!Read
  <2> DEFINE ended(reading) == Headset(part)!Ended(reading)
             hung == [ended(NoOne) EXCEPT !.world.moves = @ + 1]
  <2>1. ASSUME NEW reading
        PROVE  /\ DOMAIN ended(reading).panel = DOMAIN panel /\ ended(reading).panel.tool = panel.tool
               /\ ended(reading).world = world /\ ended(reading).wire = wire
               /\ DOMAIN ended(reading) = {"panel", "world", "wire"}
    BY DEF Headset!Ended, Headset!Now, HeadsetInv, HeadsetShape
  <2>2. \/ \E reading : Headset(part)!Become(ended(reading))
        \/ Headset(part)!Become(hung)
    BY <1>6 DEF Headset!Read
  <2> HIDE DEF ended
  <2>3. CASE \E reading : Headset(part)!Become(ended(reading))
    <3>1. PICK reading : panel' = ended(reading).panel /\ world' = ended(reading).world /\ wire' = ended(reading).wire
      BY <2>3 DEF Headset!Become
    <3> QED BY <2>1, <3>1, HeadsetRests
  <2>4. CASE Headset(part)!Become(hung)
    <3>1. panel' = hung.panel /\ world' = hung.world /\ wire' = hung.wire
      BY <2>4 DEF Headset!Become
    <3>2. /\ panel' = ended(NoOne).panel /\ wire' = ended(NoOne).wire
          /\ world' = [ended(NoOne).world EXCEPT !.moves = @ + 1]
      BY <2>1, <3>1
    <3>3. DOMAIN world' = DOMAIN world /\ world'.tool = world.tool
      BY <2>1, <3>2 DEF HeadsetInv, HeadsetShape
    <3> QED BY <2>1, <3>2, <3>3, HeadsetRests
  <2> QED BY <2>2, <2>3, <2>4
<1>7. CASE Headset(part)!Draw
  <2>1. panel' = [panel EXCEPT !.draw = FALSE, !.drawn = panel.reading] /\ world' = world /\ wire' = wire
    BY <1>7 DEF Headset!Draw, Headset!Become, Headset!Now
  <2> QED BY <2>1, HeadsetRests DEF HeadsetInv, HeadsetShape
<1>8. CASE Headset(part)!Charge \/ Headset(part)!Switch
  <2> DEFINE did == Headset(part)!Did(Headset(part)!Now)
             charged(l) == [did EXCEPT !.world.device.level = l]
             switched == [did EXCEPT !.world.device.on = ~@]
  <2>1. did.panel = panel /\ did.wire = wire /\ did.world = [world EXCEPT !.moves = @ + 1]
        /\ DOMAIN did = {"panel", "world", "wire"}
    BY DEF Headset!Did, Headset!Now
  <2>2. DOMAIN did.world = DOMAIN world /\ did.world.tool = world.tool /\ "device" \in DOMAIN world
    BY <2>1 DEF HeadsetInv, HeadsetShape
  <2>3. (\E l : Headset(part)!Become(charged(l))) \/ Headset(part)!Become(switched)
    BY <1>8 DEF Headset!Charge, Headset!Switch
  <2> HIDE DEF did
  <2>4. CASE \E l : Headset(part)!Become(charged(l))
    <3>1. PICK l : panel' = charged(l).panel /\ world' = charged(l).world /\ wire' = charged(l).wire
      BY <2>4 DEF Headset!Become
    <3>2. panel' = panel /\ wire' = wire /\ world' = [did.world EXCEPT !.device.level = l]
      BY <2>1, <3>1
    <3> QED BY <2>2, <3>2, HeadsetRests
  <2>5. CASE Headset(part)!Become(switched)
    <3>1. panel' = switched.panel /\ world' = switched.world /\ wire' = switched.wire
      BY <2>5 DEF Headset!Become
    <3>2. panel' = panel /\ wire' = wire /\ world' = [did.world EXCEPT !.device.on = ~@]
      BY <2>1, <3>1
    <3> QED BY <2>2, <3>2, HeadsetRests
  <2> QED BY <2>3, <2>4, <2>5
<1> QED BY <1>1, <1>2, <1>3, <1>4, <1>5, <1>6, <1>7, <1>8 DEF
        Headset!Next, Headset!Turn, Headset!Server, Headset!Asked, Headset!Clock, Headset!Loop

LEMMA HeadsetStays ==
    ASSUME NEW part, HeadsetInv(part), UNCHANGED <<panel, world, wire>>
    PROVE  HeadsetInv(part)'
BY DEF HeadsetInv, HeadsetShape, ToldInv, Configures

-----------------------------------------------------------------------------
(* The power mode.                                                         *)

ProfilesShape(part) ==
    /\ DOMAIN panel = {"phase", "endpoint", "active", "previous", "state", "due", "drawn", "open"}
    /\ DOMAIN world = {"names", "ready", "active", "moves", "clicks"}
    /\ DOMAIN wire = {"sent", "call", "answer", "change", "owners"}
    /\ panel.phase \in {"looking", "building", "serving", "asking", "idle"}
    /\ world.active \in part.offered /\ wire.owners \in Nat
    /\ wire.change \in part.offered \cup {NoOne}
    /\ wire.answer \in {NoOne, "done", "refused"} /\ world.names \in SUBSET {1, 2}
    /\ \A c \in wire.sent : c.to \in part.offered

\* A choice is called for and answered once.
CallInv(part) ==
    /\ panel.phase # "asking" => wire.call = NoOne /\ wire.answer = NoOne
    /\ panel.phase = "asking" =>
          \/ wire.call = NoOne /\ wire.answer # NoOne
          \/ wire.call # NoOne /\ wire.answer = NoOne /\ wire.call = panel.active /\ wire.call \in part.offered

\* With nobody new on the bus what the task has of the mode is the daemon's, or a change is
\* still to be taken, or an answer that will put it right; and one that answers as soon as it
\* has a name has been found.
ModeInv ==
    /\ panel.phase \in {"building", "serving", "asking"} => panel.endpoint \in world.names
    /\ panel.phase \in {"serving", "asking"} /\ wire.change # NoOne => wire.change = world.active
    /\ panel.phase = "serving" /\ wire.change = NoOne => panel.active = world.active
    /\ panel.phase = "asking" /\ wire.change = NoOne =>
          IF wire.answer = "done" THEN panel.active = world.active ELSE panel.previous = world.active

ListInv(part) ==
    /\ panel.phase \in {"serving", "asking"} => panel.state = Profiles(part)!Snapshot(panel.active)
    /\ panel.phase = "idle" => panel.state = Profiles(part)!Unavailable
    /\ ~panel.due => panel.drawn = panel.state /\ (panel.open => panel.drawn.available)

ProfilesInv(part) ==
    /\ ProfilesShape(part) /\ CallInv(part) /\ ListInv(part)
    /\ wire.owners = 0 => ModeInv
    /\ "slow" \notin part.does => world.ready /\ (wire.owners = 0 /\ panel.phase = "idle" => world.names = {})

LEMMA ProfilesPromises ==
    ASSUME NEW part, Profiles(part)!ConstantsOK, ProfilesInv(part)
    PROVE  /\ Profiles(part)!NeverAnothers
           /\ "slow" \notin part.does => Profiles(part)!QuietIsCurrent
<1> SUFFICES ASSUME Profiles(part)!Rest
             PROVE  /\ panel.state \in {Profiles(part)!Unavailable, Profiles(part)!Snapshot(world.active)}
                    /\ "slow" \notin part.does =>
                          panel.state = IF Profiles(part)!Up THEN Profiles(part)!Snapshot(world.active)
                                        ELSE Profiles(part)!Unavailable
                    /\ panel.drawn = panel.state
                    /\ panel.open => panel.state.available
  BY DEF Profiles!QuietIsCurrent, Profiles!NeverAnothers
<1>1. /\ panel.phase \notin {"looking", "building"} /\ wire.call = NoOne /\ ~panel.due
      /\ panel.phase = "asking" => wire.answer = NoOne
      /\ panel.phase \in {"serving", "idle"} => ~(wire.owners > 0)
      /\ panel.phase = "serving" => wire.change = NoOne
  BY DEF Profiles!Rest, Profiles!TurnDue, Profiles!ServerDue, Profiles!LoopDue
<1>2. /\ panel.phase \in {"serving", "idle"} /\ wire.owners = 0
  BY <1>1 DEF ProfilesInv, ProfilesShape, CallInv
<1>3. ModeInv
  BY <1>2 DEF ProfilesInv
<1>4. panel.drawn = panel.state /\ (panel.open => panel.state.available)
  BY <1>1 DEF ProfilesInv, ListInv
<1>5. CASE panel.phase = "serving"
  BY <1>1, <1>3, <1>4, <1>5 DEF ProfilesInv, ListInv, ModeInv, Profiles!Up
<1>6. CASE panel.phase = "idle"
  BY <1>1, <1>2, <1>3, <1>4, <1>6 DEF ProfilesInv, ListInv, ModeInv, Profiles!Up
<1> QED BY <1>2, <1>5, <1>6

LEMMA ProfilesStarts ==
    ASSUME NEW part, Profiles(part)!ConstantsOK, Profiles(part)!Init
    PROVE  ProfilesInv(part)
<1>1. world.active \in part.offered
  BY DEF Profiles!Init, Profiles!ConstantsOK
<1>2. ProfilesShape(part)
  <2>1. world.names \in SUBSET {1, 2} /\ DOMAIN world = {"names", "ready", "active", "moves", "clicks"}
    BY DEF Profiles!Init, Profiles!Endpoints
  <2> QED BY <1>1, <2>1 DEF ProfilesShape, Profiles!Init
<1>3. CallInv(part) /\ ListInv(part) /\ ModeInv /\ world.ready
  BY DEF CallInv, ListInv, ModeInv, Profiles!Init, Profiles!Unavailable
<1> QED BY <1>2, <1>3 DEF ProfilesInv, Profiles!Init

\* What publish() leaves.
LEMMA ProfilesPublish ==
    ASSUME NEW part, NEW s, NEW next, DOMAIN s = {"panel", "world", "wire"},
           {"state", "due"} \subseteq DOMAIN s.panel
    PROVE  LET t == Profiles(part)!Publish(s, next) IN
           /\ DOMAIN t = DOMAIN s /\ t.world = s.world /\ t.wire = s.wire
           /\ DOMAIN t.panel = DOMAIN s.panel /\ t.panel.state = next
           /\ \A f \in DOMAIN s.panel \ {"state", "due"} : t.panel[f] = s.panel[f]
           /\ t.panel.due \/ (t.panel.due = s.panel.due /\ next = s.panel.state)
<1>1. CASE s.panel.state = next
  BY <1>1 DEF Profiles!Publish
<1>2. CASE s.panel.state # next
  <2>1. Profiles(part)!Publish(s, next) = [s EXCEPT !.panel.state = next, !.panel.due = TRUE]
    BY <1>2 DEF Profiles!Publish
  <2>2. Profiles(part)!Publish(s, next).panel = [s.panel EXCEPT !.state = next, !.due = TRUE]
    BY <2>1
  <2>3. DOMAIN Profiles(part)!Publish(s, next) = DOMAIN s /\ Profiles(part)!Publish(s, next).world = s.world
        /\ Profiles(part)!Publish(s, next).wire = s.wire
    BY <2>1
  <2> HIDE DEF Profiles!Publish
  <2> QED BY <2>2, <2>3
<1> QED BY <1>1, <1>2

LEMMA NamesHaveALeast ==
    ASSUME NEW names \in SUBSET {1, 2}, names # {}
    PROVE  (CHOOSE n \in names : \A m \in names : n <= m) \in names
<1>1. \E n \in names : \A m \in names : n <= m
  <2>1. CASE 1 \in names
    BY <2>1
  <2>2. CASE 1 \notin names
    <3>1. 2 \in names /\ \A m \in names : m = 2
      BY <2>2
    <3> QED BY <3>1
  <2> QED BY <2>1, <2>2
<1> QED BY <1>1

LEMMA ProfilesFinds ==
    ASSUME NEW part, Profiles(part)!ConstantsOK, ProfilesInv(part), Profiles(part)!Find
    PROVE  ProfilesInv(part)'
<1> DEFINE t == Profiles(part)!Publish(Profiles(part)!Now, Profiles(part)!Unavailable)
           none == [t EXCEPT !.panel.phase = "idle"]
           e == CHOOSE n \in world.names : \A m \in world.names : n <= m
           one == [Profiles(part)!Now EXCEPT !.panel.phase = "building", !.panel.endpoint = e]
<1>1. /\ panel.phase = "looking"
      /\ Profiles(part)!Become(IF world.names = {} THEN none ELSE one)
  BY DEF Profiles!Find
<1>2. CASE world.names = {}
  <2>1. panel' = none.panel /\ world' = none.world /\ wire' = none.wire
    BY <1>1, <1>2 DEF Profiles!Become
  <2>2. /\ DOMAIN t = {"panel", "world", "wire"} /\ t.world = world /\ t.wire = wire
        /\ DOMAIN t.panel = DOMAIN panel /\ t.panel.state = Profiles(part)!Unavailable
        /\ \A f \in DOMAIN panel \ {"state", "due"} : t.panel[f] = panel[f]
        /\ t.panel.due \/ (t.panel.due = panel.due /\ Profiles(part)!Unavailable = panel.state)
    BY ProfilesPublish DEF ProfilesInv, ProfilesShape, Profiles!Now
  <2> HIDE DEF t
  <2>3. panel' = [t.panel EXCEPT !.phase = "idle"] /\ world' = world /\ wire' = wire
    BY <2>1, <2>2
  <2>4. /\ DOMAIN panel' = DOMAIN panel /\ panel'.phase = "idle" /\ panel'.state = Profiles(part)!Unavailable
        /\ panel'.drawn = panel.drawn /\ panel'.open = panel.open
        /\ panel'.due \/ (panel'.due = panel.due /\ panel'.state = panel.state)
    BY <2>2, <2>3 DEF ProfilesInv, ProfilesShape
  <2>5. wire.call = NoOne /\ wire.answer = NoOne
    BY <1>1 DEF ProfilesInv, CallInv
  <2> QED BY <1>2, <2>3, <2>4, <2>5 DEF ProfilesInv, ProfilesShape, CallInv, ListInv, ModeInv, Profiles!Unavailable
<1>3. CASE world.names # {}
  <2>1. panel' = one.panel /\ world' = one.world /\ wire' = one.wire
    BY <1>1, <1>3 DEF Profiles!Become
  <2> HIDE DEF e
  <2>2. panel' = [panel EXCEPT !.phase = "building", !.endpoint = e] /\ world' = world /\ wire' = wire
    BY <2>1 DEF Profiles!Now
  <2>3. e \in world.names
    BY <1>3, NamesHaveALeast DEF e, ProfilesInv, ProfilesShape
  <2>4. /\ DOMAIN panel' = DOMAIN panel /\ panel'.phase = "building" /\ panel'.endpoint = e
        /\ panel'.state = panel.state /\ panel'.drawn = panel.drawn /\ panel'.open = panel.open
        /\ panel'.due = panel.due
    BY <2>2 DEF ProfilesInv, ProfilesShape
  <2>5. wire.call = NoOne /\ wire.answer = NoOne
    BY <1>1 DEF ProfilesInv, CallInv
  <2> QED BY <2>2, <2>3, <2>4, <2>5 DEF ProfilesInv, ProfilesShape, CallInv, ListInv, ModeInv
<1> QED BY <1>2, <1>3

LEMMA ProfilesBuilds ==
    ASSUME NEW part, Profiles(part)!ConstantsOK, ProfilesInv(part), Profiles(part)!Build
    PROVE  ProfilesInv(part)'
<1> DEFINE there == panel.endpoint \in world.names /\ world.ready
           next == IF there THEN Profiles(part)!Snapshot(world.active) ELSE Profiles(part)!Unavailable
           t == Profiles(part)!Publish(Profiles(part)!Now, next)
           served == [t EXCEPT !.panel.phase = "serving", !.panel.active = world.active, !.wire.change = NoOne]
           none == [t EXCEPT !.panel.phase = "idle"]
<1>1. panel.phase = "building" /\ Profiles(part)!Become(IF there THEN served ELSE none)
  <2>1. CASE there
    BY <2>1 DEF Profiles!Build
  <2>2. CASE ~there
    BY <2>2 DEF Profiles!Build
  <2> QED BY <2>1, <2>2
<1>2. /\ DOMAIN t = {"panel", "world", "wire"} /\ t.world = world /\ t.wire = wire
      /\ DOMAIN t.panel = DOMAIN panel /\ t.panel.state = next
      /\ \A f \in DOMAIN panel \ {"state", "due"} : t.panel[f] = panel[f]
      /\ t.panel.due \/ (t.panel.due = panel.due /\ next = panel.state)
  <2> HIDE DEF next
  <2> QED BY ProfilesPublish DEF ProfilesInv, ProfilesShape, Profiles!Now
<1> HIDE DEF t
<1>3. wire.call = NoOne /\ wire.answer = NoOne
  BY <1>1 DEF ProfilesInv, CallInv
<1>4. CASE there
  <2>1. panel' = served.panel /\ world' = served.world /\ wire' = served.wire
    BY <1>1, <1>4 DEF Profiles!Become
  <2> HIDE DEF next
  <2>2. /\ panel' = [t.panel EXCEPT !.phase = "serving", !.active = world.active] /\ world' = world
        /\ wire' = [wire EXCEPT !.change = NoOne]
    BY <1>2, <2>1
  <2>3. /\ DOMAIN panel' = DOMAIN panel /\ panel'.phase = "serving" /\ panel'.active = world.active
        /\ panel'.state = next /\ panel'.drawn = panel.drawn /\ panel'.open = panel.open
        /\ panel'.endpoint = panel.endpoint
        /\ panel'.due \/ (panel'.due = panel.due /\ panel'.state = panel.state)
    BY <1>2, <2>2 DEF ProfilesInv, ProfilesShape
  <2>4. /\ DOMAIN wire' = DOMAIN wire /\ wire'.change = NoOne /\ wire'.call = NoOne /\ wire'.answer = NoOne
        /\ wire'.sent = wire.sent /\ wire'.owners = wire.owners
    BY <1>3, <2>2 DEF ProfilesInv, ProfilesShape
  <2>5. next = Profiles(part)!Snapshot(world.active)
    BY <1>4 DEF next
  <2> QED BY <1>4, <2>2, <2>3, <2>4, <2>5
          DEF ProfilesInv, ProfilesShape, CallInv, ListInv, ModeInv, Profiles!Snapshot
<1>5. CASE ~there
  <2>1. panel' = none.panel /\ world' = none.world /\ wire' = none.wire
    BY <1>1, <1>5 DEF Profiles!Become
  <2> HIDE DEF next
  <2>2. panel' = [t.panel EXCEPT !.phase = "idle"] /\ world' = world /\ wire' = wire
    BY <1>2, <2>1
  <2>3. /\ DOMAIN panel' = DOMAIN panel /\ panel'.phase = "idle"
        /\ panel'.state = next /\ panel'.drawn = panel.drawn /\ panel'.open = panel.open
        /\ panel'.due \/ (panel'.due = panel.due /\ panel'.state = panel.state)
    BY <1>2, <2>2 DEF ProfilesInv, ProfilesShape
  <2>4. next = Profiles(part)!Unavailable
    BY <1>5 DEF next
  <2>5. ~("slow" \notin part.does /\ wire.owners = 0)
    BY <1>1, <1>5 DEF ProfilesInv, ModeInv
  <2> QED BY <1>3, <2>2, <2>3, <2>4, <2>5
          DEF ProfilesInv, ProfilesShape, CallInv, ListInv, ModeInv, Profiles!Unavailable
<1> QED BY <1>4, <1>5

LEMMA ProfilesTakesCommand ==
    ASSUME NEW part, Profiles(part)!ConstantsOK, ProfilesInv(part), Profiles(part)!TakeCommand
    PROVE  ProfilesInv(part)'
<1> DEFINE s(c) == [Profiles(part)!Now EXCEPT !.wire.sent = @ \ {c}]
           next(c) == Profiles(part)!Snapshot(c.to)
           t(c) == Profiles(part)!Publish(s(c), next(c))
           asked(c) == [t(c) EXCEPT !.panel.phase = "asking", !.panel.previous = s(c).panel.active,
                                    !.panel.active = c.to, !.wire.call = c.to]
<1>1. PICK c \in wire.sent : Profiles(part)!Become(IF panel.phase = "idle" THEN s(c) ELSE asked(c))
  BY DEF Profiles!TakeCommand, Profiles!Ask
<1>2. /\ panel.phase \in {"serving", "idle"} /\ c.to \in part.offered /\ c.to # NoOne
      /\ wire.call = NoOne /\ wire.answer = NoOne
  BY DEF Profiles!TakeCommand, Profiles!ConstantsOK, ProfilesInv, ProfilesShape, CallInv
<1>3. s(c).panel = panel /\ s(c).world = world /\ s(c).wire = [wire EXCEPT !.sent = @ \ {c}]
      /\ DOMAIN s(c) = {"panel", "world", "wire"}
  BY DEF Profiles!Now
<1>4. CASE panel.phase = "idle"
  <2>1. panel' = s(c).panel /\ world' = s(c).world /\ wire' = s(c).wire
    BY <1>1, <1>4 DEF Profiles!Become
  <2> HIDE DEF s
  <2>2. DOMAIN wire' = DOMAIN wire /\ wire'.change = wire.change /\ wire'.call = NoOne /\ wire'.answer = NoOne
        /\ wire'.sent \subseteq wire.sent /\ wire'.owners = wire.owners
    BY <1>2, <1>3, <2>1 DEF ProfilesInv, ProfilesShape
  <2> QED BY <1>3, <1>4, <2>1, <2>2 DEF ProfilesInv, ProfilesShape, CallInv, ListInv, ModeInv, Profiles!Unavailable
<1>5. CASE panel.phase = "serving"
  <2>1. panel' = asked(c).panel /\ world' = asked(c).world /\ wire' = asked(c).wire
    BY <1>1, <1>5 DEF Profiles!Become
  <2> HIDE DEF s, next
  <2>2. {"state", "due"} \subseteq DOMAIN s(c).panel
    BY <1>3 DEF ProfilesInv, ProfilesShape
  <2>3. /\ DOMAIN t(c) = {"panel", "world", "wire"} /\ t(c).world = world /\ t(c).wire = s(c).wire
        /\ DOMAIN t(c).panel = DOMAIN panel /\ t(c).panel.state = next(c)
        /\ \A f \in DOMAIN panel \ {"state", "due"} : t(c).panel[f] = panel[f]
        /\ t(c).panel.due \/ (t(c).panel.due = panel.due /\ next(c) = panel.state)
    BY <1>3, <2>2, ProfilesPublish
  <2> HIDE DEF t
  <2>4. /\ panel' = [t(c).panel EXCEPT !.phase = "asking", !.previous = panel.active, !.active = c.to]
        /\ world' = world /\ wire' = [wire EXCEPT !.sent = @ \ {c}, !.call = c.to]
    BY <1>3, <2>1, <2>3
  <2>5. /\ DOMAIN panel' = DOMAIN panel /\ panel'.phase = "asking" /\ panel'.active = c.to
        /\ panel'.state = next(c) /\ panel'.drawn = panel.drawn /\ panel'.open = panel.open
        /\ panel'.endpoint = panel.endpoint /\ panel'.previous = panel.active
        /\ panel'.due \/ (panel'.due = panel.due /\ panel'.state = panel.state)
    BY <2>3, <2>4 DEF ProfilesInv, ProfilesShape
  <2>6. DOMAIN wire' = DOMAIN wire /\ wire'.change = wire.change /\ wire'.call = c.to /\ wire'.answer = NoOne
        /\ wire'.sent \subseteq wire.sent /\ wire'.owners = wire.owners
    BY <1>2, <2>4 DEF ProfilesInv, ProfilesShape
  <2>7. next(c) = Profiles(part)!Snapshot(panel'.active)
    BY <2>5 DEF next
  <2>8. ProfilesShape(part)' /\ CallInv(part)'
    BY <1>2, <2>4, <2>5, <2>6 DEF ProfilesInv, ProfilesShape, CallInv
  <2>9. ListInv(part)'
    BY <2>5, <2>7 DEF ProfilesInv, ListInv, Profiles!Snapshot
  <2>10. ModeInv => ModeInv'
    BY <1>5, <2>4, <2>5, <2>6 DEF ModeInv, Profiles!ConstantsOK
  <2> QED BY <2>4, <2>5, <2>6, <2>8, <2>9, <2>10 DEF ProfilesInv
<1> QED BY <1>2, <1>4, <1>5

LEMMA ProfilesTakesAnswer ==
    ASSUME NEW part, Profiles(part)!ConstantsOK, ProfilesInv(part), Profiles(part)!TakeAnswer
    PROVE  ProfilesInv(part)'
<1> DEFINE s == [Profiles(part)!Now EXCEPT !.panel.phase = "serving", !.wire.answer = NoOne]
           undone == [s EXCEPT !.panel.active = s.panel.previous]
           next == Profiles(part)!Snapshot(s.panel.previous)
           t == Profiles(part)!Publish(undone, next)
<1>1. /\ panel.phase = "asking" /\ wire.answer # NoOne
      /\ Profiles(part)!Become(IF wire.answer = "refused" THEN t ELSE s)
  BY DEF Profiles!TakeAnswer, Profiles!Undone
<1>2. wire.call = NoOne
  BY <1>1 DEF ProfilesInv, CallInv
<1>3. s.panel = [panel EXCEPT !.phase = "serving"] /\ s.world = world /\ s.wire = [wire EXCEPT !.answer = NoOne]
      /\ DOMAIN s = {"panel", "world", "wire"}
  BY DEF Profiles!Now
<1> HIDE DEF s
<1>4. CASE wire.answer # "refused"
  <2>1. panel' = s.panel /\ world' = s.world /\ wire' = s.wire
    BY <1>1, <1>4 DEF Profiles!Become
  <2>2. /\ DOMAIN panel' = DOMAIN panel /\ panel'.phase = "serving" /\ panel'.active = panel.active
        /\ panel'.state = panel.state /\ panel'.drawn = panel.drawn /\ panel'.open = panel.open
        /\ panel'.endpoint = panel.endpoint /\ panel'.due = panel.due
    BY <1>3, <2>1 DEF ProfilesInv, ProfilesShape
  <2>3. DOMAIN wire' = DOMAIN wire /\ wire'.change = wire.change /\ wire'.call = NoOne /\ wire'.answer = NoOne
        /\ wire'.sent = wire.sent /\ wire'.owners = wire.owners
    BY <1>2, <1>3, <2>1 DEF ProfilesInv, ProfilesShape
  <2>4. wire.answer = "done"
    BY <1>1, <1>4 DEF ProfilesInv, ProfilesShape
  <2>5. world' = world
    BY <1>3, <2>1
  <2>6. ProfilesShape(part)' /\ CallInv(part)'
    BY <2>2, <2>3, <2>5 DEF ProfilesInv, ProfilesShape, CallInv
  <2>7. ListInv(part)'
    BY <1>1, <2>2 DEF ProfilesInv, ListInv, Profiles!Snapshot
  <2>8. ModeInv => ModeInv'
    BY <1>1, <2>2, <2>3, <2>4, <2>5 DEF ModeInv
  <2> QED BY <2>2, <2>3, <2>5, <2>6, <2>7, <2>8 DEF ProfilesInv
<1>5. CASE wire.answer = "refused"
  <2>1. panel' = t.panel /\ world' = t.world /\ wire' = t.wire
    BY <1>1, <1>5 DEF Profiles!Become
  <2>2. /\ undone.panel = [s.panel EXCEPT !.active = s.panel.previous]
        /\ undone.world = world /\ undone.wire = s.wire /\ DOMAIN undone = {"panel", "world", "wire"}
    BY <1>3
  <2>3. /\ DOMAIN undone.panel = DOMAIN panel /\ undone.panel.phase = "serving"
        /\ undone.panel.active = panel.previous
        /\ undone.panel.state = panel.state /\ undone.panel.drawn = panel.drawn /\ undone.panel.open = panel.open
        /\ undone.panel.endpoint = panel.endpoint /\ undone.panel.due = panel.due
        /\ next = Profiles(part)!Snapshot(panel.previous)
    BY <1>3, <2>2 DEF ProfilesInv, ProfilesShape
  <2> HIDE DEF undone, next
  <2>4. {"state", "due"} \subseteq DOMAIN undone.panel
    BY <2>3 DEF ProfilesInv, ProfilesShape
  <2>5. /\ DOMAIN t = {"panel", "world", "wire"} /\ t.world = world /\ t.wire = s.wire
        /\ DOMAIN t.panel = DOMAIN panel /\ t.panel.state = next
        /\ \A f \in DOMAIN panel \ {"state", "due"} : t.panel[f] = undone.panel[f]
        /\ t.panel.due \/ (t.panel.due = panel.due /\ next = panel.state)
    BY <2>2, <2>3, <2>4, ProfilesPublish
  <2> HIDE DEF t
  <2>6. /\ DOMAIN panel' = DOMAIN panel /\ panel'.phase = "serving" /\ panel'.active = panel.previous
        /\ panel'.state = next /\ panel'.drawn = panel.drawn /\ panel'.open = panel.open
        /\ panel'.endpoint = panel.endpoint
        /\ panel'.due \/ (panel'.due = panel.due /\ panel'.state = panel.state)
    BY <2>1, <2>3, <2>5 DEF ProfilesInv, ProfilesShape
  <2>7. DOMAIN wire' = DOMAIN wire /\ wire'.change = wire.change /\ wire'.call = NoOne /\ wire'.answer = NoOne
        /\ wire'.sent = wire.sent /\ wire'.owners = wire.owners
    BY <1>2, <1>3, <2>1, <2>5 DEF ProfilesInv, ProfilesShape
  <2>8. world' = world
    BY <2>1, <2>5
  <2>9. ProfilesShape(part)' /\ CallInv(part)'
    BY <2>6, <2>7, <2>8 DEF ProfilesInv, ProfilesShape, CallInv
  <2>10. ListInv(part)'
    BY <2>3, <2>6 DEF ProfilesInv, ListInv, Profiles!Snapshot
  <2>11. ModeInv => ModeInv'
    BY <1>1, <1>5, <2>6, <2>7, <2>8 DEF ModeInv
  <2> QED BY <2>6, <2>7, <2>8, <2>9, <2>10, <2>11 DEF ProfilesInv
<1> QED BY <1>4, <1>5

LEMMA ProfilesTakesChange ==
    ASSUME NEW part, Profiles(part)!ConstantsOK, ProfilesInv(part), Profiles(part)!TakeChange
    PROVE  ProfilesInv(part)'
<1> DEFINE next == Profiles(part)!Snapshot(wire.change)
           t == Profiles(part)!Publish(Profiles(part)!Now, next)
           to == [t EXCEPT !.panel.active = wire.change, !.wire.change = NoOne]
<1>1. panel.phase = "serving" /\ wire.change # NoOne /\ Profiles(part)!Become(to)
  BY DEF Profiles!TakeChange
<1>2. panel' = to.panel /\ world' = to.world /\ wire' = to.wire
  BY <1>1 DEF Profiles!Become
<1> HIDE DEF next
<1>3. /\ DOMAIN t = {"panel", "world", "wire"} /\ t.world = world /\ t.wire = wire
      /\ DOMAIN t.panel = DOMAIN panel /\ t.panel.state = next
      /\ \A f \in DOMAIN panel \ {"state", "due"} : t.panel[f] = panel[f]
      /\ t.panel.due \/ (t.panel.due = panel.due /\ next = panel.state)
  BY ProfilesPublish DEF ProfilesInv, ProfilesShape, Profiles!Now
<1> HIDE DEF t
<1>4. /\ panel' = [t.panel EXCEPT !.active = wire.change] /\ world' = world
      /\ wire' = [wire EXCEPT !.change = NoOne]
  BY <1>2, <1>3
<1>5. /\ DOMAIN panel' = DOMAIN panel /\ panel'.phase = "serving" /\ panel'.active = wire.change
      /\ panel'.state = next /\ panel'.drawn = panel.drawn /\ panel'.open = panel.open
      /\ panel'.endpoint = panel.endpoint
      /\ panel'.due \/ (panel'.due = panel.due /\ panel'.state = panel.state)
  BY <1>1, <1>3, <1>4 DEF ProfilesInv, ProfilesShape
<1>6. DOMAIN wire' = DOMAIN wire /\ wire'.change = NoOne /\ wire'.call = wire.call /\ wire'.answer = wire.answer
      /\ wire'.sent = wire.sent /\ wire'.owners = wire.owners
  BY <1>4 DEF ProfilesInv, ProfilesShape
<1>7. ProfilesShape(part)' /\ CallInv(part)'
  BY <1>1, <1>4, <1>5, <1>6 DEF ProfilesInv, ProfilesShape, CallInv
<1>8. ListInv(part)'
  BY <1>5 DEF next, ProfilesInv, ListInv, Profiles!Snapshot
<1>9. ModeInv => ModeInv'
  BY <1>1, <1>4, <1>5, <1>6 DEF ModeInv
<1> QED BY <1>4, <1>5, <1>6, <1>7, <1>8, <1>9 DEF ProfilesInv

LEMMA ProfilesTakesOwner ==
    ASSUME NEW part, ProfilesInv(part), Profiles(part)!TakeOwner
    PROVE  ProfilesInv(part)'
<1>1. /\ panel.phase \in {"serving", "idle"} /\ wire.owners > 0
      /\ panel' = [panel EXCEPT !.phase = "looking"] /\ world' = world
      /\ wire' = [wire EXCEPT !.owners = @ - 1]
  BY DEF Profiles!TakeOwner, Profiles!Become, Profiles!Now
<1>2. /\ DOMAIN panel' = DOMAIN panel /\ panel'.phase = "looking"
      /\ panel'.state = panel.state /\ panel'.drawn = panel.drawn /\ panel'.open = panel.open
      /\ panel'.due = panel.due
  BY <1>1 DEF ProfilesInv, ProfilesShape
<1>3. DOMAIN wire' = DOMAIN wire /\ wire'.change = wire.change /\ wire'.call = wire.call /\ wire'.answer = wire.answer
      /\ wire'.sent = wire.sent /\ wire'.owners \in Nat
  BY <1>1 DEF ProfilesInv, ProfilesShape
<1> QED BY <1>1, <1>2, <1>3 DEF ProfilesInv, ProfilesShape, CallInv, ListInv, ModeInv

\* The daemon's steps leave the task alone; what it changes, it tells.
LEMMA ProfilesHears ==
    ASSUME NEW part, Profiles(part)!ConstantsOK, ProfilesInv(part),
           panel' = panel, DOMAIN world' = DOMAIN world, DOMAIN wire' = DOMAIN wire,
           world'.active \in part.offered, world'.names = world.names, world.ready => world'.ready,
           wire'.sent = wire.sent, wire'.owners = wire.owners,
           \/ world'.active = world.active /\ wire'.change = wire.change
           \/ wire'.change = world'.active,
           \/ wire'.call = wire.call /\ wire'.answer = wire.answer
           \/ /\ wire.call # NoOne /\ wire'.call = NoOne
              /\ \/ wire'.answer = "done" /\ world'.active = wire.call
                 \/ wire'.answer = "refused"
    PROVE  ProfilesInv(part)'
<1>1. wire.call # NoOne => panel.phase = "asking" /\ wire.answer = NoOne /\ wire.call = panel.active
  BY DEF ProfilesInv, CallInv
<1>2. NoOne \notin {"done", "refused"} /\ world'.active # NoOne
  BY DEF Profiles!ConstantsOK
<1>3. ProfilesShape(part)'
  BY <1>2 DEF ProfilesInv, ProfilesShape
<1>4. CallInv(part)'
  BY <1>1, <1>2 DEF ProfilesInv, CallInv
<1>5. ListInv(part)'
  BY DEF ProfilesInv, ListInv, Profiles!Snapshot, Profiles!Unavailable
<1>6. ModeInv => ModeInv'
  BY <1>1, <1>2 DEF ModeInv
<1> QED BY <1>3, <1>4, <1>5, <1>6 DEF ProfilesInv

LEMMA ProfilesActive ==
    ASSUME NEW part, NEW s, NEW profile, DOMAIN s = {"panel", "world", "wire"},
           "active" \in DOMAIN s.world, "change" \in DOMAIN s.wire
    PROVE  LET t == Profiles(part)!Active(s, profile) IN
           /\ DOMAIN t = DOMAIN s /\ t.panel = s.panel
           /\ DOMAIN t.world = DOMAIN s.world /\ t.world.active = profile
           /\ \A f \in DOMAIN s.world \ {"active"} : t.world[f] = s.world[f]
           /\ DOMAIN t.wire = DOMAIN s.wire
           /\ \A f \in DOMAIN s.wire \ {"change"} : t.wire[f] = s.wire[f]
           /\ (profile = s.world.active /\ t.wire.change = s.wire.change) \/ t.wire.change = profile
<1>1. CASE profile = s.world.active
  BY <1>1 DEF Profiles!Active
<1>2. CASE profile # s.world.active
  <2>1. Profiles(part)!Active(s, profile) = [s EXCEPT !.world.active = profile, !.wire.change = profile]
    BY <1>2 DEF Profiles!Active
  <2>2. /\ DOMAIN Profiles(part)!Active(s, profile) = DOMAIN s
        /\ Profiles(part)!Active(s, profile).panel = s.panel
        /\ Profiles(part)!Active(s, profile).world = [s.world EXCEPT !.active = profile]
        /\ Profiles(part)!Active(s, profile).wire = [s.wire EXCEPT !.change = profile]
    BY <2>1
  <2> HIDE DEF Profiles!Active
  <2> QED BY <2>2
<1> QED BY <1>1, <1>2

LEMMA ProfilesAnswers ==
    ASSUME NEW part, Profiles(part)!ConstantsOK, ProfilesInv(part), Profiles(part)!DaemonAnswers
    PROVE  ProfilesInv(part)'
<1> DEFINE s == [Profiles(part)!Now EXCEPT !.wire.call = NoOne]
           t == Profiles(part)!Active(s, wire.call)
           done == [t EXCEPT !.wire.answer = "done"]
           refused == [s EXCEPT !.wire.answer = "refused"]
           gone == [s EXCEPT !.wire.answer = "refused", !.world.moves = @ + 1]
<1>1. wire.call # NoOne
  BY DEF Profiles!DaemonAnswers
<1>2. Profiles(part)!Become(done) \/ Profiles(part)!Become(refused) \/ Profiles(part)!Become(gone)
  BY DEF Profiles!DaemonAnswers
<1>3. wire.call \in part.offered
  BY <1>1 DEF ProfilesInv, CallInv
<1>4. s.panel = panel /\ s.world = world /\ s.wire = [wire EXCEPT !.call = NoOne] /\ DOMAIN s = {"panel", "world", "wire"}
  BY DEF Profiles!Now
<1>5. DOMAIN s.wire = DOMAIN wire /\ s.wire.call = NoOne /\ s.wire.sent = wire.sent /\ s.wire.owners = wire.owners
      /\ s.wire.change = wire.change
  BY <1>4 DEF ProfilesInv, ProfilesShape
<1> HIDE DEF s
<1>6. CASE Profiles(part)!Become(done)
  <2>1. panel' = done.panel /\ world' = done.world /\ wire' = done.wire
    BY <1>6 DEF Profiles!Become
  <2>2. "active" \in DOMAIN s.world /\ "change" \in DOMAIN s.wire
    BY <1>4, <1>5 DEF ProfilesInv, ProfilesShape
  <2>3. /\ DOMAIN t = {"panel", "world", "wire"} /\ t.panel = panel
        /\ DOMAIN t.world = DOMAIN world /\ t.world.active = wire.call
        /\ \A f \in DOMAIN world \ {"active"} : t.world[f] = world[f]
        /\ DOMAIN t.wire = DOMAIN wire
        /\ \A f \in DOMAIN wire \ {"change"} : t.wire[f] = s.wire[f]
        /\ (wire.call = world.active /\ t.wire.change = wire.change) \/ t.wire.change = wire.call
    BY <1>4, <1>5, <2>2, ProfilesActive
  <2> HIDE DEF t
  <2>4. panel' = panel /\ world' = t.world /\ wire' = [t.wire EXCEPT !.answer = "done"]
    BY <2>1, <2>3
  <2>5. /\ DOMAIN world' = DOMAIN world /\ world'.active = wire.call /\ world'.names = world.names
        /\ world'.ready = world.ready
    BY <2>3, <2>4 DEF ProfilesInv, ProfilesShape
  <2>6. /\ DOMAIN wire' = DOMAIN wire /\ wire'.call = NoOne /\ wire'.answer = "done"
        /\ wire'.sent = wire.sent /\ wire'.owners = wire.owners
        /\ (wire.call = world.active /\ wire'.change = wire.change) \/ wire'.change = wire.call
    BY <1>5, <2>3, <2>4 DEF ProfilesInv, ProfilesShape
  <2> QED BY <1>1, <1>3, <2>4, <2>5, <2>6, ProfilesHears
<1>7. CASE Profiles(part)!Become(refused)
  <2>1. panel' = refused.panel /\ world' = refused.world /\ wire' = refused.wire
    BY <1>7 DEF Profiles!Become
  <2>2. panel' = panel /\ world' = world /\ wire' = [s.wire EXCEPT !.answer = "refused"]
    BY <1>4, <2>1
  <2>3. /\ DOMAIN wire' = DOMAIN wire /\ wire'.call = NoOne /\ wire'.answer = "refused"
        /\ wire'.sent = wire.sent /\ wire'.owners = wire.owners /\ wire'.change = wire.change
    BY <1>5, <2>2 DEF ProfilesInv, ProfilesShape
  <2>4. world'.active \in part.offered
    BY <2>2 DEF ProfilesInv, ProfilesShape
  <2> QED BY <1>1, <2>2, <2>3, <2>4, ProfilesHears
<1>8. CASE Profiles(part)!Become(gone)
  <2>1. panel' = gone.panel /\ world' = gone.world /\ wire' = gone.wire
    BY <1>8 DEF Profiles!Become
  <2>2. panel' = panel /\ world' = [world EXCEPT !.moves = @ + 1] /\ wire' = [s.wire EXCEPT !.answer = "refused"]
    BY <1>4, <2>1
  <2>3. /\ DOMAIN wire' = DOMAIN wire /\ wire'.call = NoOne /\ wire'.answer = "refused"
        /\ wire'.sent = wire.sent /\ wire'.owners = wire.owners /\ wire'.change = wire.change
    BY <1>5, <2>2 DEF ProfilesInv, ProfilesShape
  <2>4. /\ DOMAIN world' = DOMAIN world /\ world'.active = world.active /\ world'.names = world.names
        /\ world'.ready = world.ready /\ world'.active \in part.offered
    BY <2>2 DEF ProfilesInv, ProfilesShape
  <2> QED BY <1>1, <2>2, <2>3, <2>4, ProfilesHears
<1> QED BY <1>2, <1>6, <1>7, <1>8

LEMMA ProfilesMovesOutside ==
    ASSUME NEW part, Profiles(part)!ConstantsOK, ProfilesInv(part), Profiles(part)!Outside
    PROVE  ProfilesInv(part)'
<1> DEFINE did == Profiles(part)!Did(Profiles(part)!Now)
           t(p) == Profiles(part)!Active(did, p)
<1>1. PICK p \in part.offered : Profiles(part)!Become(t(p))
  BY DEF Profiles!Outside
<1>2. panel' = t(p).panel /\ world' = t(p).world /\ wire' = t(p).wire
  BY <1>1 DEF Profiles!Become
<1>3. did.panel = panel /\ did.wire = wire /\ did.world = [world EXCEPT !.moves = @ + 1]
      /\ DOMAIN did = {"panel", "world", "wire"}
  BY DEF Profiles!Did, Profiles!Now
<1> HIDE DEF did
<1>4. DOMAIN did.world = DOMAIN world /\ did.world.active = world.active /\ did.world.names = world.names
      /\ did.world.ready = world.ready /\ "active" \in DOMAIN did.world /\ "change" \in DOMAIN did.wire
  BY <1>3 DEF ProfilesInv, ProfilesShape
<1>5. /\ t(p).panel = panel
      /\ DOMAIN t(p).world = DOMAIN world /\ t(p).world.active = p
      /\ \A f \in DOMAIN world \ {"active"} : t(p).world[f] = did.world[f]
      /\ DOMAIN t(p).wire = DOMAIN wire
      /\ \A f \in DOMAIN wire \ {"change"} : t(p).wire[f] = wire[f]
      /\ (p = world.active /\ t(p).wire.change = wire.change) \/ t(p).wire.change = p
  BY <1>3, <1>4, ProfilesActive
<1> HIDE DEF t
<1>6. /\ DOMAIN world' = DOMAIN world /\ world'.active = p /\ world'.names = world.names
      /\ world'.ready = world.ready
  BY <1>2, <1>4, <1>5 DEF ProfilesInv, ProfilesShape
<1>7. /\ DOMAIN wire' = DOMAIN wire /\ wire'.call = wire.call /\ wire'.answer = wire.answer
      /\ wire'.sent = wire.sent /\ wire'.owners = wire.owners
      /\ (p = world.active /\ wire'.change = wire.change) \/ wire'.change = p
  BY <1>2, <1>5 DEF ProfilesInv, ProfilesShape
<1> QED BY <1>2, <1>5, <1>6, <1>7, ProfilesHears

LEMMA ProfilesComesAndGoes ==
    ASSUME NEW part, ProfilesInv(part), Profiles(part)!Dies \/ Profiles(part)!Starts
    PROVE  ProfilesInv(part)'
<1> DEFINE did == Profiles(part)!Did(Profiles(part)!Now)
           ready == IF Profiles(part)!Up THEN world.ready ELSE "slow" \notin part.does
           dead(names) == [did EXCEPT !.world.names = names, !.wire.owners = @ + 1]
           up(names, p) == [did EXCEPT !.world.names = names, !.world.active = p, !.wire.owners = @ + 1,
                                       !.world.ready = ready]
<1>1. did.panel = panel /\ did.wire = wire /\ did.world = [world EXCEPT !.moves = @ + 1]
      /\ DOMAIN did = {"panel", "world", "wire"}
  BY DEF Profiles!Did, Profiles!Now
<1>2. DOMAIN did.world = DOMAIN world /\ did.world.active = world.active /\ did.world.ready = world.ready
      /\ did.world.names = world.names
  BY <1>1 DEF ProfilesInv, ProfilesShape
<1>3. panel' = panel /\ wire' = [wire EXCEPT !.owners = @ + 1]
      /\ DOMAIN world' = DOMAIN world /\ world'.names \in SUBSET {1, 2} /\ world'.active \in part.offered
      /\ (("slow" \notin part.does /\ world.ready) => world'.ready)
  <2>1. CASE Profiles(part)!Dies
    <3>1. PICK e \in world.names : Profiles(part)!Become(dead(did.world.names \ {e}))
      BY <2>1 DEF Profiles!Dies
    <3> DEFINE names == did.world.names \ {e}
    <3>2. names \in SUBSET {1, 2} /\ Profiles(part)!Become(dead(names))
      BY <1>2, <3>1 DEF ProfilesInv, ProfilesShape
    <3> HIDE DEF did, names
    <3>3. panel' = dead(names).panel /\ world' = dead(names).world /\ wire' = dead(names).wire
      BY <3>2 DEF Profiles!Become
    <3>4. panel' = panel /\ world' = [did.world EXCEPT !.names = names] /\ wire' = [wire EXCEPT !.owners = @ + 1]
      BY <1>1, <3>3
    <3> QED BY <1>2, <3>2, <3>4 DEF ProfilesInv, ProfilesShape
  <2>2. CASE Profiles(part)!Starts
    <3>1. PICK e \in Profiles(part)!Endpoints \ world.names, p \in part.offered :
            Profiles(part)!Become(up(did.world.names \cup {e}, p))
      <4>1. did.world.ready = world.ready
        BY <1>2
      <4> QED BY <2>2, <4>1 DEF Profiles!Starts
    <3> DEFINE names == did.world.names \cup {e}
    <3>2. names \in SUBSET {1, 2} /\ Profiles(part)!Become(up(names, p))
      BY <1>2, <3>1 DEF ProfilesInv, ProfilesShape, Profiles!Endpoints
    <3> HIDE DEF did, names, ready
    <3>3. panel' = up(names, p).panel /\ world' = up(names, p).world /\ wire' = up(names, p).wire
      BY <3>2 DEF Profiles!Become
    <3>4. panel' = panel /\ wire' = [wire EXCEPT !.owners = @ + 1]
          /\ world' = [did.world EXCEPT !.names = names, !.active = p, !.ready = ready]
      BY <1>1, <3>3
    <3>5. DOMAIN world' = DOMAIN world /\ world'.names = names /\ world'.active = p /\ world'.ready = ready
      BY <1>2, <3>4 DEF ProfilesInv, ProfilesShape
    <3>6. ("slow" \notin part.does /\ world.ready) => ready
      BY DEF ready
    <3> QED BY <3>1, <3>2, <3>4, <3>5, <3>6
  <2> QED BY <2>1, <2>2
<1>4. DOMAIN wire' = DOMAIN wire /\ wire'.change = wire.change /\ wire'.call = wire.call /\ wire'.answer = wire.answer
      /\ wire'.sent = wire.sent /\ wire'.owners \in Nat /\ wire'.owners # 0
  BY <1>3 DEF ProfilesInv, ProfilesShape
<1> QED BY <1>3, <1>4
        DEF ProfilesInv, ProfilesShape, CallInv, ListInv, Profiles!Snapshot, Profiles!Unavailable

LEMMA ProfilesDraws ==
    ASSUME NEW part, Profiles(part)!ConstantsOK, ProfilesInv(part), Profiles(part)!Draw
    PROVE  ProfilesInv(part)'
<1>1. /\ panel' = [panel EXCEPT !.due = FALSE, !.drawn = panel.state, !.open = @ /\ panel.state.available]
      /\ world' = world /\ wire' = wire
  BY DEF Profiles!Draw, Profiles!Become, Profiles!Now
<1>2. /\ DOMAIN panel' = DOMAIN panel /\ panel'.phase = panel.phase /\ panel'.active = panel.active
      /\ panel'.state = panel.state /\ panel'.drawn = panel.state
      /\ panel'.endpoint = panel.endpoint /\ panel'.previous = panel.previous
      /\ (panel'.open => panel.state.available)
  BY <1>1 DEF ProfilesInv, ProfilesShape
<1>3. ListInv(part)'
  BY <1>2 DEF ProfilesInv, ListInv, Profiles!Snapshot, Profiles!Unavailable
<1>4. ProfilesShape(part)' /\ CallInv(part)' /\ (ModeInv => ModeInv')
  BY <1>1, <1>2 DEF ProfilesInv, ProfilesShape, CallInv, ModeInv
<1> QED BY <1>1, <1>2, <1>3, <1>4 DEF ProfilesInv

LEMMA ProfilesClicks ==
    ASSUME NEW part, ProfilesInv(part), Profiles(part)!Click
    PROVE  ProfilesInv(part)'
<1> DEFINE opened == [Profiles(part)!Now EXCEPT !.panel.open = TRUE]
           c(p) == [n |-> world.clicks, to |-> p]
           sent(p) == [Profiles(part)!Now EXCEPT !.wire.sent = @ \cup {c(p)}, !.world.clicks = @ + 1]
<1>1. panel.drawn.available
      /\ (Profiles(part)!Become(opened) \/ \E p \in part.offered : Profiles(part)!Become(sent(p)))
  BY DEF Profiles!Click
<1>2. CASE Profiles(part)!Become(opened)
  <2>1. panel' = [panel EXCEPT !.open = TRUE] /\ world' = world /\ wire' = wire
    BY <1>2 DEF Profiles!Become, Profiles!Now
  <2>2. /\ DOMAIN panel' = DOMAIN panel /\ panel'.phase = panel.phase /\ panel'.active = panel.active
        /\ panel'.state = panel.state /\ panel'.drawn = panel.drawn /\ panel'.due = panel.due
        /\ panel'.endpoint = panel.endpoint /\ panel'.previous = panel.previous
    BY <2>1 DEF ProfilesInv, ProfilesShape
  <2>3. ListInv(part)'
    BY <1>1, <2>2 DEF ProfilesInv, ListInv, Profiles!Snapshot, Profiles!Unavailable
  <2>4. ProfilesShape(part)' /\ CallInv(part)' /\ (ModeInv => ModeInv')
    BY <2>1, <2>2 DEF ProfilesInv, ProfilesShape, CallInv, ModeInv
  <2> QED BY <2>1, <2>2, <2>3, <2>4 DEF ProfilesInv
<1>3. CASE \E p \in part.offered : Profiles(part)!Become(sent(p))
  <2>1. PICK p \in part.offered :
          panel' = sent(p).panel /\ world' = sent(p).world /\ wire' = sent(p).wire
    BY <1>3 DEF Profiles!Become
  <2>2. /\ panel' = panel /\ world' = [world EXCEPT !.clicks = @ + 1]
        /\ wire' = [wire EXCEPT !.sent = @ \cup {c(p)}]
    BY <2>1 DEF Profiles!Now
  <2>3. c(p).to = p
    OBVIOUS
  <2> HIDE DEF c
  <2>4. /\ DOMAIN world' = DOMAIN world /\ world'.active = world.active /\ world'.names = world.names
        /\ world'.ready = world.ready
    BY <2>2 DEF ProfilesInv, ProfilesShape
  <2>5. DOMAIN wire' = DOMAIN wire /\ wire'.change = wire.change /\ wire'.call = wire.call /\ wire'.answer = wire.answer
        /\ wire'.sent = wire.sent \cup {c(p)} /\ wire'.owners = wire.owners
    BY <2>2 DEF ProfilesInv, ProfilesShape
  <2>6. ProfilesShape(part)' /\ CallInv(part)' /\ (ModeInv => ModeInv')
    BY <2>2, <2>3, <2>4, <2>5 DEF ProfilesInv, ProfilesShape, CallInv, ModeInv
  <2>7. ListInv(part)'
    BY <2>2 DEF ProfilesInv, ListInv, Profiles!Snapshot, Profiles!Unavailable
  <2> QED BY <2>2, <2>4, <2>5, <2>6, <2>7 DEF ProfilesInv
<1> QED BY <1>1, <1>2, <1>3

LEMMA ProfilesSteps ==
    ASSUME NEW part, Profiles(part)!ConstantsOK, ProfilesInv(part), Profiles(part)!Next
    PROVE  ProfilesInv(part)'
<1>1. CASE Profiles(part)!Find
  BY <1>1, ProfilesFinds
<1>2. CASE Profiles(part)!Build
  BY <1>2, ProfilesBuilds
<1>3. CASE Profiles(part)!TakeCommand
  BY <1>3, ProfilesTakesCommand
<1>4. CASE Profiles(part)!TakeAnswer
  BY <1>4, ProfilesTakesAnswer
<1>5. CASE Profiles(part)!TakeChange
  BY <1>5, ProfilesTakesChange
<1>6. CASE Profiles(part)!TakeOwner
  BY <1>6, ProfilesTakesOwner
<1>7. CASE Profiles(part)!DaemonAnswers
  BY <1>7, ProfilesAnswers
<1>8. CASE Profiles(part)!Ready
  <2>1. panel' = panel /\ world' = [world EXCEPT !.ready = TRUE] /\ wire' = wire
    BY <1>8 DEF Profiles!Ready, Profiles!Become, Profiles!Now
  <2>2. /\ DOMAIN world' = DOMAIN world /\ world'.active = world.active /\ world'.names = world.names
        /\ (world.ready => world'.ready) /\ world'.active \in part.offered
    BY <2>1 DEF ProfilesInv, ProfilesShape
  <2> QED BY <2>1, <2>2, ProfilesHears
<1>9. CASE Profiles(part)!Outside
  BY <1>9, ProfilesMovesOutside
<1>10. CASE Profiles(part)!Dies \/ Profiles(part)!Starts
  BY <1>10, ProfilesComesAndGoes
<1>11. CASE Profiles(part)!Draw
  BY <1>11, ProfilesDraws
<1>12. CASE Profiles(part)!Click
  BY <1>12, ProfilesClicks
<1> QED BY <1>1, <1>2, <1>3, <1>4, <1>5, <1>6, <1>7, <1>8, <1>9, <1>10, <1>11, <1>12
        DEF Profiles!Next, Profiles!Turn, Profiles!Server, Profiles!Loop

LEMMA ProfilesStays ==
    ASSUME NEW part, ProfilesInv(part), UNCHANGED <<panel, world, wire>>
    PROVE  ProfilesInv(part)'
BY DEF ProfilesInv, ProfilesShape, CallInv, ModeInv, ListInv, Profiles!Snapshot, Profiles!Unavailable

-----------------------------------------------------------------------------
(* The capsule.                                                            *)

\* A surface that counts as shown is counted down, and one that no longer does fades out.
Leaving(c) ==
    /\ DOMAIN c = {"heard", "inhibited", "shown", "visible", "opacity", "run", "idle", "timer", "bar",
                   "fill", "slide", "told"}
    /\ (c.timer <=> c.shown)
    /\ c.visible => c.timer \/ c.run = 0

CapsuleInv == \A m \in DOMAIN panel : Leaving(panel[m])

\* The same of a state that is put together.
AllLeaving(s) ==
    /\ DOMAIN s = {"panel", "world", "wire"}
    /\ \A m \in DOMAIN s.panel : Leaving(s.panel[m])

LEMMA CapsulePromises ==
    ASSUME NEW part, CapsuleInv
    PROVE  Capsule(part)!LeavesInTime
BY DEF CapsuleInv, Leaving, Capsule!LeavesInTime

LEMMA CapsuleRaised ==
    ASSUME NEW part, NEW c, Leaving(c), NEW fill
    PROVE  Leaving(Capsule(part)!Raised(c, fill))
<1> DEFINE slid == IF c.shown THEN Capsule(part)!SetValue(c, fill) ELSE Capsule(part)!JumpTo(c, fill)
           drawn == IF fill = NoOne THEN [c EXCEPT !.bar = FALSE] ELSE [slid EXCEPT !.bar = TRUE, !.told = fill]
           shown == Capsule(part)!Show(drawn)
<1>1. DOMAIN slid = DOMAIN c /\ (slid.timer <=> c.timer) /\ (slid.shown <=> c.shown)
  <2>1. CASE c.shown
    BY <2>1 DEF Capsule!SetValue, Leaving
  <2>2. CASE ~c.shown
    BY <2>2 DEF Capsule!JumpTo, Leaving
  <2> QED BY <2>1, <2>2
<1> HIDE DEF slid
<1>2. DOMAIN drawn = DOMAIN c
  BY <1>1
<1> HIDE DEF drawn
<1>3. DOMAIN shown = DOMAIN c /\ shown.shown
  BY <1>2 DEF Capsule!Show, Leaving
<1> HIDE DEF shown
<1>4. Capsule(part)!Raised(c, fill) = [shown EXCEPT !.timer = TRUE]
  BY DEF Capsule!Raised, Capsule!RestartTimer, shown, drawn, slid
<1> QED BY <1>3, <1>4 DEF Leaving

LEMMA CapsuleSet ==
    ASSUME NEW part, NEW s, AllLeaving(s), NEW m, NEW c, Leaving(c)
    PROVE  /\ AllLeaving(Capsule(part)!Set(s, m, c))
           /\ DOMAIN Capsule(part)!Set(s, m, c).panel = DOMAIN s.panel
<1>1. /\ Capsule(part)!Set(s, m, c).panel = [s.panel EXCEPT ![m] = c]
      /\ DOMAIN Capsule(part)!Set(s, m, c) = {"panel", "world", "wire"}
  BY DEF Capsule!Set, AllLeaving
<1> QED BY <1>1 DEF AllLeaving

LEMMA CapsuleRaise ==
    ASSUME NEW part, NEW s, AllLeaving(s), NEW m \in DOMAIN s.panel, NEW fill
    PROVE  /\ AllLeaving(Capsule(part)!Raise(s, m, fill))
           /\ DOMAIN Capsule(part)!Raise(s, m, fill).panel = DOMAIN s.panel
<1>1. CASE ~Capsule(part)!IsHost(s, m)
  BY <1>1 DEF Capsule!Raise
<1>2. CASE Capsule(part)!IsHost(s, m)
  <2> DEFINE t == Capsule(part)!Set(s, m, Capsule(part)!Raised(s.panel[m], fill))
  <2>1. Leaving(Capsule(part)!Raised(s.panel[m], fill))
    BY CapsuleRaised DEF AllLeaving
  <2>2. AllLeaving(t) /\ DOMAIN t.panel = DOMAIN s.panel
    BY <2>1, CapsuleSet
  <2>3. Capsule(part)!Raise(s, m, fill) = [t EXCEPT !.world.lit = @ \cup {m}]
    BY <1>2 DEF Capsule!Raise
  <2> HIDE DEF t
  <2>4. Capsule(part)!Raise(s, m, fill).panel = t.panel
        /\ DOMAIN Capsule(part)!Raise(s, m, fill) = {"panel", "world", "wire"}
    BY <2>2, <2>3 DEF AllLeaving
  <2> QED BY <2>2, <2>4 DEF AllLeaving
<1> QED BY <1>1, <1>2

LEMMA CapsuleWatches ==
    ASSUME NEW part, NEW s, AllLeaving(s), NEW m \in DOMAIN s.panel
    PROVE  /\ AllLeaving(Capsule(part)!WatchLevel(s, m))
           /\ DOMAIN Capsule(part)!WatchLevel(s, m).panel = DOMAIN s.panel
           /\ AllLeaving(Capsule(part)!WatchInhibitor(s, m))
           /\ DOMAIN Capsule(part)!WatchInhibitor(s, m).panel = DOMAIN s.panel
<1> DEFINE heard == [s EXCEPT !.panel[m].heard = s.world.level.serial]
           read == [s EXCEPT !.panel[m].inhibited = s.world.inhibited]
<1>1. /\ heard.panel = [s.panel EXCEPT ![m] = [s.panel[m] EXCEPT !.heard = s.world.level.serial]]
      /\ DOMAIN heard = {"panel", "world", "wire"}
      /\ read.panel = [s.panel EXCEPT ![m] = [s.panel[m] EXCEPT !.inhibited = s.world.inhibited]]
      /\ DOMAIN read = {"panel", "world", "wire"}
  BY DEF AllLeaving
<1>2. /\ Leaving([s.panel[m] EXCEPT !.heard = s.world.level.serial])
      /\ Leaving([s.panel[m] EXCEPT !.inhibited = s.world.inhibited])
  BY DEF AllLeaving, Leaving
<1>3. /\ AllLeaving(heard) /\ DOMAIN heard.panel = DOMAIN s.panel
      /\ AllLeaving(read) /\ DOMAIN read.panel = DOMAIN s.panel
  <2> HIDE DEF heard, read
  <2> QED BY <1>1, <1>2 DEF AllLeaving
<1>4. /\ Capsule(part)!WatchLevel(s, m) \in {s, heard, Capsule(part)!Raise(heard, m, s.world.level.value)}
      /\ Capsule(part)!WatchInhibitor(s, m) \in {read, Capsule(part)!Raise(read, m, NoOne)}
  BY DEF Capsule!WatchLevel, Capsule!WatchInhibitor
<1> HIDE DEF heard, read
<1>5. /\ AllLeaving(Capsule(part)!Raise(heard, m, s.world.level.value))
      /\ DOMAIN Capsule(part)!Raise(heard, m, s.world.level.value).panel = DOMAIN s.panel
      /\ AllLeaving(Capsule(part)!Raise(read, m, NoOne))
      /\ DOMAIN Capsule(part)!Raise(read, m, NoOne).panel = DOMAIN s.panel
  BY <1>3, CapsuleRaise
<1> QED BY <1>3, <1>4, <1>5

LEMMA CapsuleBuilds ==
    ASSUME NEW part, NEW s, AllLeaving(s), NEW m
    PROVE  /\ AllLeaving(Capsule(part)!Build(s, m)) /\ AllLeaving(Capsule(part)!Gone(s, m))
           /\ m \in DOMAIN Capsule(part)!Build(s, m).panel
<1> DEFINE t == [s EXCEPT !.panel = [x \in DOMAIN @ \cup {m} |-> IF x = m THEN Capsule(part)!Fresh ELSE @[x]],
                          !.wire = {p \in @ : p[1] # m}]
           l == Capsule(part)!WatchLevel(t, m)
<1>1. Leaving(Capsule(part)!Fresh)
  BY DEF Leaving, Capsule!Fresh
<1>2. /\ t.panel = [x \in DOMAIN s.panel \cup {m} |-> IF x = m THEN Capsule(part)!Fresh ELSE s.panel[x]]
      /\ DOMAIN t = {"panel", "world", "wire"}
  BY DEF AllLeaving
<1>3. Capsule(part)!Build(s, m) = Capsule(part)!WatchInhibitor(l, m)
  BY DEF Capsule!Build
<1> HIDE DEF t
<1>4. AllLeaving(t) /\ m \in DOMAIN t.panel
  BY <1>1, <1>2 DEF AllLeaving
<1>5. AllLeaving(l) /\ m \in DOMAIN l.panel
  BY <1>4, CapsuleWatches
<1> HIDE DEF l
<1>6. AllLeaving(Capsule(part)!Build(s, m)) /\ m \in DOMAIN Capsule(part)!Build(s, m).panel
  BY <1>3, <1>5, CapsuleWatches
<1>7. AllLeaving(Capsule(part)!Gone(s, m))
  <2>1. /\ Capsule(part)!Gone(s, m).panel = [x \in DOMAIN s.panel \ {m} |-> s.panel[x]]
        /\ DOMAIN Capsule(part)!Gone(s, m) = {"panel", "world", "wire"}
    BY DEF Capsule!Gone, AllLeaving
  <2> QED BY <2>1 DEF AllLeaving
<1> QED BY <1>6, <1>7

\* What Fade leaves of a surface that is on its way, either way.
LEMMA CapsuleFades ==
    ASSUME NEW part, NEW c, Leaving(c), NEW to, c.shown \/ to = 0
    PROVE  Leaving(Capsule(part)!Fade(c, to))
<1>1. CASE c.opacity # to
  BY <1>1 DEF Capsule!Fade, Leaving
<1>2. CASE c.opacity = to
  <2> DEFINE f == [c EXCEPT !.run = NoOne, !.visible = @ /\ to = Capsule(part)!Whole]
  <2>1. Capsule(part)!Fade(c, to) = f
    BY <1>2 DEF Capsule!Fade
  <2>2. DOMAIN f = DOMAIN c /\ f.timer = c.timer /\ f.shown = c.shown
    BY DEF Leaving
  <2>3. f.visible => c.visible /\ to = Capsule(part)!Whole
    BY DEF Leaving
  <2> HIDE DEF f
  <2> QED BY <2>1, <2>2, <2>3 DEF Leaving, Capsule!Whole
<1> QED BY <1>1, <1>2

LEMMA CapsuleStarts ==
    ASSUME NEW part, Capsule(part)!Init
    PROVE  CapsuleInv
BY DEF CapsuleInv, Leaving, Capsule!Init, Capsule!Fresh

LEMMA CapsuleRests ==
    ASSUME NEW part, CapsuleInv, NEW m \in DOMAIN panel, NEW c, Leaving(c),
           Capsule(part)!Become(Capsule(part)!Set(Capsule(part)!Now, m, c))
    PROVE  CapsuleInv'
<1>1. panel' = [panel EXCEPT ![m] = c]
  BY DEF Capsule!Become, Capsule!Set, Capsule!Now
<1> QED BY <1>1 DEF CapsuleInv

LEMMA CapsuleBecomes ==
    ASSUME NEW part, NEW s, AllLeaving(s), Capsule(part)!Become(s)
    PROVE  CapsuleInv'
BY DEF AllLeaving, CapsuleInv, Capsule!Become

LEMMA CapsuleMoves ==
    ASSUME NEW part, CapsuleInv, Capsule(part)!Clock \/ Capsule(part)!Idle
    PROVE  CapsuleInv'
<1>1. CASE Capsule(part)!Frame
  <2> DEFINE c(m) == [panel[m] EXCEPT !.opacity = Capsule(part)!Step(panel[m])]
             d(m) == IF c(m).opacity = c(m).run THEN Capsule(part)!Fade(c(m), c(m).run) ELSE c(m)
  <2>1. PICK m \in DOMAIN panel :
          panel[m].visible /\ Capsule(part)!Become(Capsule(part)!Set(Capsule(part)!Now, m, d(m)))
    BY <1>1 DEF Capsule!Frame
  <2>2. Leaving(c(m)) /\ (c(m).shown <=> panel[m].shown) /\ c(m).run = panel[m].run
    BY DEF CapsuleInv, Leaving
  <2>3. panel[m].shown \/ panel[m].run = 0
    BY <2>1 DEF CapsuleInv, Leaving
  <2> HIDE DEF c
  <2>4. Leaving(d(m))
    BY <2>2, <2>3, CapsuleFades
  <2> QED BY <2>1, <2>4, CapsuleRests
<1>2. CASE Capsule(part)!Slide
  <2>1. PICK m \in DOMAIN panel :
          Capsule(part)!Become(Capsule(part)!Set(Capsule(part)!Now, m, Capsule(part)!JumpTo(panel[m], panel[m].slide)))
    BY <1>2 DEF Capsule!Slide
  <2>2. Leaving(Capsule(part)!JumpTo(panel[m], panel[m].slide))
    BY DEF CapsuleInv, Leaving, Capsule!JumpTo
  <2> QED BY <2>1, <2>2, CapsuleRests
<1>3. CASE Capsule(part)!Countdown
  <2> DEFINE c(m) == [panel[m] EXCEPT !.timer = FALSE]
             d(m) == [c(m) EXCEPT !.shown = FALSE]
  <2>1. PICK m \in DOMAIN panel :
          panel[m].timer /\ Capsule(part)!Become(Capsule(part)!Set(Capsule(part)!Now, m, Capsule(part)!Dismiss(c(m))))
    BY <1>3 DEF Capsule!Countdown
  <2>2. /\ DOMAIN d(m) = DOMAIN panel[m] /\ ~d(m).shown /\ ~d(m).timer
    BY DEF CapsuleInv, Leaving
  <2>3. Capsule(part)!Dismiss(c(m)) = Capsule(part)!Fade(d(m), 0)
    BY <2>1 DEF CapsuleInv, Leaving, Capsule!Dismiss
  <2> HIDE DEF c, d
  <2>4. Leaving(Capsule(part)!Fade(d(m), 0))
    <3>1. DOMAIN d(m) = {"heard", "inhibited", "shown", "visible", "opacity", "run", "idle", "timer", "bar",
                   "fill", "slide", "told"}
      BY <2>2 DEF CapsuleInv, Leaving
    <3>2. CASE d(m).opacity # 0
      BY <2>2, <3>1, <3>2 DEF Capsule!Fade, Leaving
    <3>3. CASE d(m).opacity = 0
      <4> DEFINE f == [d(m) EXCEPT !.run = NoOne, !.visible = @ /\ 0 = Capsule(part)!Whole]
      <4>1. Capsule(part)!Fade(d(m), 0) = f
        BY <3>3 DEF Capsule!Fade
      <4>2. DOMAIN f = DOMAIN d(m) /\ f.timer = d(m).timer /\ f.shown = d(m).shown
        BY <3>1
      <4>3. f.visible => 0 = Capsule(part)!Whole
        BY <3>1
      <4> HIDE DEF f
      <4> QED BY <2>2, <3>1, <4>1, <4>2, <4>3 DEF Leaving, Capsule!Whole
    <3> QED BY <3>2, <3>3
  <2> QED BY <2>1, <2>3, <2>4, CapsuleRests
<1>4. CASE Capsule(part)!Idle
  <2> DEFINE c(m) == [panel[m] EXCEPT !.idle = FALSE]
             d(m) == IF c(m).shown THEN Capsule(part)!Fade(c(m), Capsule(part)!Whole) ELSE c(m)
  <2>1. PICK m \in DOMAIN panel : Capsule(part)!Become(Capsule(part)!Set(Capsule(part)!Now, m, d(m)))
    BY <1>4 DEF Capsule!Idle
  <2>2. Leaving(c(m))
    BY DEF CapsuleInv, Leaving
  <2> HIDE DEF c
  <2>3. Leaving(d(m))
    BY <2>2, CapsuleFades
  <2> QED BY <2>1, <2>3, CapsuleRests
<1> QED BY <1>1, <1>2, <1>3, <1>4 DEF Capsule!Clock

LEMMA CapsuleSteps ==
    ASSUME NEW part, CapsuleInv, Capsule(part)!Next
    PROVE  CapsuleInv'
<1>0. AllLeaving(Capsule(part)!Now)
  BY DEF CapsuleInv, AllLeaving, Capsule!Now
<1>1. CASE Capsule(part)!Called
  <2> DEFINE s(m, what) == [Capsule(part)!Now EXCEPT !.wire = @ \ {<<m, what>>}]
  <2>1. PICK m \in DOMAIN panel, what \in Capsule(part)!Snapshots :
          Capsule(part)!Become(IF what = "level" THEN Capsule(part)!WatchLevel(s(m, what), m)
                               ELSE Capsule(part)!WatchInhibitor(s(m, what), m))
    BY <1>1 DEF Capsule!Called
  <2>2. AllLeaving(s(m, what)) /\ m \in DOMAIN s(m, what).panel
    BY <1>0 DEF AllLeaving, Capsule!Now
  <2> HIDE DEF s
  <2>3. AllLeaving(IF what = "level" THEN Capsule(part)!WatchLevel(s(m, what), m)
                   ELSE Capsule(part)!WatchInhibitor(s(m, what), m))
    BY <2>2, CapsuleWatches
  <2> QED BY <2>1, <2>3, CapsuleBecomes
<1>2. CASE Capsule(part)!Clock \/ Capsule(part)!Idle
  BY <1>2, CapsuleMoves
<1>3. CASE Capsule(part)!Sync
  <2>1. PICK m \in part.monitors :
          \/ Capsule(part)!Become(Capsule(part)!Build(Capsule(part)!Now, m))
          \/ Capsule(part)!Become(Capsule(part)!Gone(Capsule(part)!Now, m))
    BY <1>3 DEF Capsule!Sync
  <2> QED BY <1>0, <2>1, CapsuleBuilds, CapsuleBecomes
<1>4. CASE Capsule(part)!TakeFrame
  <2> DEFINE s == [Capsule(part)!Now EXCEPT !.world.moves = @ + 1]
             host == Capsule(part)!HostingOutput(world)
  <2>1. PICK v \in part.values :
          Capsule(part)!Become(IF host \in DOMAIN panel THEN Capsule(part)!Raise(s, host, v) ELSE s)
    BY <1>4 DEF Capsule!TakeFrame
  <2>2. AllLeaving(s) /\ DOMAIN s.panel = DOMAIN panel
    BY <1>0 DEF AllLeaving, Capsule!Now
  <2> HIDE DEF s, host
  <2>3. AllLeaving(IF host \in DOMAIN panel THEN Capsule(part)!Raise(s, host, v) ELSE s)
    BY <2>2, CapsuleRaise
  <2> QED BY <2>1, <2>3, CapsuleBecomes
<1>5. CASE Capsule(part)!Reload
  <2> DEFINE s == [Capsule(part)!Now EXCEPT !.world.moves = @ + 1, !.world.lit = {}, !.world.reloaded = TRUE]
             built == [m \in DOMAIN panel |-> Capsule(part)!Build(Capsule(part)!Gone(s, m), m)]
             to == [s EXCEPT !.panel = [m \in DOMAIN panel |-> built[m].panel[m]],
                             !.world.lit = UNION {built[m].world.lit : m \in DOMAIN panel},
                             !.wire = {p \in @ : p[1] \notin DOMAIN panel}]
  <2>1. Capsule(part)!Become(to)
    BY <1>5 DEF Capsule!Reload
  <2>2. AllLeaving(s) /\ DOMAIN s = {"panel", "world", "wire"}
    BY <1>0 DEF AllLeaving, Capsule!Now
  <2> HIDE DEF s
  <2>3. \A m \in DOMAIN panel : AllLeaving(built[m]) /\ m \in DOMAIN built[m].panel
    BY <2>2, CapsuleBuilds
  <2> HIDE DEF built
  <2>4. panel' = [m \in DOMAIN panel |-> built[m].panel[m]]
    BY <2>1, <2>2 DEF Capsule!Become
  <2> QED BY <2>3, <2>4 DEF AllLeaving, CapsuleInv
<1>6. CASE \/ Capsule(part)!Change \/ Capsule(part)!Inhibit \/ Capsule(part)!FocusMoves
           \/ Capsule(part)!Plug \/ Capsule(part)!Described
  <2>1. panel' = panel
    <3>1. CASE Capsule(part)!Change
      <4> DEFINE news == Capsule(part)!News(Capsule(part)!Now, "level")
                 to(source, v) ==
                   [news EXCEPT !.world.level = [serial |-> @.serial + 1, source |-> source, value |-> v],
                                !.world.lit = {}, !.world.reloaded = FALSE]
      <4>1. PICK source, v : Capsule(part)!Become(to(source, v))
        BY <3>1 DEF Capsule!Change
      <4>2. news.panel = panel /\ DOMAIN news = {"panel", "world", "wire"}
        BY DEF Capsule!News, Capsule!Now
      <4> HIDE DEF news
      <4> QED BY <4>1, <4>2 DEF Capsule!Become
    <3>2. CASE Capsule(part)!Inhibit
      <4> DEFINE news == Capsule(part)!News(Capsule(part)!Now, "inhibitor")
      <4>1. Capsule(part)!Become([news EXCEPT !.world.inhibited = ~@, !.world.lit = {}])
        BY <3>2 DEF Capsule!Inhibit
      <4>2. news.panel = panel /\ DOMAIN news = {"panel", "world", "wire"}
        BY DEF Capsule!News, Capsule!Now
      <4> HIDE DEF news
      <4> QED BY <4>1, <4>2 DEF Capsule!Become
    <3>3. CASE Capsule(part)!FocusMoves
      BY <3>3 DEF Capsule!FocusMoves, Capsule!Become, Capsule!Now
    <3>4. CASE Capsule(part)!Plug
      <4> DEFINE in(m) == [Capsule(part)!Now EXCEPT !.world.listed = @ \cup {m}, !.world.moves = @ + 1]
                 out(m) == [Capsule(part)!Now EXCEPT !.world.listed = @ \ {m}, !.world.described = @ \ {m},
                                                     !.world.moves = @ + 1]
      <4>1. PICK m : Capsule(part)!Become(in(m)) \/ Capsule(part)!Become(out(m))
        BY <3>4 DEF Capsule!Plug
      <4>2. in(m).panel = panel /\ out(m).panel = panel
        BY DEF Capsule!Now
      <4> HIDE DEF in, out
      <4> QED BY <4>1, <4>2 DEF Capsule!Become
    <3>5. CASE Capsule(part)!Described
      BY <3>5 DEF Capsule!Described, Capsule!Become, Capsule!Now
    <3> QED BY <1>6, <3>1, <3>2, <3>3, <3>4, <3>5
  <2> QED BY <2>1 DEF CapsuleInv
<1> QED BY <1>1, <1>2, <1>3, <1>4, <1>5, <1>6 DEF Capsule!Next, Capsule!Turn, Capsule!Daemon

LEMMA CapsuleStays ==
    ASSUME CapsuleInv, UNCHANGED panel
    PROVE  CapsuleInv'
BY DEF CapsuleInv

-----------------------------------------------------------------------------
(* The requests.                                                           *)

\* A connection nobody waits on has nothing on it; one that is waited on has the one request
\* or the one reply.
Silent(line) == line.back = <<>> /\ (line.open => line.to = <<>>)
Own(line, a) ==
    \/ Silent(line)
    \/ line.back = <<>> /\ \E step : line.to = <<[a |-> a, step |-> step]>>
    \/ (\E how : line.back = <<[a |-> a, how |-> how]>>) /\ (line.open => line.to = <<>>)

RequestsShape(part) ==
    /\ DOMAIN panel = {"ask", "step", "at", "fresh", "by", "line", "conn"}
    /\ DOMAIN panel.ask = part.asks /\ DOMAIN panel.at = part.asks /\ DOMAIN panel.by = part.asks
    /\ panel.line \in Seq(part.asks)
    /\ panel.conn \in DOMAIN wire \cup {NoOne}
    /\ DOMAIN world = {"up", "made", "moves"} /\ world.made \in Nat
    /\ DOMAIN wire = 1..world.made
    /\ \A c \in DOMAIN wire : DOMAIN wire[c] = {"open", "to", "back"}

\* The one that waits for a reply has the lock.
HolderInv(part) ==
    \A a \in part.asks :
        /\ panel.ask[a] = "sent" => panel.line # <<>> /\ Head(panel.line) = a /\ panel.at[a] \in DOMAIN wire
        /\ "late" \notin part.does =>
              panel.ask[a] # "throwing" /\ (panel.ask[a] = "done" => panel.by[a] = a)

\* A connection is live when it is the one behind the lock, or waited on; what a request that
\* gave up leaves on it is there until that one has thrown the connection away.
NobodyThrows(part) == \A a \in part.asks : panel.ask[a] # "throwing"
Bears(part, c) ==
    \/ panel.conn # NoOne /\ c = panel.conn
    \/ \E a \in part.asks : panel.ask[a] = "sent" /\ panel.at[a] = c
Carries(part, c) ==
    \/ Silent(wire[c])
    \/ \E a \in part.asks : panel.ask[a] = "sent" /\ panel.at[a] = c /\ Own(wire[c], a)
LinesInv(part) == NobodyThrows(part) => \A c \in DOMAIN wire : Bears(part, c) => Carries(part, c)

RequestsInv(part) == RequestsShape(part) /\ HolderInv(part) /\ LinesInv(part)

LEMMA RequestsPromise ==
    ASSUME NEW part, RequestsInv(part)
    PROVE  /\ Requests(part)!StraysAreThrown
           /\ "late" \notin part.does => Requests(part)!RepliesGoHome
<1>1. ASSUME NobodyThrows(part), NEW a \in part.asks, panel.ask[a] = "sent",
             NEW i \in DOMAIN wire[panel.at[a]].back
      PROVE  wire[panel.at[a]].back[i].a = a
  <2>1. Carries(part, panel.at[a])
    BY <1>1 DEF RequestsInv, LinesInv, HolderInv, Bears
  <2>2. \A b \in part.asks : panel.ask[b] = "sent" => b = a
    BY <1>1 DEF RequestsInv, HolderInv
  <2>3. Silent(wire[panel.at[a]]) \/ Own(wire[panel.at[a]], a)
    BY <2>1, <2>2 DEF Carries
  <2>4. wire[panel.at[a]].back = <<>> \/ \E how : wire[panel.at[a]].back = <<[a |-> a, how |-> how]>>
    BY <2>3 DEF Silent, Own
  <2>5. CASE wire[panel.at[a]].back = <<>>
    BY <1>1, <2>5
  <2>6. ASSUME NEW how, wire[panel.at[a]].back = <<[a |-> a, how |-> how]>>
        PROVE  wire[panel.at[a]].back[i].a = a
    <3> DEFINE m == [a |-> a, how |-> how]
    <3>1. wire[panel.at[a]].back = <<m>> /\ m.a = a
      BY <2>6
    <3> HIDE DEF m
    <3>2. i = 1
      BY <1>1, <3>1
    <3> QED BY <3>1, <3>2
  <2> QED BY <2>4, <2>5, <2>6
<1>2. Requests(part)!StraysAreThrown
  BY <1>1 DEF Requests!StraysAreThrown, NobodyThrows
<1> QED BY <1>2 DEF RequestsInv, HolderInv, Requests!RepliesGoHome

LEMMA RequestsStart ==
    ASSUME NEW part, Requests(part)!Init
    PROVE  RequestsInv(part)
BY DEF RequestsInv, RequestsShape, HolderInv, LinesInv, Requests!Init

\* The holder has written to a connection: to one that was silent, or to a new one.
LEMMA RequestsWrite ==
    ASSUME NEW part, RequestsShape(part), HolderInv(part), LinesInv(part),
           NEW a \in part.asks, NEW c, panel.line # <<>>, Head(panel.line) = a,
           panel.ask[a] # "throwing", panel.ask[a] = "sent" => Silent(wire[panel.at[a]]),
           DOMAIN panel' = DOMAIN panel, panel'.line = panel.line, panel'.by = panel.by,
           DOMAIN panel'.ask = part.asks, DOMAIN panel'.at = part.asks, panel'.ask[a] = "sent", panel'.at[a] = c,
           \A b \in part.asks \ {a} : panel'.ask[b] = panel.ask[b] /\ panel'.at[b] = panel.at[b],
           panel'.conn \in {panel.conn, NoOne},
           DOMAIN world' = DOMAIN world, world'.made \in Nat, DOMAIN wire' = 1..world'.made,
           DOMAIN wire \subseteq DOMAIN wire', c \in DOMAIN wire',
           \A x \in DOMAIN wire' \ {c} : x \in DOMAIN wire /\ wire'[x] = wire[x],
           DOMAIN wire'[c] = {"open", "to", "back"}, NobodyThrows(part) => Own(wire'[c], a)
    PROVE  RequestsInv(part)'
<1>1. RequestsShape(part)'
  BY DEF RequestsShape
<1>2. \A b \in part.asks : panel.ask[b] = "sent" => b = a
  BY DEF HolderInv
<1>3. HolderInv(part)'
  BY <1>2 DEF HolderInv, RequestsShape
<1>4. LinesInv(part)'
  <2> SUFFICES ASSUME NobodyThrows(part)', NEW x \in DOMAIN wire', Bears(part, x)'
               PROVE  \/ Silent(wire'[x])
                      \/ \E b \in part.asks : panel'.ask[b] = "sent" /\ panel'.at[b] = x /\ Own(wire'[x], b)
    BY DEF LinesInv, Carries, Silent, Own
  <2>0. NobodyThrows(part)
    BY DEF NobodyThrows
  <2>1. CASE x = c
    <3>1. panel'.ask[a] = "sent" /\ panel'.at[a] = c
      BY DEF RequestsShape
    <3> QED BY <2>0, <2>1, <3>1
  <2>2. CASE x # c
    <3>1. x \in DOMAIN wire /\ wire'[x] = wire[x]
      BY <2>2
    <3>2. panel'.conn # NoOne /\ x = panel'.conn
      BY <1>2, <2>2 DEF Bears
    <3>3. Bears(part, x)
      BY <3>2 DEF Bears
    <3>4. Silent(wire[x])
      BY <1>2, <2>0, <3>1, <3>3 DEF LinesInv, Carries
    <3> QED BY <3>1, <3>4
  <2> QED BY <2>1, <2>2
<1> QED BY <1>1, <1>3, <1>4 DEF RequestsInv

LEMMA Appended ==
    ASSUME NEW S, NEW q \in Seq(S), NEW e \in S
    PROVE  Append(q, e) \in Seq(S)
OBVIOUS

\* The holder has let go of the lock, to be done or to ask for it again.
LEMMA RequestsEnd ==
    ASSUME NEW part, RequestsShape(part), HolderInv(part), LinesInv(part),
           NEW a \in part.asks, NEW how, panel.line # <<>>, Head(panel.line) = a, how \notin {"sent", "throwing"},
           DOMAIN panel' = DOMAIN panel,
           DOMAIN panel'.ask = part.asks, DOMAIN panel'.at = part.asks, DOMAIN panel'.by = part.asks,
           panel'.ask[a] = how,
           \A b \in part.asks \ {a} :
               panel'.ask[b] = panel.ask[b] /\ panel'.at[b] = panel.at[b] /\ panel'.by[b] = panel.by[b],
           "late" \notin part.does => (how = "done" => panel'.by[a] = a),
           panel'.line \in {Tail(panel.line), Append(Tail(panel.line), a)},
           panel'.conn \in DOMAIN wire \cup {NoOne},
           panel'.conn # NoOne => panel'.conn = panel.conn \/ (panel.ask[a] = "sent" /\ panel'.conn = panel.at[a]),
           panel'.conn # NoOne => panel.ask[a] # "throwing",
           world' = world, DOMAIN wire' = DOMAIN wire, \A x \in DOMAIN wire : DOMAIN wire'[x] = DOMAIN wire[x],
           NobodyThrows(part) =>
               /\ \A x \in DOMAIN wire : wire'[x] = wire[x] \/ Silent(wire'[x])
               /\ panel.ask[a] = "sent" => Silent(wire'[panel.at[a]])
    PROVE  RequestsInv(part)'
<1>1. RequestsShape(part)'
  <2>1. Tail(panel.line) \in Seq(part.asks)
    BY DEF RequestsShape
  <2>2. Append(Tail(panel.line), a) \in Seq(part.asks)
    BY <2>1, Appended
  <2>3. panel'.line \in Seq(part.asks)
    BY <2>1, <2>2
  <2> QED BY <2>3 DEF RequestsShape
<1>2. \A b \in part.asks : panel.ask[b] = "sent" => b = a
  BY DEF HolderInv
<1>3. HolderInv(part)'
  BY <1>2 DEF HolderInv, RequestsShape
<1>4. LinesInv(part)'
  <2> SUFFICES ASSUME NobodyThrows(part)', NEW x \in DOMAIN wire', Bears(part, x)'
               PROVE  Silent(wire'[x])
    BY DEF LinesInv, Carries, Silent, Own
  <2>1. panel'.conn # NoOne /\ x = panel'.conn
    BY <1>2 DEF Bears
  <2>2. NobodyThrows(part) /\ Bears(part, x)
    BY <2>1 DEF NobodyThrows, Bears
  <2>3. CASE wire'[x] = wire[x] /\ ~Silent(wire[x])
    <3>1. panel.ask[a] = "sent" /\ panel.at[a] = x
      BY <1>2, <2>2, <2>3 DEF LinesInv, Carries
    <3> QED BY <2>2, <3>1
  <2> QED BY <2>2, <2>3
<1> QED BY <1>1, <1>3, <1>4 DEF RequestsInv

\* Ended, of a state that is the present one but for the connection behind the lock.
LEMMA RequestsEnded ==
    ASSUME NEW part, NEW s, NEW a, NEW how, NEW rest, rest = Tail(s.panel.line),
           DOMAIN s = {"panel", "world", "wire"},
           {"line", "ask", "at", "by", "conn"} \subseteq DOMAIN s.panel,
           a \in DOMAIN s.panel.ask, DOMAIN s.panel.at = DOMAIN s.panel.ask
    PROVE  LET t == Requests(part)!Ended(s, a, how) IN
           /\ t.world = s.world /\ t.wire = s.wire /\ DOMAIN t.panel = DOMAIN s.panel
           /\ t.panel.line = rest /\ t.panel.by = s.panel.by /\ t.panel.conn = s.panel.conn
           /\ DOMAIN t.panel.ask = DOMAIN s.panel.ask /\ DOMAIN t.panel.at = DOMAIN s.panel.ask
           /\ t.panel.ask[a] = how
           /\ \A b \in DOMAIN s.panel.ask \ {a} :
                 t.panel.ask[b] = s.panel.ask[b] /\ t.panel.at[b] = s.panel.at[b]
<1> DEFINE r == Requests(part)!Released(s)
           t == Requests(part)!Ended(s, a, how)
<1>1. r.panel = [s.panel EXCEPT !.line = Tail(s.panel.line)] /\ r.world = s.world /\ r.wire = s.wire
      /\ DOMAIN r = {"panel", "world", "wire"}
  BY DEF Requests!Released
<1>2. DOMAIN r.panel = DOMAIN s.panel /\ r.panel.line = Tail(s.panel.line) /\ r.panel.by = s.panel.by
      /\ r.panel.conn = s.panel.conn /\ r.panel.ask = s.panel.ask /\ r.panel.at = s.panel.at
  BY <1>1
<1>3. t = [r EXCEPT !.panel.ask[a] = how, !.panel.at[a] = NoOne]
  BY DEF Requests!Ended
<1> HIDE DEF r, t
<1>4. t.world = s.world /\ t.wire = s.wire
      /\ t.panel = [r.panel EXCEPT !.ask = [r.panel.ask EXCEPT ![a] = how], !.at = [r.panel.at EXCEPT ![a] = NoOne]]
  BY <1>1, <1>3
<1>5. /\ DOMAIN t.panel = DOMAIN s.panel
      /\ t.panel.line = Tail(s.panel.line) /\ t.panel.by = s.panel.by /\ t.panel.conn = s.panel.conn
      /\ t.panel.ask = [s.panel.ask EXCEPT ![a] = how] /\ t.panel.at = [s.panel.at EXCEPT ![a] = NoOne]
  BY <1>2, <1>4
<1> QED BY <1>4, <1>5 DEF t

\* Write, on a connection there is.
LEMMA RequestsWritten ==
    ASSUME NEW part, NEW s, NEW a, NEW c \in DOMAIN s.wire, DOMAIN s = {"panel", "world", "wire"},
           {"line", "ask", "at", "by", "conn"} \subseteq DOMAIN s.panel,
           a \in DOMAIN s.panel.ask, DOMAIN s.panel.at = DOMAIN s.panel.ask,
           DOMAIN s.wire[c] = {"open", "to", "back"}
    PROVE  LET t == Requests(part)!Write(s, a, c) IN
           /\ t.world = s.world /\ DOMAIN t.panel = DOMAIN s.panel
           /\ t.panel.line = s.panel.line /\ t.panel.by = s.panel.by /\ t.panel.conn = s.panel.conn
           /\ DOMAIN t.panel.ask = DOMAIN s.panel.ask /\ DOMAIN t.panel.at = DOMAIN s.panel.ask
           /\ t.panel.ask[a] = "sent" /\ t.panel.at[a] = c
           /\ \A b \in DOMAIN s.panel.ask \ {a} :
                 t.panel.ask[b] = s.panel.ask[b] /\ t.panel.at[b] = s.panel.at[b]
           /\ DOMAIN t.wire = DOMAIN s.wire /\ \A x \in DOMAIN s.wire \ {c} : t.wire[x] = s.wire[x]
           /\ DOMAIN t.wire[c] = {"open", "to", "back"} /\ (Silent(s.wire[c]) => Own(t.wire[c], a))
<1> DEFINE t == Requests(part)!Write(s, a, c)
           r == [a |-> a, step |-> s.panel.step[a]]
           to == IF s.wire[c].open THEN Append(s.wire[c].to, r) ELSE s.wire[c].to
<1>1. t = [s EXCEPT !.panel.at[a] = c, !.panel.ask[a] = "sent", !.wire[c].to = to]
  BY DEF Requests!Write
<1> HIDE DEF t, to, r
<1>2. /\ t.world = s.world
      /\ t.panel = [s.panel EXCEPT !.at = [s.panel.at EXCEPT ![a] = c], !.ask = [s.panel.ask EXCEPT ![a] = "sent"]]
      /\ t.wire = [s.wire EXCEPT ![c] = [s.wire[c] EXCEPT !.to = to]]
  BY <1>1
<1>3. /\ DOMAIN t.panel = DOMAIN s.panel
      /\ t.panel.line = s.panel.line /\ t.panel.by = s.panel.by /\ t.panel.conn = s.panel.conn
      /\ t.panel.ask = [s.panel.ask EXCEPT ![a] = "sent"] /\ t.panel.at = [s.panel.at EXCEPT ![a] = c]
  BY <1>2
<1>4. /\ DOMAIN t.wire = DOMAIN s.wire /\ \A x \in DOMAIN s.wire \ {c} : t.wire[x] = s.wire[x]
      /\ DOMAIN t.wire[c] = {"open", "to", "back"} /\ t.wire[c].to = to
      /\ t.wire[c].back = s.wire[c].back /\ t.wire[c].open = s.wire[c].open
  BY <1>2
<1>5. ASSUME Silent(s.wire[c])
      PROVE  Own(t.wire[c], a)
  <2>1. CASE s.wire[c].open
    <3>1. Append(<<>>, r) = <<r>> /\ s.wire[c].to = <<>>
      BY <1>5, <2>1 DEF Silent
    <3>2. to = <<r>>
      BY <2>1, <3>1 DEF to
    <3> QED BY <1>4, <1>5, <3>2 DEF Own, Silent, r
  <2>2. CASE ~s.wire[c].open
    BY <1>4, <1>5, <2>2 DEF Own, Silent
  <2> QED BY <2>1, <2>2
<1> QED BY <1>2, <1>3, <1>4, <1>5 DEF t

LEMMA RequestsFresh ==
    ASSUME NEW part, RequestsShape(part), HolderInv(part), LinesInv(part),
           NEW a \in part.asks, panel.line # <<>>, Head(panel.line) = a,
           panel.ask[a] # "throwing", panel.ask[a] = "sent" => Silent(wire[panel.at[a]]),
           NEW s, DOMAIN s = {"panel", "world", "wire"}, s.world = world, s.wire = wire,
           DOMAIN s.panel = DOMAIN panel, s.panel.conn \in {panel.conn, NoOne}, s.panel.line = panel.line,
           s.panel.by = panel.by, s.panel.ask = panel.ask, s.panel.at = panel.at,
           Requests(part)!Become(Requests(part)!Fresh(s, a))
    PROVE  RequestsInv(part)'
<1>2. /\ {"line", "ask", "at", "by", "conn"} \subseteq DOMAIN s.panel
      /\ DOMAIN s.panel.ask = part.asks /\ DOMAIN s.panel.at = part.asks
  BY DEF RequestsShape
<1>3. CASE world.up
  <2> DEFINE c == world.made + 1
             new == [open |-> TRUE, to |-> <<>>, back |-> <<>>]
             f == [s EXCEPT !.world.made = c, !.panel.fresh[a] = TRUE,
                            !.wire = [x \in 1..c |-> IF x = c THEN new ELSE @[x]]]
             t == Requests(part)!Write(f, a, c)
  <2>1. Requests(part)!Become(t)
    BY <1>3 DEF Requests!Fresh
  <2>2. panel' = t.panel /\ world' = t.world /\ wire' = t.wire
    BY <2>1 DEF Requests!Become
  <2> HIDE DEF c
  <2>3. /\ f.panel = [s.panel EXCEPT !.fresh = [@ EXCEPT ![a] = TRUE]] /\ f.world = [world EXCEPT !.made = c]
        /\ f.wire = [x \in 1..c |-> IF x = c THEN new ELSE wire[x]] /\ DOMAIN f = {"panel", "world", "wire"}
    OBVIOUS
  <2> HIDE DEF f
  <2>4. /\ DOMAIN f.panel = DOMAIN panel /\ f.panel.conn \in {panel.conn, NoOne}
        /\ f.panel.line = panel.line /\ f.panel.by = panel.by /\ f.panel.ask = panel.ask /\ f.panel.at = panel.at
    BY <2>3
  <2>5. /\ DOMAIN f.world = DOMAIN world /\ f.world.made = c /\ c \in Nat /\ c \in 1..c
        /\ DOMAIN f.wire = 1..c /\ DOMAIN wire = 1..c - 1
    BY <2>3 DEF RequestsShape, c
  <2>6. f.wire[c] = new /\ \A x \in 1..c - 1 : f.wire[x] = wire[x]
    BY <2>3, <2>5
  <2>7. DOMAIN f.wire[c] = {"open", "to", "back"} /\ Silent(f.wire[c])
    BY <2>6 DEF Silent
  <2> HIDE DEF new
  <2>8. /\ {"line", "ask", "at", "by", "conn"} \subseteq DOMAIN f.panel
        /\ DOMAIN f.panel.ask = part.asks /\ DOMAIN f.panel.at = part.asks
    BY <1>2, <2>4
  <2>9. /\ t.world = f.world /\ DOMAIN t.panel = DOMAIN f.panel
        /\ t.panel.line = f.panel.line /\ t.panel.by = f.panel.by /\ t.panel.conn = f.panel.conn
        /\ DOMAIN t.panel.ask = part.asks /\ DOMAIN t.panel.at = part.asks
        /\ t.panel.ask[a] = "sent" /\ t.panel.at[a] = c
        /\ \A b \in part.asks \ {a} : t.panel.ask[b] = f.panel.ask[b] /\ t.panel.at[b] = f.panel.at[b]
        /\ DOMAIN t.wire = DOMAIN f.wire /\ \A x \in DOMAIN f.wire \ {c} : t.wire[x] = f.wire[x]
        /\ DOMAIN t.wire[c] = {"open", "to", "back"} /\ Own(t.wire[c], a)
    <3>1. c \in DOMAIN f.wire
      BY <2>5
    <3> QED BY <2>3, <2>7, <2>8, <3>1, RequestsWritten
  <2> HIDE DEF t
  <2>10. \A x \in DOMAIN wire' \ {c} : x \in DOMAIN wire /\ wire'[x] = wire[x]
    BY <2>2, <2>5, <2>6, <2>9
  <2>11. DOMAIN wire \subseteq DOMAIN wire' /\ c \in DOMAIN wire' /\ DOMAIN wire' = 1..world'.made
         /\ world'.made \in Nat
    BY <2>2, <2>5, <2>9
  <2> QED BY <2>2, <2>4, <2>5, <2>9, <2>10, <2>11, RequestsWrite
<1>4. CASE ~world.up
  <2> DEFINE t == Requests(part)!Ended(s, a, "failed")
  <2>1. Requests(part)!Become(t)
    BY <1>4 DEF Requests!Fresh
  <2>2. panel' = t.panel /\ world' = t.world /\ wire' = t.wire
    BY <2>1 DEF Requests!Become
  <2>3. /\ t.world = s.world /\ t.wire = s.wire /\ DOMAIN t.panel = DOMAIN s.panel
        /\ t.panel.line = Tail(s.panel.line) /\ t.panel.by = s.panel.by /\ t.panel.conn = s.panel.conn
        /\ DOMAIN t.panel.ask = part.asks /\ DOMAIN t.panel.at = part.asks /\ t.panel.ask[a] = "failed"
        /\ \A b \in part.asks \ {a} : t.panel.ask[b] = s.panel.ask[b] /\ t.panel.at[b] = s.panel.at[b]
    <3> DEFINE rest == Tail(s.panel.line)
               how == "failed"
               u == Requests(part)!Ended(s, a, how)
    <3>1. rest = Tail(s.panel.line) /\ u = t
      OBVIOUS
    <3> HIDE DEF rest, how
    <3>2. /\ u.world = s.world /\ u.wire = s.wire /\ DOMAIN u.panel = DOMAIN s.panel
          /\ u.panel.line = rest /\ u.panel.by = s.panel.by /\ u.panel.conn = s.panel.conn
          /\ DOMAIN u.panel.ask = part.asks /\ DOMAIN u.panel.at = part.asks /\ u.panel.ask[a] = how
          /\ \A b \in part.asks \ {a} : u.panel.ask[b] = s.panel.ask[b] /\ u.panel.at[b] = s.panel.at[b]
      BY <1>2, <3>1, RequestsEnded
    <3> HIDE DEF t, u
    <3> QED BY <3>1, <3>2 DEF how
  <2> HIDE DEF t
  <2>4. /\ panel'.conn \in DOMAIN wire \cup {NoOne} /\ DOMAIN panel'.by = part.asks
        /\ panel'.conn # NoOne => panel'.conn = panel.conn
    BY <2>2, <2>3 DEF RequestsShape
  <2> QED BY <2>2, <2>3, <2>4, RequestsEnd
<1> QED BY <1>3, <1>4

LEMMA RequestsBegin ==
    ASSUME NEW part, Requests(part)!ConstantsOK, RequestsShape(part), HolderInv(part), LinesInv(part),
           Requests(part)!Begin
    PROVE  RequestsInv(part)'
<1> DEFINE written(a) == Requests(part)!Write(Requests(part)!Now, a, panel.conn)
<1>1. PICK a \in part.asks :
        /\ panel.ask[a] = "queued" /\ Requests(part)!Holder = a
        /\ Requests(part)!Become(IF panel.conn # NoOne THEN written(a)
                                 ELSE Requests(part)!Fresh(Requests(part)!Now, a))
  BY DEF Requests!Begin
<1>2. panel.line # <<>> /\ Head(panel.line) = a
  BY <1>1 DEF Requests!Holder, Requests!ConstantsOK
<1>3. CASE panel.conn # NoOne
  <2>1. panel.conn \in DOMAIN wire
    BY <1>3 DEF RequestsShape
  <2>2. NobodyThrows(part) => Silent(wire[panel.conn])
    BY <1>1, <1>2, <1>3, <2>1 DEF LinesInv, HolderInv, Bears, Carries
  <2>3. Requests(part)!Become(written(a))
    BY <1>1, <1>3
  <2>4. panel' = written(a).panel /\ world' = written(a).world /\ wire' = written(a).wire
    BY <2>3 DEF Requests!Become
  <2> DEFINE s == Requests(part)!Now
  <2>5. DOMAIN s = {"panel", "world", "wire"} /\ s.panel = panel /\ s.world = world /\ s.wire = wire
    BY DEF Requests!Now
  <2> HIDE DEF s
  <2>6. /\ {"line", "ask", "at", "by", "conn"} \subseteq DOMAIN panel
        /\ DOMAIN panel.ask = part.asks /\ DOMAIN panel.at = part.asks
        /\ DOMAIN wire[panel.conn] = {"open", "to", "back"}
    BY <2>1 DEF RequestsShape
  <2> DEFINE t == Requests(part)!Write(s, a, panel.conn)
  <2>7. /\ t.world = world /\ DOMAIN t.panel = DOMAIN panel
        /\ t.panel.line = panel.line /\ t.panel.by = panel.by /\ t.panel.conn = panel.conn
        /\ DOMAIN t.panel.ask = part.asks /\ DOMAIN t.panel.at = part.asks
        /\ t.panel.ask[a] = "sent" /\ t.panel.at[a] = panel.conn
        /\ \A b \in part.asks \ {a} : t.panel.ask[b] = panel.ask[b] /\ t.panel.at[b] = panel.at[b]
        /\ DOMAIN t.wire = DOMAIN wire /\ \A x \in DOMAIN wire \ {panel.conn} : t.wire[x] = wire[x]
        /\ DOMAIN t.wire[panel.conn] = {"open", "to", "back"} /\ (NobodyThrows(part) => Own(t.wire[panel.conn], a))
    BY <2>1, <2>2, <2>5, <2>6, RequestsWritten
  <2>8. panel' = t.panel /\ world' = t.world /\ wire' = t.wire
    BY <2>4 DEF s
  <2> HIDE DEF t
  <2>9. panel.ask[a] \notin {"sent", "throwing"} /\ world.made \in Nat /\ DOMAIN wire' = 1..world'.made
    BY <1>1, <2>7, <2>8 DEF RequestsShape
  <2> QED BY <1>2, <2>1, <2>7, <2>8, <2>9, RequestsWrite
<1>4. CASE panel.conn = NoOne
  <2> DEFINE s == Requests(part)!Now
  <2>1. Requests(part)!Become(Requests(part)!Fresh(s, a))
    BY <1>1, <1>4
  <2>2. DOMAIN s = {"panel", "world", "wire"} /\ s.panel = panel /\ s.world = world /\ s.wire = wire
    BY DEF Requests!Now
  <2> HIDE DEF s
  <2>3. panel.ask[a] \notin {"sent", "throwing"}
    BY <1>1
  <2> QED BY <1>2, <2>1, <2>2, <2>3, RequestsFresh
<1> QED BY <1>3, <1>4

LEMMA AskedAgain ==
    ASSUME NEW r, NEW a, DOMAIN r = {"panel", "world", "wire"},
           {"step", "ask", "at", "fresh"} \subseteq DOMAIN r.panel
    PROVE  LET e == [r EXCEPT !.panel.step[a] = 2, !.panel.ask[a] = "queued",
                              !.panel.at[a] = NoOne, !.panel.fresh[a] = FALSE] IN
           /\ e.panel = [r.panel EXCEPT !.step = [r.panel.step EXCEPT ![a] = 2],
                                        !.ask = [r.panel.ask EXCEPT ![a] = "queued"],
                                        !.at = [r.panel.at EXCEPT ![a] = NoOne],
                                        !.fresh = [r.panel.fresh EXCEPT ![a] = FALSE]]
           /\ e.world = r.world /\ e.wire = r.wire /\ DOMAIN e = {"panel", "world", "wire"}
OBVIOUS

LEMMA RequestsTakeReply ==
    ASSUME NEW part, Requests(part)!ConstantsOK, RequestsShape(part), HolderInv(part), LinesInv(part),
           Requests(part)!TakeReply
    PROVE  RequestsInv(part)'
<1> DEFINE c(a) == panel.at[a]
           kept(a) == [Requests(part)!Kept(Requests(part)!Now, a) EXCEPT !.wire[c(a)].back = Tail(@)]
           reply(a) == Head(wire[c(a)].back)
           again(a) ==
             Requests(part)!Queued([Requests(part)!Released(kept(a)) EXCEPT
                                      !.panel.step[a] = 2, !.panel.ask[a] = "queued",
                                      !.panel.at[a] = NoOne, !.panel.fresh[a] = FALSE], a)
           told(a) == [kept(a) EXCEPT !.panel.by[a] = reply(a).a]
           done(a) == Requests(part)!Ended(told(a), a, "done")
           failed(a) == Requests(part)!Ended(kept(a), a, "failed")
<1>1. PICK a \in part.asks :
        /\ panel.ask[a] = "sent" /\ wire[c(a)].back # <<>>
        /\ Requests(part)!Become(again(a)) \/ Requests(part)!Become(done(a)) \/ Requests(part)!Become(failed(a))
  <2>1. PICK a \in part.asks :
          /\ panel.ask[a] = "sent" /\ wire[c(a)].back # <<>>
          /\ Requests(part)!Become(Requests(part)!Read(kept(a), a, reply(a)))
    BY DEF Requests!TakeReply
  <2>2. Requests(part)!Read(kept(a), a, reply(a)) \in {again(a), done(a), failed(a)}
    <3> HIDE DEF kept, reply, c
    <3> QED BY DEF Requests!Read
  <2> HIDE DEF again, done, failed
  <2> QED BY <2>1, <2>2
<1>2. panel.line # <<>> /\ Head(panel.line) = a /\ c(a) \in DOMAIN wire
  BY <1>1 DEF HolderInv
<1>3. \A b \in part.asks : panel.ask[b] = "sent" => b = a
  BY <1>2 DEF HolderInv
<1>4. ASSUME NobodyThrows(part)
      PROVE  \E how : wire[c(a)].back = <<[a |-> a, how |-> how]>> /\ (wire[c(a)].open => wire[c(a)].to = <<>>)
  <2>1. Carries(part, c(a))
    BY <1>1, <1>2, <1>4 DEF LinesInv, Bears
  <2>2. Own(wire[c(a)], a)
    BY <1>1, <1>3, <2>1 DEF Carries, Silent
  <2> QED BY <1>1, <2>2 DEF Own, Silent
<1>5. ASSUME NobodyThrows(part)
      PROVE  Tail(wire[c(a)].back) = <<>> /\ (wire[c(a)].open => wire[c(a)].to = <<>>) /\ reply(a).a = a
  <2>1. PICK how : wire[c(a)].back = <<[a |-> a, how |-> how]>> /\ (wire[c(a)].open => wire[c(a)].to = <<>>)
    BY <1>4, <1>5
  <2> QED BY <2>1
<1>6. "late" \notin part.does => reply(a).a = a
  BY <1>5 DEF NobodyThrows, HolderInv
<1> DEFINE rest == Tail(panel.line)
           kp == kept(a)
           cc == c(a)
           left == Tail(wire[cc].back)
<1>7. /\ kp.panel = [panel EXCEPT !.conn = cc] /\ kp.world = world
      /\ kp.wire = [wire EXCEPT ![cc] = [wire[cc] EXCEPT !.back = left]] /\ DOMAIN kp = {"panel", "world", "wire"}
  BY DEF Requests!Kept, Requests!Now
<1> HIDE DEF kp, kept, rest, reply, c
<1>8. /\ DOMAIN kp.panel = DOMAIN panel /\ kp.panel.conn = cc /\ kp.panel.line = panel.line
      /\ kp.panel.ask = panel.ask /\ kp.panel.at = panel.at /\ kp.panel.by = panel.by
      /\ kp.panel.step = panel.step /\ kp.panel.fresh = panel.fresh
  BY <1>7 DEF RequestsShape
<1>9. /\ DOMAIN kp.wire = DOMAIN wire /\ \A x \in DOMAIN wire \ {cc} : kp.wire[x] = wire[x]
      /\ DOMAIN kp.wire[cc] = DOMAIN wire[cc] /\ (NobodyThrows(part) => Silent(kp.wire[cc]))
      /\ cc = panel.at[a] /\ cc \in DOMAIN wire
  <2>1. /\ cc \in DOMAIN wire /\ cc = panel.at[a]
        /\ NobodyThrows(part) => left = <<>> /\ (wire[cc].open => wire[cc].to = <<>>)
    BY <1>2, <1>5 DEF c
  <2> HIDE DEF left, cc
  <2>2. kp.wire[cc] = [wire[cc] EXCEPT !.back = left] /\ DOMAIN wire[cc] = {"open", "to", "back"}
    BY <1>7, <2>1 DEF RequestsShape
  <2>3. (NobodyThrows(part) => Silent(kp.wire[cc])) /\ DOMAIN kp.wire[cc] = DOMAIN wire[cc]
    BY <2>1, <2>2 DEF Silent
  <2> QED BY <1>7, <2>1, <2>3
<1> HIDE DEF left, cc
<1>10. /\ {"line", "ask", "at", "by", "conn"} \subseteq DOMAIN panel
       /\ DOMAIN panel.ask = part.asks /\ DOMAIN panel.at = part.asks /\ DOMAIN panel.by = part.asks
  BY DEF RequestsShape
<1>11. CASE Requests(part)!Become(again(a))
  <2> DEFINE r == Requests(part)!Released(kp)
             e == [r EXCEPT !.panel.step[a] = 2, !.panel.ask[a] = "queued",
                            !.panel.at[a] = NoOne, !.panel.fresh[a] = FALSE]
             q == Requests(part)!Queued(e, a)
  <2>1. panel' = q.panel /\ world' = q.world /\ wire' = q.wire
    BY <1>11 DEF Requests!Become, kp
  <2>2. r.panel = [kp.panel EXCEPT !.line = rest] /\ r.world = world /\ r.wire = kp.wire
        /\ DOMAIN r = {"panel", "world", "wire"}
    BY <1>7, <1>8 DEF Requests!Released, rest
  <2> HIDE DEF r
  <2>3. /\ DOMAIN r.panel = DOMAIN panel /\ r.panel.conn = cc /\ r.panel.line = rest
        /\ r.panel.ask = panel.ask /\ r.panel.at = panel.at /\ r.panel.by = panel.by
    BY <1>8, <2>2 DEF RequestsShape
  <2>4. /\ e.panel = [r.panel EXCEPT !.step = [r.panel.step EXCEPT ![a] = 2],
                                     !.ask = [r.panel.ask EXCEPT ![a] = "queued"],
                                     !.at = [r.panel.at EXCEPT ![a] = NoOne],
                                     !.fresh = [r.panel.fresh EXCEPT ![a] = FALSE]]
        /\ e.world = world /\ e.wire = kp.wire /\ DOMAIN e = {"panel", "world", "wire"}
    <3>1. "panel" \in DOMAIN r /\ {"step", "ask", "at", "fresh"} \subseteq DOMAIN r.panel
      BY <1>8, <2>2 DEF RequestsShape
    <3> QED BY <2>2, <3>1, AskedAgain
  <2> HIDE DEF e
  <2>5. /\ DOMAIN e.panel = DOMAIN panel /\ e.panel.conn = cc /\ e.panel.line = rest /\ e.panel.by = panel.by
        /\ e.panel.ask = [panel.ask EXCEPT ![a] = "queued"] /\ e.panel.at = [panel.at EXCEPT ![a] = NoOne]
    BY <2>3, <2>4 DEF RequestsShape
  <2>6. q.panel = [e.panel EXCEPT !.line = Append(rest, a)] /\ q.world = world /\ q.wire = kp.wire
    BY <2>4, <2>5 DEF Requests!Queued
  <2> HIDE DEF q
  <2>7. /\ DOMAIN panel' = DOMAIN panel /\ panel'.conn = cc /\ panel'.line = Append(rest, a)
        /\ panel'.by = panel.by /\ world' = world /\ wire' = kp.wire
        /\ panel'.ask = [panel.ask EXCEPT ![a] = "queued"] /\ panel'.at = [panel.at EXCEPT ![a] = NoOne]
    BY <2>1, <2>5, <2>6 DEF RequestsShape
  <2>8. /\ DOMAIN panel'.ask = part.asks /\ DOMAIN panel'.at = part.asks /\ DOMAIN panel'.by = part.asks
        /\ panel'.ask[a] = "queued"
        /\ \A b \in part.asks \ {a} :
              panel'.ask[b] = panel.ask[b] /\ panel'.at[b] = panel.at[b] /\ panel'.by[b] = panel.by[b]
    BY <1>10, <2>7
  <2>9. panel'.line \in {Tail(panel.line), Append(Tail(panel.line), a)}
    BY <2>7 DEF rest
  <2>10. /\ DOMAIN wire' = DOMAIN wire /\ \A x \in DOMAIN wire : DOMAIN wire'[x] = DOMAIN wire[x]
         /\ NobodyThrows(part) =>
               Silent(wire'[panel.at[a]]) /\ \A x \in DOMAIN wire : wire'[x] = wire[x] \/ Silent(wire'[x])
         /\ panel'.conn \in DOMAIN wire \cup {NoOne} /\ panel'.conn = panel.at[a]
    BY <1>9, <2>7
  <2> HIDE DEF rest
  <2>11. "queued" \notin {"sent", "throwing"} /\ "queued" # "done"
    OBVIOUS
  <2> QED BY <1>1, <1>2, <2>7, <2>8, <2>9, <2>10, <2>11, RequestsEnd
<1>12. ASSUME NEW s, NEW how_, how_ \in {"done", "failed"}, DOMAIN s = {"panel", "world", "wire"},
              s.world = world, s.wire = kp.wire, DOMAIN s.panel = DOMAIN panel, s.panel.conn = cc,
              s.panel.line = panel.line, s.panel.ask = panel.ask, s.panel.at = panel.at,
              DOMAIN s.panel.by = part.asks, \A b \in part.asks \ {a} : s.panel.by[b] = panel.by[b],
              "late" \notin part.does => (how_ = "done" => s.panel.by[a] = a),
              Requests(part)!Become(Requests(part)!Ended(s, a, how_))
       PROVE  RequestsInv(part)'
  <2> DEFINE t == Requests(part)!Ended(s, a, how_)
  <2>1. panel' = t.panel /\ world' = t.world /\ wire' = t.wire
    BY <1>12 DEF Requests!Become
  <2>2. rest = Tail(s.panel.line)
    BY <1>12 DEF rest
  <2>3. /\ t.world = s.world /\ t.wire = s.wire /\ DOMAIN t.panel = DOMAIN s.panel
        /\ t.panel.line = rest /\ t.panel.by = s.panel.by /\ t.panel.conn = s.panel.conn
        /\ DOMAIN t.panel.ask = part.asks /\ DOMAIN t.panel.at = part.asks /\ t.panel.ask[a] = how_
        /\ \A b \in part.asks \ {a} : t.panel.ask[b] = s.panel.ask[b] /\ t.panel.at[b] = s.panel.at[b]
    BY <1>10, <1>12, <2>2, RequestsEnded
  <2> HIDE DEF t
  <2>4. /\ DOMAIN wire' = DOMAIN wire /\ \A x \in DOMAIN wire : DOMAIN wire'[x] = DOMAIN wire[x]
        /\ NobodyThrows(part) =>
              Silent(wire'[panel.at[a]]) /\ \A x \in DOMAIN wire : wire'[x] = wire[x] \/ Silent(wire'[x])
        /\ panel'.conn \in DOMAIN wire \cup {NoOne} /\ panel'.conn = panel.at[a]
    BY <1>9, <1>12, <2>1, <2>3
  <2>5. panel'.line \in {Tail(panel.line), Append(Tail(panel.line), a)} /\ how_ \notin {"sent", "throwing"}
    BY <1>12, <2>1, <2>3 DEF rest
  <2> QED BY <1>1, <1>2, <1>12, <2>1, <2>3, <2>4, <2>5, RequestsEnd
<1>13. CASE Requests(part)!Become(done(a))
  <2> DEFINE t == told(a)
  <2>1. t.panel = [kp.panel EXCEPT !.by = [@ EXCEPT ![a] = reply(a).a]] /\ t.world = world /\ t.wire = kp.wire
        /\ DOMAIN t = {"panel", "world", "wire"}
    BY <1>7 DEF kp
  <2>2. Requests(part)!Become(Requests(part)!Ended(t, a, "done"))
    BY <1>13
  <2> HIDE DEF told, t
  <2>3. /\ DOMAIN t.panel = DOMAIN panel /\ t.panel.conn = cc /\ t.panel.line = panel.line
        /\ t.panel.ask = panel.ask /\ t.panel.at = panel.at /\ t.panel.by = [panel.by EXCEPT ![a] = reply(a).a]
    BY <1>8, <2>1 DEF RequestsShape
  <2>4. /\ DOMAIN t.panel.by = part.asks /\ \A b \in part.asks \ {a} : t.panel.by[b] = panel.by[b]
        /\ "late" \notin part.does => t.panel.by[a] = a
    BY <1>6, <1>10, <2>3
  <2> QED BY <1>12, <2>1, <2>2, <2>3, <2>4
<1>14. CASE Requests(part)!Become(failed(a))
  <2>1. Requests(part)!Become(Requests(part)!Ended(kp, a, "failed"))
    BY <1>14 DEF kp
  <2>2. "failed" # "done"
    OBVIOUS
  <2> QED BY <1>7, <1>8, <1>10, <1>12, <2>1, <2>2
<1> QED BY <1>1, <1>11, <1>13, <1>14

LEMMA LinesStay ==
    ASSUME NEW part, LinesInv(part), wire' = wire, panel'.conn = panel.conn, NobodyThrows(part)' => NobodyThrows(part),
           \A a \in part.asks : panel'.ask[a] = "sent" <=> panel.ask[a] = "sent",
           \A a \in part.asks : panel'.at[a] = panel.at[a]
    PROVE  LinesInv(part)'
<1> SUFFICES ASSUME NobodyThrows(part)', NEW c \in DOMAIN wire', Bears(part, c)'
             PROVE  \/ Silent(wire'[c])
                    \/ \E a \in part.asks : panel'.ask[a] = "sent" /\ panel'.at[a] = c /\ Own(wire'[c], a)
  BY DEF LinesInv, Carries, Silent, Own
<1>1. Bears(part, c)
  BY DEF Bears
<1> QED BY <1>1 DEF LinesInv, Carries

\* niri's steps touch the connections alone.
LEMMA RequestsAnswer ==
    ASSUME NEW part, RequestsShape(part), LinesInv(part), Requests(part)!Answers
    PROVE  /\ panel' = panel /\ DOMAIN world' = DOMAIN world /\ world'.made = world.made
           /\ DOMAIN wire' = DOMAIN wire /\ \A c \in DOMAIN wire : DOMAIN wire'[c] = DOMAIN wire[c]
           /\ NobodyThrows(part) => \A c \in DOMAIN wire : Bears(part, c) =>
                 \/ Silent(wire'[c])
                 \/ \E a \in part.asks : panel.ask[a] = "sent" /\ panel.at[a] = c /\ Own(wire'[c], a)
<1> DEFINE s(c) == [Requests(part)!Now EXCEPT !.wire[c].to = Tail(@)]
           reply(c) == Requests(part)!Reply(Head(wire[c].to))
           said(c) == [s(c) EXCEPT !.wire[c].back = Append(@, reply(c))]
           refused(c) == [s(c) EXCEPT !.wire[c].back = Append(@, [reply(c) EXCEPT !.how = "refused"]),
                                      !.world.moves = @ + 1]
<1>1. PICK c \in DOMAIN wire :
        /\ wire[c].open /\ wire[c].to # <<>>
        /\ Requests(part)!Become(said(c)) \/ Requests(part)!Become(refused(c))
  BY DEF Requests!Answers
<1> DEFINE left == Tail(wire[c].to)
<1>2. /\ s(c).panel = panel /\ s(c).world = world /\ DOMAIN s(c) = {"panel", "world", "wire"}
      /\ s(c).wire = [wire EXCEPT ![c] = [wire[c] EXCEPT !.to = left]]
  BY DEF Requests!Now
<1>3. reply(c).a = Head(wire[c].to).a /\ reply(c) = [a |-> reply(c).a, how |-> reply(c).how]
  BY DEF Requests!Reply
<1> HIDE DEF s, reply
<1>4. [reply(c) EXCEPT !.how = "refused"] = [a |-> reply(c).a, how |-> "refused"]
  BY <1>3
<1>5. DOMAIN s(c).wire = DOMAIN wire /\ s(c).wire[c] = [wire[c] EXCEPT !.to = left]
      /\ \A x \in DOMAIN wire \ {c} : s(c).wire[x] = wire[x]
  BY <1>2
<1> HIDE DEF left
<1>6. /\ s(c).wire[c].back = wire[c].back /\ s(c).wire[c].to = left /\ DOMAIN s(c).wire[c] = {"open", "to", "back"}
      /\ DOMAIN wire[c] = {"open", "to", "back"}
  BY <1>5 DEF RequestsShape
<1>7. ASSUME NEW m, NEW kind, m = [a |-> reply(c).a, how |-> kind], panel' = panel, DOMAIN world' = DOMAIN world,
             world'.made = world.made,
             wire' = [s(c).wire EXCEPT ![c] = [s(c).wire[c] EXCEPT !.back = Append(wire[c].back, m)]]
      PROVE  /\ panel' = panel /\ DOMAIN world' = DOMAIN world /\ world'.made = world.made
             /\ DOMAIN wire' = DOMAIN wire /\ \A x \in DOMAIN wire : DOMAIN wire'[x] = DOMAIN wire[x]
             /\ NobodyThrows(part) => \A x \in DOMAIN wire : Bears(part, x) =>
                   \/ Silent(wire'[x])
                   \/ \E b \in part.asks : panel.ask[b] = "sent" /\ panel.at[b] = x /\ Own(wire'[x], b)
  <2>1. /\ DOMAIN wire' = DOMAIN wire /\ \A x \in DOMAIN wire \ {c} : wire'[x] = wire[x]
        /\ wire'[c] = [s(c).wire[c] EXCEPT !.back = Append(wire[c].back, m)]
    BY <1>5, <1>7
  <2>2. wire'[c].back = Append(wire[c].back, m) /\ wire'[c].to = left /\ DOMAIN wire'[c] = {"open", "to", "back"}
    BY <1>6, <2>1
  <2>3. \A x \in DOMAIN wire : DOMAIN wire'[x] = DOMAIN wire[x]
    BY <1>6, <2>1, <2>2
  <2>4. ASSUME NobodyThrows(part), NEW x \in DOMAIN wire, Bears(part, x)
        PROVE  \/ Silent(wire'[x])
               \/ \E b \in part.asks : panel.ask[b] = "sent" /\ panel.at[b] = x /\ Own(wire'[x], b)
    <3>1. Carries(part, x)
      BY <2>4 DEF LinesInv
    <3>2. CASE x # c
      BY <2>1, <3>1, <3>2 DEF Carries
    <3>3. CASE x = c
      <4>1. PICK a \in part.asks : panel.ask[a] = "sent" /\ panel.at[a] = c /\ Own(wire[c], a)
        BY <1>1, <3>1, <3>3 DEF Carries, Silent
      <4>2. PICK step : wire[c].back = <<>> /\ wire[c].to = <<[a |-> a, step |-> step]>>
        BY <1>1, <4>1 DEF Own, Silent
      <4>3. left = <<>> /\ reply(c).a = a /\ Append(<<>>, m) = <<m>>
        BY <1>3, <4>2 DEF left
      <4>4. Own(wire'[c], a)
        BY <1>7, <2>2, <4>2, <4>3 DEF Own
      <4> QED BY <3>3, <4>1, <4>4
    <3> QED BY <3>2, <3>3
  <2> QED BY <1>7, <2>1, <2>3, <2>4
<1>8. CASE Requests(part)!Become(said(c))
  <2>1. panel' = said(c).panel /\ world' = said(c).world /\ wire' = said(c).wire
    BY <1>8 DEF Requests!Become
  <2>2. panel' = panel /\ world' = world
        /\ wire' = [s(c).wire EXCEPT ![c] = [s(c).wire[c] EXCEPT !.back = Append(s(c).wire[c].back, reply(c))]]
    BY <1>2, <2>1
  <2> QED BY <1>3, <1>6, <1>7, <2>2
<1>9. CASE Requests(part)!Become(refused(c))
  <2> DEFINE m == [reply(c) EXCEPT !.how = "refused"]
  <2>1. panel' = refused(c).panel /\ world' = refused(c).world /\ wire' = refused(c).wire
    BY <1>9 DEF Requests!Become
  <2> HIDE DEF m
  <2>2. panel' = panel /\ world' = [world EXCEPT !.moves = @ + 1]
        /\ wire' = [s(c).wire EXCEPT ![c] = [s(c).wire[c] EXCEPT !.back = Append(s(c).wire[c].back, m)]]
    BY <1>2, <2>1 DEF m
  <2>3. DOMAIN world' = DOMAIN world /\ world'.made = world.made
    BY <2>2 DEF RequestsShape
  <2>4. m = [a |-> reply(c).a, how |-> "refused"]
    BY <1>4 DEF m
  <2> QED BY <1>6, <1>7, <2>2, <2>3, <2>4
<1> QED BY <1>1, <1>8, <1>9

\* One that gave up waiting is at the end of the line; the others are where they were.
LEMMA RemovedAt ==
    ASSUME NEW S, NEW q \in Seq(S), NEW i \in DOMAIN q, NEW a \in S
    PROVE  LET r == Append(SubSeq(q, 1, i - 1) \o SubSeq(q, i + 1, Len(q)), a) IN
           r \in Seq(S) /\ (i # 1 => r # <<>> /\ Head(r) = Head(q))
<1> DEFINE n == Len(q)
           front == SubSeq(q, 1, i - 1)
           back == SubSeq(q, i + 1, n)
           both == front \o back
<1>1. n \in Nat /\ i \in 1..n
  OBVIOUS
<1>2. front \in Seq(S) /\ back \in Seq(S)
  BY <1>1
<1>3. Len(front) = i - 1 /\ \A j \in 1..i - 1 : front[j] = q[j]
  BY <1>1
<1> HIDE DEF front, back, n
<1>4. both \in Seq(S) /\ (i # 1 => Len(both) >= 1 /\ both[1] = q[1])
  BY <1>1, <1>2, <1>3
<1> HIDE DEF both
<1>5. Append(both, a) \in Seq(S) /\ (i # 1 => Append(both, a) # <<>> /\ Head(Append(both, a)) = Head(q))
  BY <1>1, <1>4
<1> QED BY <1>5 DEF both, front, back, n

LEMMA RequestsElapses ==
    ASSUME NEW part, RequestsShape(part), HolderInv(part), Requests(part)!Elapses
    PROVE  RequestsInv(part)'
<1> DEFINE left(i) == Requests(part)!Left(Requests(part)!Now, i)
           gone(i, a) == [left(i) EXCEPT !.panel.ask[a] = "throwing", !.panel.at[a] = NoOne]
           t(i, a) == Requests(part)!Queued(gone(i, a), a)
<1>1. PICK i \in DOMAIN panel.line :
        /\ "late" \in part.does /\ panel.ask[panel.line[i]] \in {"queued", "sent"}
        /\ Requests(part)!Become(t(i, panel.line[i]))
  BY DEF Requests!Elapses
<1> DEFINE a == panel.line[i]
           rest == SubSeq(panel.line, 1, i - 1) \o SubSeq(panel.line, i + 1, Len(panel.line))
<1>2. a \in part.asks /\ panel.line \in Seq(part.asks)
  BY <1>1 DEF RequestsShape
<1>3. panel' = t(i, a).panel /\ world' = t(i, a).world /\ wire' = t(i, a).wire
  BY <1>1 DEF Requests!Become
<1>4. left(i).panel = [panel EXCEPT !.line = rest] /\ left(i).world = world /\ left(i).wire = wire
      /\ DOMAIN left(i) = {"panel", "world", "wire"}
  BY DEF Requests!Left, Requests!Now
<1> HIDE DEF left, a, rest
<1>5. /\ DOMAIN left(i).panel = DOMAIN panel /\ left(i).panel.line = rest /\ left(i).panel.conn = panel.conn
      /\ left(i).panel.ask = panel.ask /\ left(i).panel.at = panel.at /\ left(i).panel.by = panel.by
  BY <1>4 DEF RequestsShape
<1>6. /\ gone(i, a).panel = [left(i).panel EXCEPT !.ask = [left(i).panel.ask EXCEPT ![a] = "throwing"],
                                                 !.at = [left(i).panel.at EXCEPT ![a] = NoOne]]
      /\ gone(i, a).world = world /\ gone(i, a).wire = wire /\ DOMAIN gone(i, a) = {"panel", "world", "wire"}
  BY <1>4
<1> HIDE DEF gone
<1>7. /\ DOMAIN gone(i, a).panel = DOMAIN panel /\ gone(i, a).panel.line = rest
      /\ gone(i, a).panel.conn = panel.conn /\ gone(i, a).panel.by = panel.by
      /\ gone(i, a).panel.ask = [panel.ask EXCEPT ![a] = "throwing"]
      /\ gone(i, a).panel.at = [panel.at EXCEPT ![a] = NoOne]
  BY <1>5, <1>6 DEF RequestsShape
<1>8. panel' = [gone(i, a).panel EXCEPT !.line = Append(rest, a)] /\ world' = world /\ wire' = wire
  BY <1>3, <1>6, <1>7 DEF Requests!Queued
<1>9. /\ DOMAIN panel' = DOMAIN panel /\ panel'.line = Append(rest, a) /\ panel'.conn = panel.conn
      /\ panel'.by = panel.by /\ panel'.ask = [panel.ask EXCEPT ![a] = "throwing"]
      /\ panel'.at = [panel.at EXCEPT ![a] = NoOne]
  BY <1>7, <1>8 DEF RequestsShape
<1>10. panel'.line \in Seq(part.asks) /\ (i # 1 => panel'.line # <<>> /\ Head(panel'.line) = Head(panel.line))
  <2>1. Append(rest, a) \in Seq(part.asks)
        /\ (i # 1 => Append(rest, a) # <<>> /\ Head(Append(rest, a)) = Head(panel.line))
    BY <1>1, <1>2, RemovedAt DEF rest
  <2> QED BY <1>9, <2>1
<1>11. /\ DOMAIN panel'.ask = part.asks /\ DOMAIN panel'.at = part.asks /\ panel'.ask[a] = "throwing"
       /\ \A b \in part.asks \ {a} : panel'.ask[b] = panel.ask[b] /\ panel'.at[b] = panel.at[b]
  BY <1>2, <1>9 DEF RequestsShape
<1>12. RequestsShape(part)'
  BY <1>8, <1>9, <1>10, <1>11 DEF RequestsShape
<1>13. HolderInv(part)'
  <2>1. ASSUME NEW b \in part.asks, panel'.ask[b] = "sent"
        PROVE  panel'.line # <<>> /\ Head(panel'.line) = b /\ panel'.at[b] \in DOMAIN wire
    <3>1. b # a /\ panel.ask[b] = "sent" /\ panel'.at[b] = panel.at[b]
      BY <1>11, <2>1
    <3>2. panel.line # <<>> /\ Head(panel.line) = b /\ panel.at[b] \in DOMAIN wire
      BY <3>1 DEF HolderInv
    <3>3. i # 1
      BY <1>2, <3>1, <3>2 DEF a
    <3> QED BY <1>10, <3>1, <3>2, <3>3
  <2> QED BY <1>1, <1>8, <2>1 DEF HolderInv
<1>14. LinesInv(part)'
  BY <1>2, <1>11 DEF LinesInv, NobodyThrows
<1> QED BY <1>12, <1>13, <1>14 DEF RequestsInv

LEMMA RequestsThrow ==
    ASSUME NEW part, Requests(part)!ConstantsOK, RequestsShape(part), HolderInv(part), LinesInv(part),
           Requests(part)!Throw
    PROVE  RequestsInv(part)'
<1> DEFINE s == [Requests(part)!Now EXCEPT !.panel.conn = NoOne]
<1>1. PICK a \in part.asks :
        /\ panel.ask[a] = "throwing" /\ Requests(part)!Holder = a
        /\ Requests(part)!Become(Requests(part)!Ended(s, a, "failed"))
  BY DEF Requests!Throw
<1>2. panel.line # <<>> /\ Head(panel.line) = a
  BY <1>1 DEF Requests!Holder, Requests!ConstantsOK
<1>3. s.panel = [panel EXCEPT !.conn = NoOne] /\ s.world = world /\ s.wire = wire
      /\ DOMAIN s = {"panel", "world", "wire"}
  BY DEF Requests!Now
<1> HIDE DEF s
<1>4. /\ DOMAIN s.panel = DOMAIN panel /\ s.panel.conn = NoOne /\ s.panel.line = panel.line
      /\ s.panel.by = panel.by /\ s.panel.ask = panel.ask /\ s.panel.at = panel.at
  BY <1>3 DEF RequestsShape
<1> DEFINE rest == Tail(panel.line)
           how == "failed"
           t == Requests(part)!Ended(s, a, how)
<1>5. panel' = t.panel /\ world' = t.world /\ wire' = t.wire /\ how \notin {"sent", "throwing", "done"}
  BY <1>1 DEF Requests!Become
<1>6. rest = Tail(s.panel.line)
  BY <1>4
<1> HIDE DEF rest, how
<1>7. /\ {"line", "ask", "at", "by", "conn"} \subseteq DOMAIN s.panel
      /\ DOMAIN s.panel.ask = part.asks /\ DOMAIN s.panel.at = part.asks /\ DOMAIN panel.by = part.asks
  BY <1>4 DEF RequestsShape
<1>8. /\ t.world = s.world /\ t.wire = s.wire /\ DOMAIN t.panel = DOMAIN s.panel
      /\ t.panel.line = rest /\ t.panel.by = s.panel.by /\ t.panel.conn = s.panel.conn
      /\ DOMAIN t.panel.ask = part.asks /\ DOMAIN t.panel.at = part.asks /\ t.panel.ask[a] = how
      /\ \A b \in part.asks \ {a} : t.panel.ask[b] = s.panel.ask[b] /\ t.panel.at[b] = s.panel.at[b]
  BY <1>3, <1>6, <1>7, RequestsEnded
<1> HIDE DEF t
<1>9. panel'.line \in {Tail(panel.line), Append(Tail(panel.line), a)}
  BY <1>5, <1>8 DEF rest
<1>10. panel'.conn = NoOne /\ panel.ask[a] # "sent"
  BY <1>1, <1>4, <1>5, <1>8
<1> QED BY <1>2, <1>3, <1>4, <1>5, <1>7, <1>8, <1>9, <1>10, RequestsEnd

LEMMA RequestsSteps ==
    ASSUME NEW part, Requests(part)!ConstantsOK, RequestsInv(part), Requests(part)!Next
    PROVE  RequestsInv(part)'
<1> USE DEF RequestsInv
<1>1. CASE Requests(part)!Asked
  <2> DEFINE s(a) == [Requests(part)!Now EXCEPT !.panel.ask[a] = "queued"]
             t(a) == Requests(part)!Queued(s(a), a)
  <2>1. PICK a \in part.asks : panel.ask[a] = "idle" /\ Requests(part)!Become(t(a))
    BY <1>1 DEF Requests!Asked
  <2>2. panel' = t(a).panel /\ world' = t(a).world /\ wire' = t(a).wire
    BY <2>1 DEF Requests!Become
  <2>3. s(a).panel = [panel EXCEPT !.ask = [panel.ask EXCEPT ![a] = "queued"]] /\ s(a).world = world
        /\ s(a).wire = wire /\ DOMAIN s(a) = {"panel", "world", "wire"}
    BY DEF Requests!Now
  <2> HIDE DEF s
  <2>4. /\ DOMAIN s(a).panel = DOMAIN panel /\ s(a).panel.line = panel.line /\ s(a).panel.at = panel.at
        /\ s(a).panel.by = panel.by /\ s(a).panel.conn = panel.conn
        /\ s(a).panel.ask = [panel.ask EXCEPT ![a] = "queued"]
    BY <2>3 DEF RequestsShape
  <2>5. panel' = [s(a).panel EXCEPT !.line = Append(panel.line, a)] /\ world' = world /\ wire' = wire
    BY <2>2, <2>3, <2>4 DEF Requests!Queued
  <2>6. /\ DOMAIN panel' = DOMAIN panel /\ panel'.line = Append(panel.line, a) /\ panel'.at = panel.at
        /\ panel'.by = panel.by /\ panel'.conn = panel.conn
        /\ panel'.ask = [panel.ask EXCEPT ![a] = "queued"]
    BY <2>4, <2>5 DEF RequestsShape
  <2>7. /\ DOMAIN panel'.ask = part.asks /\ panel'.ask[a] = "queued"
        /\ \A b \in part.asks \ {a} : panel'.ask[b] = panel.ask[b]
    BY <2>6 DEF RequestsShape
  <2>8. panel'.line \in Seq(part.asks) /\ (panel.line # <<>> => panel'.line # <<>> /\ Head(panel'.line) = Head(panel.line))
    BY <2>6, Appended DEF RequestsShape
  <2>9. RequestsShape(part)'
    BY <2>5, <2>6, <2>7, <2>8 DEF RequestsShape
  <2>10. HolderInv(part)'
    BY <2>5, <2>6, <2>7, <2>8 DEF HolderInv
  <2>11. NobodyThrows(part)' => NobodyThrows(part)
    BY <2>1, <2>7 DEF NobodyThrows
  <2>12. LinesInv(part)'
    BY <2>1, <2>5, <2>6, <2>7, <2>11, LinesStay
  <2> QED BY <2>9, <2>10, <2>12
<1>2. CASE Requests(part)!Begin
  BY <1>2, RequestsBegin
<1>3. CASE Requests(part)!TakeReply
  BY <1>3, RequestsTakeReply
<1>4. CASE Requests(part)!Breaks
  <2> DEFINE s == [Requests(part)!Now EXCEPT !.panel.conn = NoOne]
  <2>1. PICK a \in part.asks :
          /\ panel.ask[a] = "sent" /\ ~wire[panel.at[a]].open /\ wire[panel.at[a]].back = <<>>
          /\ Requests(part)!Become(IF panel.fresh[a] THEN Requests(part)!Ended(s, a, "failed")
                                   ELSE Requests(part)!Fresh(s, a))
    BY <1>4 DEF Requests!Breaks
  <2>2. panel.line # <<>> /\ Head(panel.line) = a /\ panel.at[a] \in DOMAIN wire /\ Silent(wire[panel.at[a]])
    BY <2>1 DEF HolderInv, Silent
  <2>3. s.panel = [panel EXCEPT !.conn = NoOne] /\ s.world = world /\ s.wire = wire
        /\ DOMAIN s = {"panel", "world", "wire"}
    BY DEF Requests!Now
  <2> HIDE DEF s
  <2>4. /\ DOMAIN s.panel = DOMAIN panel /\ s.panel.conn = NoOne /\ s.panel.line = panel.line
        /\ s.panel.by = panel.by /\ s.panel.ask = panel.ask /\ s.panel.at = panel.at
    BY <2>3 DEF RequestsShape
  <2>5. CASE Requests(part)!Become(Requests(part)!Fresh(s, a))
    BY <2>1, <2>2, <2>3, <2>4, <2>5, RequestsFresh
  <2>6. CASE Requests(part)!Become(Requests(part)!Ended(s, a, "failed"))
    <3> DEFINE rest == Tail(panel.line)
               how == "failed"
               t == Requests(part)!Ended(s, a, how)
    <3>1. panel' = t.panel /\ world' = t.world /\ wire' = t.wire /\ how \notin {"sent", "throwing", "done"}
      BY <2>6 DEF Requests!Become
    <3>2. rest = Tail(s.panel.line)
      BY <2>4
    <3> HIDE DEF rest, how
    <3>3. /\ {"line", "ask", "at", "by", "conn"} \subseteq DOMAIN s.panel
          /\ DOMAIN s.panel.ask = part.asks /\ DOMAIN s.panel.at = part.asks /\ DOMAIN panel.by = part.asks
      BY <2>4 DEF RequestsShape
    <3>4. /\ t.world = s.world /\ t.wire = s.wire /\ DOMAIN t.panel = DOMAIN s.panel
          /\ t.panel.line = rest /\ t.panel.by = s.panel.by /\ t.panel.conn = s.panel.conn
          /\ DOMAIN t.panel.ask = part.asks /\ DOMAIN t.panel.at = part.asks /\ t.panel.ask[a] = how
          /\ \A b \in part.asks \ {a} : t.panel.ask[b] = s.panel.ask[b] /\ t.panel.at[b] = s.panel.at[b]
      BY <2>3, <3>2, <3>3, RequestsEnded
    <3> HIDE DEF t
    <3>5. panel'.line \in {Tail(panel.line), Append(Tail(panel.line), a)}
      BY <3>1, <3>4 DEF rest
    <3>6. panel'.conn = NoOne
      BY <2>4, <3>1, <3>4
    <3> QED BY <2>1, <2>2, <2>3, <2>4, <3>1, <3>3, <3>4, <3>5, <3>6, RequestsEnd
  <2> QED BY <2>1, <2>5, <2>6
<1>5. CASE Requests(part)!Throw \/ Requests(part)!Elapses
  BY <1>5, RequestsThrow, RequestsElapses
<1>6. CASE Requests(part)!Answers
  <2>1. /\ panel' = panel /\ DOMAIN world' = DOMAIN world /\ world'.made = world.made
        /\ DOMAIN wire' = DOMAIN wire /\ \A c \in DOMAIN wire : DOMAIN wire'[c] = DOMAIN wire[c]
        /\ NobodyThrows(part) => \A c \in DOMAIN wire : Bears(part, c) =>
              \/ Silent(wire'[c])
              \/ \E a \in part.asks : panel.ask[a] = "sent" /\ panel.at[a] = c /\ Own(wire'[c], a)
    BY <1>6, RequestsAnswer
  <2>2. RequestsShape(part)' /\ HolderInv(part)'
    BY <2>1 DEF RequestsShape, HolderInv
  <2>3. (NobodyThrows(part)' => NobodyThrows(part)) /\ \A c \in DOMAIN wire : Bears(part, c)' => Bears(part, c)
    BY <2>1 DEF NobodyThrows, Bears
  <2>4. LinesInv(part)'
    BY <2>1, <2>3 DEF LinesInv, Carries, Silent, Own
  <2> QED BY <2>2, <2>4
<1>7. CASE Requests(part)!Dies
  <2> DEFINE lines == [c \in DOMAIN wire |-> [wire[c] EXCEPT !.open = FALSE]]
             s == [Requests(part)!Now EXCEPT !.world.up = FALSE, !.world.moves = @ + 1, !.wire = lines]
  <2>1. Requests(part)!Become(s)
    BY <1>7 DEF Requests!Dies
  <2>2. panel' = s.panel /\ world' = s.world /\ wire' = s.wire
    BY <2>1 DEF Requests!Become
  <2>3. panel' = panel /\ world' = [world EXCEPT !.up = FALSE, !.moves = @ + 1] /\ wire' = lines
    BY <2>2 DEF Requests!Now
  <2>4. DOMAIN world' = DOMAIN world /\ world'.made = world.made
    BY <2>3 DEF RequestsShape
  <2>5. /\ DOMAIN wire' = DOMAIN wire
        /\ \A c \in DOMAIN wire : wire'[c] = [wire[c] EXCEPT !.open = FALSE]
    BY <2>3
  <2> HIDE DEF lines, s
  <2>6. \A c \in DOMAIN wire :
          /\ DOMAIN wire'[c] = {"open", "to", "back"} /\ ~wire'[c].open
          /\ wire'[c].to = wire[c].to /\ wire'[c].back = wire[c].back
    BY <2>5 DEF RequestsShape
  <2>7. RequestsShape(part)' /\ HolderInv(part)'
    BY <2>3, <2>4, <2>5, <2>6 DEF RequestsShape, HolderInv
  <2>8. ASSUME NEW c \in DOMAIN wire
        PROVE  /\ Silent(wire[c]) => Silent(wire'[c])
               /\ \A a \in part.asks : Own(wire[c], a) => Own(wire'[c], a)
    BY <2>6 DEF Silent, Own
  <2>9. LinesInv(part)'
    <3> SUFFICES ASSUME NobodyThrows(part), NEW c \in DOMAIN wire, Bears(part, c)
                 PROVE  \/ Silent(wire'[c])
                        \/ \E a \in part.asks : panel.ask[a] = "sent" /\ panel.at[a] = c /\ Own(wire'[c], a)
      BY <2>3, <2>5 DEF LinesInv, Carries, Silent, Own, NobodyThrows, Bears
    <3> QED BY <2>8 DEF LinesInv, Carries
  <2> QED BY <2>7, <2>9
<1>8. CASE Requests(part)!Starts
  <2>1. panel' = panel /\ world' = [world EXCEPT !.up = TRUE] /\ wire' = wire
    BY <1>8 DEF Requests!Starts, Requests!Become, Requests!Now
  <2>2. DOMAIN world' = DOMAIN world /\ world'.made = world.made
    BY <2>1 DEF RequestsShape
  <2>3. RequestsShape(part)' /\ HolderInv(part)'
    BY <2>1, <2>2 DEF RequestsShape, HolderInv
  <2>4. NobodyThrows(part)' => NobodyThrows(part)
    BY <2>1 DEF NobodyThrows
  <2>5. LinesInv(part)'
    BY <2>1, <2>4, LinesStay
  <2> QED BY <2>3, <2>5
<1> QED BY <1>1, <1>2, <1>3, <1>4, <1>5, <1>6, <1>7, <1>8
        DEF Requests!Next, Requests!Turn, Requests!Server, Requests!Clock

LEMMA RequestsStay ==
    ASSUME NEW part, RequestsInv(part), UNCHANGED <<panel, world, wire>>
    PROVE  RequestsInv(part)'
<1>1. NobodyThrows(part)' => NobodyThrows(part)
  BY DEF NobodyThrows
<1> QED BY <1>1, LinesStay DEF RequestsInv, RequestsShape, HolderInv

-----------------------------------------------------------------------------
(* The backlight.                                                          *)

Raws(part) == {Backlight(part)!Raw(percent) : percent \in 0 .. part.full}

BacklightShape(part) ==
    /\ DOMAIN panel = {"percent", "change", "heard", "echoes", "inFlight", "pending", "slider", "due", "raised"}
    /\ DOMAIN world = {"raw", "asked", "touched", "moves", "clicks"}
    /\ DOMAIN wire = {"sent", "call", "landed", "finished", "events", "cli", "frames"}
    /\ panel.percent \in Int /\ world.raw \in Int /\ wire.events \in Nat
    /\ panel.pending \in 0 .. part.full \cup {NoOne}
    /\ wire.call \in Raws(part) \cup {NoOne}
    /\ wire.cli \in 0 .. part.full \cup {NoOne}
    /\ \A c \in wire.sent :
          \/ c.do = "set" /\ c.to \in 0 .. part.full /\ Backlight(part)!Discovered # 0
          \/ c.do = "step" /\ c.to \in {-1, 1}

\* A gate is shut behind a call, or behind an answer that has yet to be taken.
GateInv(part) ==
    /\ panel.inFlight => wire.call # NoOne \/ wire.landed \/ wire.finished
    /\ ~part.session => wire.call = NoOne
    /\ panel.pending # NoOne => panel.inFlight

\* What is shown is what is on the screen, or there is something to be read again for.
ScreenInv(part) ==
    \/ panel.percent = Backlight(part)!Percent(world.raw)
    \/ wire.events > 0 \/ wire.finished \/ wire.call # NoOne \/ wire.landed

\* The slider is where the screen is, or is to be drawn there, or has just said where it is.
SliderInv ==
    \/ panel.due
    \/ panel.slider = panel.percent
    \/ \E c \in wire.sent : c.do = "set" /\ c.to = panel.slider

\* With nobody else about the last command is waiting, or out, or done.
LastInv(part) ==
    world.touched \subseteq {"ui"} =>
        /\ wire.cli = NoOne
        /\ panel.pending # NoOne => panel.pending = world.asked
        /\ world.asked # NoOne /\ panel.pending = NoOne /\ wire.call # NoOne =>
              wire.call = Backlight(part)!Raw(world.asked)
        /\ world.asked # NoOne /\ panel.pending = NoOne /\ wire.call = NoOne =>
              world.raw = Backlight(part)!Raw(world.asked)

BacklightInv(part) ==
    BacklightShape(part) /\ GateInv(part) /\ ScreenInv(part) /\ SliderInv /\ LastInv(part)

LEMMA BacklightPromises ==
    ASSUME NEW part, BacklightInv(part)
    PROVE  Backlight(part)!QuietIsCurrent /\ Backlight(part)!TheLastIsSet
<1> SUFFICES ASSUME Backlight(part)!Rest
             PROVE  /\ panel.percent = Backlight(part)!Percent(world.raw) /\ panel.slider = panel.percent
                    /\ world.touched = {"ui"} /\ world.asked # NoOne =>
                          world.raw = Backlight(part)!Raw(world.asked)
  BY DEF Backlight!QuietIsCurrent, Backlight!TheLastIsSet, Backlight!Read, Backlight!Now
<1>1. /\ wire.sent = {} /\ ~wire.finished /\ ~(wire.events > 0) /\ wire.call = NoOne /\ ~wire.landed
      /\ ~panel.due
  BY DEF Backlight!Rest, Backlight!TurnDue, Backlight!ServerDue, Backlight!LoopDue
<1>2. ~panel.inFlight /\ panel.pending = NoOne
  BY <1>1 DEF BacklightInv, GateInv
<1> QED BY <1>1, <1>2 DEF BacklightInv, ScreenInv, SliderInv, LastInv

LEMMA Quotients ==
    ASSUME NEW a \in Int, NEW b \in Nat \ {0}
    PROVE  (2 * a + b) \div (2 * b) \in Int
<1>1. 2 * a + b \in Int /\ 2 * b \in Nat /\ 2 * b > 0
  OBVIOUS
<1> QED BY <1>1

LEMMA BacklightNumbers ==
    ASSUME NEW part, Backlight(part)!ConstantsOK
    PROVE  /\ \A percent \in 0 .. part.full : Backlight(part)!Raw(percent) \in Raws(part)
           /\ \A percent \in Int : Backlight(part)!Raw(percent) \in Int
           /\ \A raw \in Int : Backlight(part)!Percent(raw) \in Int
           /\ NoOne \notin 0 .. part.full /\ NoOne \notin Raws(part) /\ Raws(part) \subseteq Int
<1> DEFINE d == Backlight(part)!Discovered
<1> HIDE DEF d
<1>1. part.full \in Nat \ {0} /\ d \in Nat
  BY DEF d, Backlight!ConstantsOK
<1>2. ASSUME NEW percent \in Int
      PROVE  Backlight(part)!Raw(percent) \in Int
  <2> DEFINE p == IF percent < part.full THEN percent ELSE part.full
             a == p * d
  <2>1. p \in Int
    BY <1>1
  <2> HIDE DEF p
  <2>2. a \in Int
    BY <1>1, <2>1
  <2>3. Backlight(part)!Raw(percent) = (2 * a + part.full) \div (2 * part.full)
    BY DEF Backlight!Raw, Backlight!Rounded, d, p
  <2> HIDE DEF a
  <2> QED BY <1>1, <2>2, <2>3, Quotients
<1>3. ASSUME NEW raw \in Int
      PROVE  Backlight(part)!Percent(raw) \in Int
  <2> DEFINE a == raw * part.full
  <2>1. a \in Int
    BY <1>1
  <2>2. Backlight(part)!Percent(raw) = IF d = 0 THEN 0 ELSE (2 * a + d) \div (2 * d)
    BY DEF Backlight!Percent, Backlight!Rounded, d
  <2> HIDE DEF a
  <2> QED BY <1>1, <2>1, <2>2, Quotients
<1>4. \A percent \in 0 .. part.full : Backlight(part)!Raw(percent) \in Raws(part)
  BY DEF Raws
<1>5. NoOne \notin 0 .. part.full /\ NoOne \notin Raws(part)
  BY DEF Raws, Backlight!ConstantsOK
<1>6. Raws(part) \subseteq Int
  <2>1. \A percent \in 0 .. part.full : percent \in Int
    BY <1>1
  <2> QED BY <1>2, <2>1 DEF Raws
<1> QED BY <1>2, <1>3, <1>4, <1>5, <1>6

LEMMA BacklightStarts ==
    ASSUME NEW part, Backlight(part)!ConstantsOK, Backlight(part)!Init
    PROVE  BacklightInv(part)
<1>1. Backlight(part)!Raw(1) \in Int /\ Backlight(part)!Percent(Backlight(part)!Raw(1)) \in Int
  BY BacklightNumbers
<1> QED BY <1>1 DEF BacklightInv, BacklightShape, GateInv, ScreenInv, SliderInv, LastInv,
                    Backlight!Init, Backlight!Start

\* What publish() leaves.
LEMMA BacklightPublish ==
    ASSUME NEW part, NEW s, NEW percent, DOMAIN s = {"panel", "world", "wire"},
           {"percent", "change", "echoes", "heard", "due"} \subseteq DOMAIN s.panel
    PROVE  LET t == Backlight(part)!Publish(s, percent) IN
           /\ DOMAIN t = DOMAIN s /\ t.world = s.world /\ t.wire = s.wire
           /\ DOMAIN t.panel = DOMAIN s.panel /\ t.panel.percent = percent
           /\ \A f \in DOMAIN s.panel \ {"percent", "change", "echoes", "heard", "due"} : t.panel[f] = s.panel[f]
           /\ t.panel.due \/ (t.panel.due = s.panel.due /\ percent = s.panel.percent)
<1>1. CASE s.panel.percent = percent
  BY <1>1 DEF Backlight!Publish
<1>2. CASE s.panel.percent # percent
  <2> DEFINE by == Backlight(part)!Attribute(s.panel.echoes, "brightness", percent)
             t == Backlight(part)!Publish(s, percent)
  <2> HIDE DEF by
  <2>1. t = [s EXCEPT !.panel.percent = percent, !.panel.change = by.source, !.panel.echoes = by.echoes,
                      !.panel.heard = FALSE, !.panel.due = TRUE]
    BY <1>2 DEF Backlight!Publish, by
  <2> HIDE DEF t
  <2>2. /\ t.panel = [s.panel EXCEPT !.percent = percent, !.change = by.source, !.echoes = by.echoes,
                                     !.heard = FALSE, !.due = TRUE]
        /\ DOMAIN t = DOMAIN s /\ t.world = s.world /\ t.wire = s.wire
    BY <2>1
  <2>3. DOMAIN t.panel = DOMAIN s.panel /\ t.panel.percent = percent /\ t.panel.due
    BY <2>2
  <2>4. \A f \in DOMAIN s.panel \ {"percent", "change", "echoes", "heard", "due"} : t.panel[f] = s.panel[f]
    BY <2>2
  <2> QED BY <2>2, <2>3, <2>4 DEF t
<1> QED BY <1>1, <1>2

\* What write() leaves: a call that is out, or a screen that is set.
LEMMA BacklightWrites ==
    ASSUME NEW part, NEW s, NEW percent, DOMAIN s = {"panel", "world", "wire"},
           "raw" \in DOMAIN s.world, {"call", "events", "finished"} \subseteq DOMAIN s.wire
    PROVE  LET t == Backlight(part)!Write(s, percent) IN
           /\ DOMAIN t = DOMAIN s /\ t.panel = s.panel
           /\ DOMAIN t.world = DOMAIN s.world /\ DOMAIN t.wire = DOMAIN s.wire
           /\ \A f \in DOMAIN s.world \ {"raw"} : t.world[f] = s.world[f]
           /\ \A f \in DOMAIN s.wire \ {"call", "events", "finished"} : t.wire[f] = s.wire[f]
           /\ part.session => /\ t.wire.call = Backlight(part)!Raw(percent) /\ t.world.raw = s.world.raw
                              /\ t.wire.events = s.wire.events /\ t.wire.finished = s.wire.finished
           /\ ~part.session => /\ t.world.raw = Backlight(part)!Raw(percent) /\ t.wire.call = s.wire.call
                               /\ t.wire.events = s.wire.events + 1 /\ t.wire.finished
<1> DEFINE t == Backlight(part)!Write(s, percent)
           raw == Backlight(part)!Raw(percent)
<1> HIDE DEF raw
<1>1. CASE part.session
  <2>1. t = [s EXCEPT !.wire.call = raw]
    BY <1>1 DEF Backlight!Write, raw
  <2> HIDE DEF t
  <2>2. t.panel = s.panel /\ t.world = s.world /\ t.wire = [s.wire EXCEPT !.call = raw] /\ DOMAIN t = DOMAIN s
    BY <2>1
  <2>3. /\ DOMAIN t.wire = DOMAIN s.wire /\ t.wire.call = raw
        /\ t.wire.events = s.wire.events /\ t.wire.finished = s.wire.finished
        /\ \A f \in DOMAIN s.wire \ {"call", "events", "finished"} : t.wire[f] = s.wire[f]
    BY <2>2
  <2> QED BY <1>1, <2>2, <2>3 DEF t, raw
<1>2. CASE ~part.session
  <2> DEFINE u == Backlight(part)!Stored(s, raw)
  <2>1. t = [u EXCEPT !.wire.finished = TRUE]
    BY <1>2 DEF Backlight!Write, raw
  <2>2. u.panel = s.panel /\ u.world = [s.world EXCEPT !.raw = raw] /\ DOMAIN u = DOMAIN s
        /\ u.wire = [s.wire EXCEPT !.events = @ + 1]
    BY DEF Backlight!Stored
  <2> HIDE DEF t, u
  <2>3. t.panel = s.panel /\ t.world = [s.world EXCEPT !.raw = raw] /\ DOMAIN t = DOMAIN s
        /\ t.wire = [u.wire EXCEPT !.finished = TRUE]
    BY <2>1, <2>2
  <2>4. DOMAIN t.world = DOMAIN s.world /\ t.world.raw = raw
        /\ \A f \in DOMAIN s.world \ {"raw"} : t.world[f] = s.world[f]
    BY <2>3
  <2>5. DOMAIN u.wire = DOMAIN s.wire /\ u.wire.events = s.wire.events + 1
        /\ \A f \in DOMAIN s.wire \ {"events"} : u.wire[f] = s.wire[f]
    BY <2>2
  <2>6. DOMAIN t.wire = DOMAIN s.wire /\ t.wire.events = s.wire.events + 1 /\ t.wire.finished
        /\ \A f \in DOMAIN s.wire \ {"events", "finished"} : t.wire[f] = s.wire[f]
    BY <2>3, <2>5
  <2> QED BY <1>2, <2>3, <2>4, <2>6 DEF t, raw
<1> QED BY <1>1, <1>2

LEMMA BacklightTakesCommand ==
    ASSUME NEW part, Backlight(part)!ConstantsOK, BacklightInv(part), Backlight(part)!TakeCommand
    PROVE  BacklightInv(part)'
<1> DEFINE target(c) == IF c.do = "set" THEN c.to ELSE Backlight(part)!Step(panel.percent, c.to)
           s(c) == [Backlight(part)!Now EXCEPT !.wire.sent = @ \ {c}]
           noted(c) == [s(c) EXCEPT !.panel.echoes = Backlight(part)!Record(@, "brightness", target(c), c.source),
                                    !.world.asked = target(c)]
           shown(c) == Backlight(part)!Publish(noted(c), target(c))
           waits(c) == [shown(c) EXCEPT !.panel.pending = target(c)]
           shut(c) == [shown(c) EXCEPT !.panel.inFlight = TRUE]
           out(c) == Backlight(part)!Write(shut(c), target(c))
<1>1. PICK c \in wire.sent :
        Backlight(part)!Become(IF Backlight(part)!Discovered = 0 THEN s(c)
                               ELSE IF shown(c).panel.inFlight THEN waits(c) ELSE out(c))
  <2>1. PICK c \in wire.sent : Backlight(part)!Become(Backlight(part)!Command(s(c), c))
    BY DEF Backlight!TakeCommand
  <2>2. s(c).panel = panel
    BY DEF Backlight!Now
  <2> HIDE DEF s
  <2>3. Backlight(part)!Command(s(c), c) =
          IF Backlight(part)!Discovered = 0 THEN s(c)
          ELSE IF shown(c).panel.inFlight THEN waits(c) ELSE out(c)
    BY <2>2 DEF Backlight!Command, Backlight!Requested
  <2> QED BY <2>1, <2>3
<1>2. s(c).panel = panel /\ s(c).world = world /\ s(c).wire = [wire EXCEPT !.sent = @ \ {c}]
      /\ DOMAIN s(c) = {"panel", "world", "wire"}
  BY DEF Backlight!Now
<1> DEFINE v == target(c)
<1>3. v \in 0 .. part.full /\ (Backlight(part)!Discovered # 0 /\ c.do = "set" => v = c.to)
  <2>1. CASE c.do = "set"
    BY <2>1 DEF BacklightInv, BacklightShape
  <2>2. CASE c.do # "set"
    <3>1. c.to \in {-1, 1} /\ panel.percent \in Int /\ part.full \in Nat
      BY <2>2 DEF BacklightInv, BacklightShape, Backlight!ConstantsOK
    <3>2. Backlight(part)!Step(panel.percent, c.to) \in 0 .. part.full
      BY <3>1 DEF Backlight!Step
    <3> QED BY <2>2, <3>2
  <2> QED BY <2>1, <2>2
<1>4. v # NoOne /\ Backlight(part)!Raw(v) # NoOne /\ Backlight(part)!Raw(v) \in Raws(part)
      /\ Backlight(part)!Raw(v) \in Int /\ v \in Int
  BY <1>3, BacklightNumbers DEF Backlight!ConstantsOK
<1>5. CASE Backlight(part)!Discovered = 0
  <2>1. panel' = panel /\ world' = world /\ wire' = [wire EXCEPT !.sent = @ \ {c}]
    BY <1>1, <1>2, <1>5 DEF Backlight!Become
  <2>2. /\ DOMAIN wire' = DOMAIN wire /\ wire'.sent = wire.sent \ {c} /\ wire'.call = wire.call
        /\ wire'.landed = wire.landed /\ wire'.finished = wire.finished /\ wire'.events = wire.events
        /\ wire'.cli = wire.cli
    BY <2>1 DEF BacklightInv, BacklightShape
  <2>3. c.do = "step"
    BY <1>5 DEF BacklightInv, BacklightShape
  <2>4. BacklightShape(part)'
    BY <2>1, <2>2 DEF BacklightInv, BacklightShape, Raws
  <2>5. SliderInv'
    BY <2>1, <2>2, <2>3 DEF BacklightInv, SliderInv
  <2>6. GateInv(part)' /\ ScreenInv(part)' /\ LastInv(part)'
    BY <2>1, <2>2 DEF BacklightInv, GateInv, ScreenInv, LastInv
  <2> QED BY <2>4, <2>5, <2>6 DEF BacklightInv
<1>6. CASE Backlight(part)!Discovered # 0
  <2> HIDE DEF target, s
  <2> DEFINE n == noted(c)
             u == shown(c)
             w == waits(c)
             g == shut(c)
             o == out(c)
  <2>1. /\ n.panel = [panel EXCEPT !.echoes = Backlight(part)!Record(@, "brightness", v, c.source)]
        /\ n.world = [world EXCEPT !.asked = v] /\ n.wire = s(c).wire /\ DOMAIN n = {"panel", "world", "wire"}
    BY <1>2
  <2> HIDE DEF n
  <2>2. /\ DOMAIN n.panel = DOMAIN panel /\ \A f \in DOMAIN panel \ {"echoes"} : n.panel[f] = panel[f]
        /\ DOMAIN n.world = DOMAIN world /\ n.world.asked = v /\ n.world.raw = world.raw
        /\ n.world.touched = world.touched
        /\ DOMAIN n.wire = DOMAIN wire /\ n.wire.sent = wire.sent \ {c} /\ n.wire.call = wire.call
        /\ n.wire.landed = wire.landed /\ n.wire.finished = wire.finished /\ n.wire.events = wire.events
        /\ n.wire.cli = wire.cli
    BY <1>2, <2>1 DEF BacklightInv, BacklightShape
  <2>3. u = Backlight(part)!Publish(n, v)
    BY DEF n
  <2>4. {"percent", "change", "echoes", "heard", "due"} \subseteq DOMAIN n.panel
    BY <2>2 DEF BacklightInv, BacklightShape
  <2> HIDE DEF u, shown, v
  <2>5. /\ DOMAIN u = {"panel", "world", "wire"} /\ u.world = n.world /\ u.wire = n.wire
        /\ DOMAIN u.panel = DOMAIN n.panel /\ u.panel.percent = v
        /\ \A f \in DOMAIN n.panel \ {"percent", "change", "echoes", "heard", "due"} : u.panel[f] = n.panel[f]
        /\ u.panel.due \/ (u.panel.due = n.panel.due /\ v = n.panel.percent)
    BY <2>1, <2>3, <2>4, BacklightPublish
  <2>6. /\ u.panel.slider = panel.slider /\ u.panel.inFlight = panel.inFlight /\ u.panel.pending = panel.pending
        /\ u.panel.due \/ (u.panel.due = panel.due /\ v = panel.percent)
    BY <2>2, <2>5 DEF BacklightInv, BacklightShape
  <2>7. ASSUME DOMAIN panel' = DOMAIN panel, panel'.percent = v, panel'.slider = panel.slider,
               panel'.due = u.panel.due,
               DOMAIN world' = DOMAIN world, world'.asked = v, world'.touched = world.touched,
               DOMAIN wire' = DOMAIN wire, wire'.sent = wire.sent \ {c}, wire'.landed = wire.landed,
               wire'.cli = wire.cli,
               \/ /\ panel.inFlight /\ panel'.inFlight = panel.inFlight /\ panel'.pending = v
                  /\ world'.raw = world.raw
                  /\ wire'.call = wire.call /\ wire'.finished = wire.finished /\ wire'.events = wire.events
               \/ /\ ~panel.inFlight /\ panel'.inFlight /\ panel'.pending = panel.pending
                  /\ \/ /\ part.session /\ wire'.call = Backlight(part)!Raw(v) /\ world'.raw = world.raw
                        /\ wire'.finished = wire.finished /\ wire'.events = wire.events
                     \/ /\ ~part.session /\ wire'.call = wire.call /\ world'.raw = Backlight(part)!Raw(v)
                        /\ wire'.finished /\ wire'.events = wire.events + 1
        PROVE  BacklightInv(part)'
    <3>1. BacklightShape(part)'
      BY <1>3, <1>4, <2>7 DEF BacklightInv, BacklightShape, Raws, v
    <3>2. GateInv(part)'
      BY <1>4, <2>7 DEF BacklightInv, GateInv
    <3>3. ScreenInv(part)'
      BY <1>4, <2>7 DEF BacklightInv, GateInv, ScreenInv
    <3>4. SliderInv'
      <4>1. CASE u.panel.due
        BY <2>7, <4>1 DEF SliderInv
      <4>2. CASE u.panel.due = panel.due /\ v = panel.percent
        <5>1. CASE panel.due \/ panel.slider = panel.percent
          BY <2>7, <4>2, <5>1 DEF SliderInv
        <5>2. ASSUME NEW d \in wire.sent, d.do = "set", d.to = panel.slider
              PROVE  SliderInv'
          <6>1. CASE d = c
            BY <1>3, <1>6, <2>7, <5>2, <6>1 DEF SliderInv, v
          <6>2. CASE d # c
            BY <2>7, <5>2, <6>2 DEF SliderInv
          <6> QED BY <6>1, <6>2
        <5> QED BY <5>1, <5>2 DEF BacklightInv, SliderInv
      <4> QED BY <2>6, <4>1, <4>2
    <3>5. LastInv(part)'
      BY <1>4, <2>7 DEF BacklightInv, GateInv, LastInv
    <3> QED BY <3>1, <3>2, <3>3, <3>4, <3>5 DEF BacklightInv
  <2>8. CASE panel.inFlight
    <3>1. w.panel = [u.panel EXCEPT !.pending = v] /\ w.world = u.world /\ w.wire = u.wire
      BY <2>5 DEF u, v
    <3>2. panel' = w.panel /\ world' = w.world /\ wire' = w.wire
      BY <1>1, <1>6, <2>6, <2>8 DEF Backlight!Become, u
    <3> HIDE DEF w, waits
    <3>3. /\ DOMAIN panel' = DOMAIN panel /\ panel'.percent = v /\ panel'.slider = panel.slider
          /\ panel'.due = u.panel.due /\ panel'.inFlight = panel.inFlight /\ panel'.pending = v
      BY <2>2, <2>5, <2>6, <3>1, <3>2 DEF BacklightInv, BacklightShape
    <3> QED BY <2>2, <2>5, <2>7, <2>8, <3>1, <3>2, <3>3
  <2>9. CASE ~panel.inFlight
    <3>1. g.panel = [u.panel EXCEPT !.inFlight = TRUE] /\ g.world = u.world /\ g.wire = u.wire
          /\ DOMAIN g = {"panel", "world", "wire"}
      BY <2>5 DEF u
    <3>2. o = Backlight(part)!Write(g, v)
      BY DEF v
    <3>3. panel' = o.panel /\ world' = o.world /\ wire' = o.wire
      BY <1>1, <1>6, <2>6, <2>9 DEF Backlight!Become, u
    <3> HIDE DEF o, out, g, shut
    <3>4. "raw" \in DOMAIN g.world /\ {"call", "events", "finished"} \subseteq DOMAIN g.wire
      BY <2>2, <2>5, <3>1 DEF BacklightInv, BacklightShape
    <3>9. DOMAIN g = {"panel", "world", "wire"}
      BY <3>1
    <3>5. /\ o.panel = g.panel /\ DOMAIN o.world = DOMAIN g.world /\ DOMAIN o.wire = DOMAIN g.wire
          /\ \A f \in DOMAIN g.world \ {"raw"} : o.world[f] = g.world[f]
          /\ \A f \in DOMAIN g.wire \ {"call", "events", "finished"} : o.wire[f] = g.wire[f]
          /\ part.session => /\ o.wire.call = Backlight(part)!Raw(v) /\ o.world.raw = g.world.raw
                             /\ o.wire.events = g.wire.events /\ o.wire.finished = g.wire.finished
          /\ ~part.session => /\ o.world.raw = Backlight(part)!Raw(v) /\ o.wire.call = g.wire.call
                              /\ o.wire.events = g.wire.events + 1 /\ o.wire.finished
      BY <3>2, <3>4, <3>9, BacklightWrites
    <3>6. /\ DOMAIN panel' = DOMAIN panel /\ panel'.percent = v /\ panel'.slider = panel.slider
          /\ panel'.due = u.panel.due /\ panel'.inFlight /\ panel'.pending = panel.pending
      BY <2>2, <2>5, <2>6, <3>1, <3>3, <3>5 DEF BacklightInv, BacklightShape
    <3>7. /\ DOMAIN world' = DOMAIN world /\ world'.asked = v /\ world'.touched = world.touched
          /\ DOMAIN wire' = DOMAIN wire /\ wire'.sent = wire.sent \ {c} /\ wire'.landed = wire.landed
          /\ wire'.cli = wire.cli
      BY <2>2, <2>5, <3>1, <3>3, <3>5 DEF BacklightInv, BacklightShape
    <3>8. \/ /\ part.session /\ wire'.call = Backlight(part)!Raw(v) /\ world'.raw = world.raw
             /\ wire'.finished = wire.finished /\ wire'.events = wire.events
          \/ /\ ~part.session /\ wire'.call = wire.call /\ world'.raw = Backlight(part)!Raw(v)
             /\ wire'.finished /\ wire'.events = wire.events + 1
      BY <2>2, <2>5, <3>1, <3>3, <3>5
    <3> QED BY <2>7, <2>9, <3>6, <3>7, <3>8
  <2> QED BY <2>8, <2>9
<1> QED BY <1>5, <1>6

LEMMA BacklightCompletes ==
    ASSUME NEW part, Backlight(part)!ConstantsOK, BacklightInv(part), Backlight(part)!TakeCompletion
    PROVE  BacklightInv(part)'
<1> DEFINE s == [Backlight(part)!Now EXCEPT !.wire.finished = FALSE]
           open == [s EXCEPT !.panel.inFlight = FALSE]
           next == [s EXCEPT !.panel.pending = NoOne]
           t == Backlight(part)!Finished(s)
           v == Backlight(part)!Percent(t.world.raw)
           u == Backlight(part)!Publish(t, v)
<1>1. panel' = u.panel /\ world' = u.world /\ wire' = u.wire
  BY DEF Backlight!TakeCompletion, Backlight!Become, Backlight!Complete, Backlight!Read
<1>2. s.panel = panel /\ s.world = world /\ s.wire = [wire EXCEPT !.finished = FALSE]
      /\ DOMAIN s = {"panel", "world", "wire"}
  BY DEF Backlight!Now
<1>3. t = IF panel.pending = NoOne THEN open ELSE Backlight(part)!Write(next, panel.pending)
  <2> HIDE DEF s
  <2> QED BY <1>2 DEF Backlight!Finished
<1> HIDE DEF s
<1>4. /\ DOMAIN s.wire = DOMAIN wire /\ s.wire.sent = wire.sent /\ s.wire.call = wire.call
      /\ s.wire.landed = wire.landed /\ s.wire.events = wire.events /\ s.wire.cli = wire.cli
  BY <1>2 DEF BacklightInv, BacklightShape
<1>5. /\ DOMAIN t = {"panel", "world", "wire"}
      /\ DOMAIN t.panel = DOMAIN panel /\ t.panel.percent = panel.percent /\ t.panel.slider = panel.slider
      /\ t.panel.due = panel.due /\ t.panel.pending = NoOne
      /\ DOMAIN t.world = DOMAIN world /\ t.world.asked = world.asked /\ t.world.touched = world.touched
      /\ DOMAIN t.wire = DOMAIN wire /\ t.wire.sent = wire.sent /\ t.wire.landed = wire.landed
      /\ t.wire.cli = wire.cli
      /\ \/ /\ panel.pending = NoOne /\ ~t.panel.inFlight /\ t.world.raw = world.raw
            /\ t.wire.call = wire.call /\ t.wire.events = wire.events
         \/ /\ panel.pending # NoOne /\ part.session /\ t.world.raw = world.raw
            /\ t.wire.call = Backlight(part)!Raw(panel.pending) /\ t.wire.events = wire.events
         \/ /\ panel.pending # NoOne /\ ~part.session /\ t.world.raw = Backlight(part)!Raw(panel.pending)
            /\ t.wire.call = wire.call /\ t.wire.events = wire.events + 1 /\ t.wire.finished
  <2>1. CASE panel.pending = NoOne
    <3>1. t = open
      BY <1>3, <2>1
    <3> HIDE DEF t
    <3>2. t.panel = [panel EXCEPT !.inFlight = FALSE] /\ t.world = world /\ t.wire = s.wire
          /\ DOMAIN t = {"panel", "world", "wire"}
      BY <1>2, <3>1
    <3> QED BY <1>4, <2>1, <3>2 DEF BacklightInv, BacklightShape
  <2>2. CASE panel.pending # NoOne
    <3> DEFINE p == panel.pending
    <3>1. t = Backlight(part)!Write(next, p)
      BY <1>3, <2>2
    <3>2. next.panel = [panel EXCEPT !.pending = NoOne] /\ next.world = world /\ next.wire = s.wire
          /\ DOMAIN next = {"panel", "world", "wire"}
      BY <1>2
    <3> HIDE DEF t, next, p
    <3>3. "raw" \in DOMAIN next.world /\ {"call", "events", "finished"} \subseteq DOMAIN next.wire
      BY <1>4, <3>2 DEF BacklightInv, BacklightShape
    <3>4. /\ DOMAIN t = DOMAIN next /\ t.panel = next.panel /\ DOMAIN t.world = DOMAIN next.world
          /\ DOMAIN t.wire = DOMAIN next.wire
          /\ \A f \in DOMAIN next.world \ {"raw"} : t.world[f] = next.world[f]
          /\ \A f \in DOMAIN next.wire \ {"call", "events", "finished"} : t.wire[f] = next.wire[f]
          /\ part.session => /\ t.wire.call = Backlight(part)!Raw(p) /\ t.world.raw = next.world.raw
                             /\ t.wire.events = next.wire.events /\ t.wire.finished = next.wire.finished
          /\ ~part.session => /\ t.world.raw = Backlight(part)!Raw(p) /\ t.wire.call = next.wire.call
                              /\ t.wire.events = next.wire.events + 1 /\ t.wire.finished
      BY <3>1, <3>2, <3>3, BacklightWrites
    <3>5. /\ DOMAIN t.panel = DOMAIN panel /\ t.panel.percent = panel.percent /\ t.panel.slider = panel.slider
          /\ t.panel.due = panel.due /\ t.panel.pending = NoOne
      BY <3>2, <3>4 DEF BacklightInv, BacklightShape
    <3>6. /\ t.world.asked = world.asked /\ t.world.touched = world.touched
          /\ t.wire.sent = wire.sent /\ t.wire.landed = wire.landed /\ t.wire.cli = wire.cli
      BY <1>4, <3>2, <3>4 DEF BacklightInv, BacklightShape
    <3> QED BY <1>4, <2>2, <3>2, <3>4, <3>5, <3>6 DEF p
  <2> QED BY <2>1, <2>2
<1> HIDE DEF t, v
<1>6. {"percent", "change", "echoes", "heard", "due"} \subseteq DOMAIN t.panel
  BY <1>5 DEF BacklightInv, BacklightShape
<1>7. /\ u.world = t.world /\ u.wire = t.wire
      /\ DOMAIN u.panel = DOMAIN t.panel /\ u.panel.percent = v
      /\ \A f \in DOMAIN t.panel \ {"percent", "change", "echoes", "heard", "due"} : u.panel[f] = t.panel[f]
      /\ u.panel.due \/ (u.panel.due = t.panel.due /\ v = t.panel.percent)
  BY <1>5, <1>6, BacklightPublish
<1> HIDE DEF u
<1>8. /\ DOMAIN panel' = DOMAIN panel /\ panel'.percent = v /\ panel'.slider = panel.slider
      /\ panel'.pending = NoOne /\ panel'.inFlight = t.panel.inFlight
      /\ panel'.due \/ (panel'.due = panel.due /\ v = panel.percent)
      /\ v = Backlight(part)!Percent(world'.raw) /\ world' = t.world /\ wire' = t.wire
  BY <1>1, <1>5, <1>7 DEF BacklightInv, BacklightShape, v
<1>9. panel.pending # NoOne => /\ Backlight(part)!Raw(panel.pending) \in Raws(part)
                               /\ Backlight(part)!Raw(panel.pending) # NoOne
                               /\ Backlight(part)!Raw(panel.pending) \in Int
  BY BacklightNumbers DEF BacklightInv, BacklightShape, Backlight!ConstantsOK
<1>10. world'.raw \in Int /\ v \in Int
  <2>1. world'.raw \in Int
    BY <1>5, <1>8, <1>9 DEF BacklightInv, BacklightShape
  <2> QED BY <1>8, <2>1, BacklightNumbers
<1>11. BacklightShape(part)'
  BY <1>5, <1>8, <1>9, <1>10 DEF BacklightInv, BacklightShape, Raws
<1>12. GateInv(part)'
  BY <1>5, <1>8, <1>9 DEF BacklightInv, GateInv
<1>13. ScreenInv(part)'
  BY <1>8 DEF ScreenInv
<1>14. SliderInv'
  BY <1>5, <1>8 DEF BacklightInv, SliderInv
<1>15. LastInv(part)'
  BY <1>5, <1>8, <1>9 DEF BacklightInv, GateInv, LastInv
<1> QED BY <1>11, <1>12, <1>13, <1>14, <1>15 DEF BacklightInv

LEMMA BacklightTakesEvent ==
    ASSUME NEW part, Backlight(part)!ConstantsOK, BacklightInv(part), Backlight(part)!TakeEvent
    PROVE  BacklightInv(part)'
<1> DEFINE s == [Backlight(part)!Now EXCEPT !.wire.events = @ - 1]
           v == Backlight(part)!Percent(world.raw)
           u == Backlight(part)!Publish(s, v)
<1>1. s.panel = panel /\ s.world = world /\ s.wire = [wire EXCEPT !.events = @ - 1]
      /\ DOMAIN s = {"panel", "world", "wire"}
  BY DEF Backlight!Now
<1>2. panel' = u.panel /\ world' = u.world /\ wire' = u.wire /\ wire.events > 0
  BY <1>1 DEF Backlight!TakeEvent, Backlight!Become, Backlight!Read
<1>3. {"percent", "change", "echoes", "heard", "due"} \subseteq DOMAIN s.panel
  BY <1>1 DEF BacklightInv, BacklightShape
<1> HIDE DEF s, v
<1>4. /\ u.world = s.world /\ u.wire = s.wire
      /\ DOMAIN u.panel = DOMAIN s.panel /\ u.panel.percent = v
      /\ \A f \in DOMAIN s.panel \ {"percent", "change", "echoes", "heard", "due"} : u.panel[f] = s.panel[f]
      /\ u.panel.due \/ (u.panel.due = s.panel.due /\ v = s.panel.percent)
  BY <1>1, <1>3, BacklightPublish
<1> HIDE DEF u
<1>5. /\ DOMAIN panel' = DOMAIN panel /\ panel'.percent = v /\ panel'.slider = panel.slider
      /\ panel'.pending = panel.pending /\ panel'.inFlight = panel.inFlight
      /\ panel'.due \/ (panel'.due = panel.due /\ v = panel.percent)
      /\ world' = world
  BY <1>1, <1>2, <1>4 DEF BacklightInv, BacklightShape
<1>6. /\ DOMAIN wire' = DOMAIN wire /\ wire'.sent = wire.sent /\ wire'.call = wire.call
      /\ wire'.landed = wire.landed /\ wire'.finished = wire.finished /\ wire'.events = wire.events - 1
      /\ wire'.cli = wire.cli
  BY <1>1, <1>2, <1>4 DEF BacklightInv, BacklightShape
<1>7. v \in Int
  BY BacklightNumbers DEF BacklightInv, BacklightShape, v
<1>8. BacklightShape(part)'
  BY <1>2, <1>5, <1>6, <1>7 DEF BacklightInv, BacklightShape, Raws
<1>9. GateInv(part)' /\ LastInv(part)'
  BY <1>5, <1>6 DEF BacklightInv, GateInv, LastInv
<1>10. ScreenInv(part)'
  BY <1>5 DEF ScreenInv, v
<1>11. SliderInv'
  BY <1>5, <1>6 DEF BacklightInv, SliderInv
<1> QED BY <1>8, <1>9, <1>10, <1>11 DEF BacklightInv

\* Somebody else at the screen, or at the echoes: what was last asked for is no longer promised.
LEMMA BacklightDisturbed ==
    ASSUME NEW part, Backlight(part)!ConstantsOK, BacklightInv(part),
           \/ Backlight(part)!Expire \/ Backlight(part)!Outside \/ Backlight(part)!CliReads
           \/ Backlight(part)!CliWrites
    PROVE  BacklightInv(part)'
<1>1. CASE Backlight(part)!Expire
  <2>1. /\ panel' = [panel EXCEPT !.echoes = Tail(@)] /\ world' = [world EXCEPT !.touched = @ \cup {"late"}]
        /\ wire' = wire
    BY <1>1 DEF Backlight!Expire, Backlight!Become, Backlight!Now
  <2>2. /\ DOMAIN panel' = DOMAIN panel /\ panel'.percent = panel.percent /\ panel'.slider = panel.slider
        /\ panel'.pending = panel.pending /\ panel'.inFlight = panel.inFlight /\ panel'.due = panel.due
        /\ DOMAIN world' = DOMAIN world /\ world'.raw = world.raw /\ "late" \in world'.touched
    BY <2>1 DEF BacklightInv, BacklightShape
  <2>3. LastInv(part)'
    BY <2>2 DEF LastInv
  <2>4. BacklightShape(part)'
    BY <2>1, <2>2 DEF BacklightInv, BacklightShape, Raws
  <2> QED BY <2>1, <2>2, <2>3, <2>4 DEF BacklightInv, GateInv, ScreenInv, SliderInv
<1>2. CASE Backlight(part)!Outside
  <2>1. PICK raw \in 0 .. Backlight(part)!Discovered :
          Backlight(part)!Become([Backlight(part)!Stored(Backlight(part)!Now, raw) EXCEPT
                                    !.world.moves = @ + 1, !.world.touched = @ \cup {"outside"}])
    BY <1>2 DEF Backlight!Outside
  <2>2. /\ panel' = panel
        /\ world' = [[world EXCEPT !.raw = raw] EXCEPT !.moves = @ + 1, !.touched = @ \cup {"outside"}]
        /\ wire' = [wire EXCEPT !.events = @ + 1]
    <3> DEFINE u == Backlight(part)!Stored(Backlight(part)!Now, raw)
               t == [u EXCEPT !.world.moves = @ + 1, !.world.touched = @ \cup {"outside"}]
    <3>1. /\ u.panel = panel /\ u.world = [world EXCEPT !.raw = raw] /\ u.wire = [wire EXCEPT !.events = @ + 1]
          /\ DOMAIN u = {"panel", "world", "wire"}
      BY DEF Backlight!Stored, Backlight!Now
    <3>2. panel' = t.panel /\ world' = t.world /\ wire' = t.wire
      BY <2>1 DEF Backlight!Become
    <3> HIDE DEF u
    <3> QED BY <3>1, <3>2
  <2>3. /\ DOMAIN world' = DOMAIN world /\ world'.raw = raw /\ "outside" \in world'.touched
    BY <2>2 DEF BacklightInv, BacklightShape
  <2>4. /\ DOMAIN wire' = DOMAIN wire /\ wire'.sent = wire.sent /\ wire'.call = wire.call
        /\ wire'.landed = wire.landed /\ wire'.finished = wire.finished /\ wire'.events = wire.events + 1
        /\ wire'.cli = wire.cli
    BY <2>2 DEF BacklightInv, BacklightShape
  <2>5. raw \in Int
    BY <2>1 DEF Backlight!ConstantsOK
  <2>6. LastInv(part)'
    BY <2>3 DEF LastInv
  <2>7. BacklightShape(part)'
    BY <2>2, <2>3, <2>4, <2>5 DEF BacklightInv, BacklightShape, Raws
  <2>8. ScreenInv(part)'
    BY <2>4 DEF BacklightInv, BacklightShape, ScreenInv
  <2> QED BY <2>2, <2>4, <2>6, <2>7, <2>8 DEF BacklightInv, GateInv, SliderInv
<1>3. CASE Backlight(part)!CliReads
  <2>1. PICK delta \in {-1, 1} :
          Backlight(part)!Become([Backlight(part)!Now EXCEPT
            !.wire.cli = Backlight(part)!Step(Backlight(part)!Read(Backlight(part)!Now), delta),
            !.world.clicks = @ + 1, !.world.touched = @ \cup {"cli"}])
    BY <1>3 DEF Backlight!CliReads
  <2> DEFINE now == Backlight(part)!Percent(world.raw)
             v == Backlight(part)!Step(now, delta)
  <2>2. Backlight(part)!Read(Backlight(part)!Now) = now
    BY DEF Backlight!Read, Backlight!Now
  <2>3. now \in Int /\ part.full \in Nat
    BY BacklightNumbers DEF BacklightInv, BacklightShape, Backlight!ConstantsOK
  <2> HIDE DEF now
  <2>4. v \in 0 .. part.full
    BY <2>3 DEF Backlight!Step
  <2> HIDE DEF v
  <2>5. Backlight(part)!Become([Backlight(part)!Now EXCEPT
            !.wire.cli = v, !.world.clicks = @ + 1, !.world.touched = @ \cup {"cli"}])
    BY <2>1, <2>2 DEF v
  <2>6. /\ panel' = panel
        /\ world' = [world EXCEPT !.clicks = @ + 1, !.touched = @ \cup {"cli"}]
        /\ wire' = [wire EXCEPT !.cli = v]
    BY <2>5 DEF Backlight!Become, Backlight!Now
  <2>7. /\ DOMAIN world' = DOMAIN world /\ world'.raw = world.raw /\ "cli" \in world'.touched
    BY <2>6 DEF BacklightInv, BacklightShape
  <2>8. /\ DOMAIN wire' = DOMAIN wire /\ wire'.sent = wire.sent /\ wire'.call = wire.call
        /\ wire'.landed = wire.landed /\ wire'.finished = wire.finished /\ wire'.events = wire.events
        /\ wire'.cli = v
    BY <2>6 DEF BacklightInv, BacklightShape
  <2>9. LastInv(part)'
    BY <2>7 DEF LastInv
  <2>10. BacklightShape(part)'
    BY <2>4, <2>6, <2>7, <2>8 DEF BacklightInv, BacklightShape, Raws
  <2> QED BY <2>6, <2>7, <2>8, <2>9, <2>10 DEF BacklightInv, GateInv, ScreenInv, SliderInv
<1>4. CASE Backlight(part)!CliWrites
  <2> DEFINE raw == Backlight(part)!Raw(wire.cli)
  <2>1. raw \in Int
    BY <1>4, BacklightNumbers DEF BacklightInv, BacklightShape, Backlight!CliWrites, Backlight!ConstantsOK
  <2>2. /\ panel' = panel /\ wire.cli # NoOne
        /\ world' = [world EXCEPT !.raw = raw]
        /\ wire' = [[wire EXCEPT !.events = @ + 1] EXCEPT !.cli = NoOne, !.frames = @ + 1]
    <3> DEFINE u == Backlight(part)!Stored(Backlight(part)!Now, raw)
               t == [u EXCEPT !.wire.cli = NoOne, !.wire.frames = @ + 1]
    <3>1. /\ u.panel = panel /\ u.world = [world EXCEPT !.raw = raw] /\ u.wire = [wire EXCEPT !.events = @ + 1]
          /\ DOMAIN u = {"panel", "world", "wire"}
      BY DEF Backlight!Stored, Backlight!Now
    <3>2. panel' = t.panel /\ world' = t.world /\ wire' = t.wire /\ wire.cli # NoOne
      BY <1>4 DEF Backlight!CliWrites, Backlight!Become
    <3> HIDE DEF u, raw
    <3> QED BY <3>1, <3>2
  <2> HIDE DEF raw
  <2>3. /\ DOMAIN world' = DOMAIN world /\ world'.raw = raw /\ world'.touched = world.touched
    BY <2>2 DEF BacklightInv, BacklightShape
  <2>4. /\ DOMAIN wire' = DOMAIN wire /\ wire'.sent = wire.sent /\ wire'.call = wire.call
        /\ wire'.landed = wire.landed /\ wire'.finished = wire.finished /\ wire'.events = wire.events + 1
        /\ wire'.cli = NoOne
    BY <2>2 DEF BacklightInv, BacklightShape
  <2>5. LastInv(part)'
    BY <2>2, <2>3 DEF BacklightInv, LastInv
  <2>6. BacklightShape(part)'
    BY <2>1, <2>2, <2>3, <2>4 DEF BacklightInv, BacklightShape, Raws
  <2>7. ScreenInv(part)'
    BY <2>4 DEF BacklightInv, BacklightShape, ScreenInv
  <2> QED BY <2>2, <2>4, <2>5, <2>6, <2>7 DEF BacklightInv, GateInv, SliderInv
<1> QED BY <1>1, <1>2, <1>3, <1>4

LEMMA BacklightLogind ==
    ASSUME NEW part, Backlight(part)!ConstantsOK, BacklightInv(part),
           Backlight(part)!LogindWrites \/ Backlight(part)!LogindAnswers
    PROVE  BacklightInv(part)'
<1> DEFINE stored == Backlight(part)!Become([Backlight(part)!Stored(Backlight(part)!Now, wire.call) EXCEPT
                                               !.wire.call = NoOne, !.wire.landed = TRUE])
           refused == Backlight(part)!Become([Backlight(part)!Now EXCEPT
                        !.wire.call = NoOne, !.wire.finished = TRUE,
                        !.world.moves = @ + 1, !.world.touched = @ \cup {"refuse"}])
<1>1. ASSUME stored, wire.call # NoOne
      PROVE  BacklightInv(part)'
  <2>1. /\ panel' = panel /\ world' = [world EXCEPT !.raw = wire.call]
        /\ wire' = [wire EXCEPT !.events = @ + 1, !.call = NoOne, !.landed = TRUE]
    BY <1>1 DEF Backlight!Stored, Backlight!Become, Backlight!Now
  <2>2. /\ DOMAIN world' = DOMAIN world /\ world'.raw = wire.call /\ world'.touched = world.touched
        /\ world'.asked = world.asked
    BY <2>1 DEF BacklightInv, BacklightShape
  <2>3. /\ DOMAIN wire' = DOMAIN wire /\ wire'.sent = wire.sent /\ wire'.call = NoOne
        /\ wire'.landed /\ wire'.finished = wire.finished /\ wire'.events = wire.events + 1
        /\ wire'.cli = wire.cli
    BY <2>1 DEF BacklightInv, BacklightShape
  <2>4. wire.call \in Int
    BY <1>1, BacklightNumbers DEF BacklightInv, BacklightShape
  <2>5. BacklightShape(part)'
    BY <2>1, <2>2, <2>3, <2>4 DEF BacklightInv, BacklightShape, Raws
  <2>6. ScreenInv(part)' /\ GateInv(part)'
    BY <2>1, <2>3 DEF BacklightInv, ScreenInv, GateInv
  <2>7. SliderInv'
    BY <2>1, <2>3 DEF BacklightInv, SliderInv
  <2>8. LastInv(part)'
    BY <1>1, <2>1, <2>2, <2>3 DEF BacklightInv, LastInv
  <2> QED BY <2>5, <2>6, <2>7, <2>8 DEF BacklightInv
<1>2. ASSUME refused
      PROVE  BacklightInv(part)'
  <2>1. /\ panel' = panel /\ world' = [world EXCEPT !.moves = @ + 1, !.touched = @ \cup {"refuse"}]
        /\ wire' = [wire EXCEPT !.call = NoOne, !.finished = TRUE]
    BY <1>2 DEF Backlight!Become, Backlight!Now
  <2>2. /\ DOMAIN world' = DOMAIN world /\ world'.raw = world.raw /\ "refuse" \in world'.touched
    BY <2>1 DEF BacklightInv, BacklightShape
  <2>3. /\ DOMAIN wire' = DOMAIN wire /\ wire'.sent = wire.sent /\ wire'.call = NoOne
        /\ wire'.landed = wire.landed /\ wire'.finished /\ wire'.events = wire.events
        /\ wire'.cli = wire.cli
    BY <2>1 DEF BacklightInv, BacklightShape
  <2>4. LastInv(part)'
    BY <2>2 DEF LastInv
  <2>5. BacklightShape(part)'
    BY <2>1, <2>2, <2>3 DEF BacklightInv, BacklightShape, Raws
  <2> QED BY <2>1, <2>3, <2>4, <2>5 DEF BacklightInv, ScreenInv, GateInv, SliderInv
<1>3. CASE Backlight(part)!LogindWrites
  <2>1. wire.call # NoOne /\ (stored \/ refused)
    BY <1>3 DEF Backlight!LogindWrites
  <2> HIDE DEF stored, refused
  <2> QED BY <1>1, <1>2, <2>1
<1>4. CASE Backlight(part)!LogindAnswers
  <2>1. panel' = panel /\ world' = world /\ wire' = [wire EXCEPT !.landed = FALSE, !.finished = TRUE]
    BY <1>4 DEF Backlight!LogindAnswers, Backlight!Become, Backlight!Now
  <2>2. /\ DOMAIN wire' = DOMAIN wire /\ wire'.sent = wire.sent /\ wire'.call = wire.call
        /\ wire'.finished /\ wire'.events = wire.events /\ wire'.cli = wire.cli
    BY <2>1 DEF BacklightInv, BacklightShape
  <2>3. BacklightShape(part)'
    BY <2>1, <2>2 DEF BacklightInv, BacklightShape, Raws
  <2> QED BY <2>1, <2>2, <2>3 DEF BacklightInv, ScreenInv, GateInv, SliderInv, LastInv
<1> QED BY <1>3, <1>4

LEMMA BacklightDraws ==
    ASSUME NEW part, Backlight(part)!ConstantsOK, BacklightInv(part), Backlight(part)!Loop
    PROVE  BacklightInv(part)'
<1>1. CASE Backlight(part)!Draw
  <2> DEFINE raised == panel.raised \/ (~panel.heard /\ Backlight(part)!ShowsOsd(panel.change))
  <2>1. /\ panel' = [panel EXCEPT !.slider = panel.percent, !.due = FALSE, !.heard = TRUE, !.raised = raised]
        /\ world' = world /\ wire' = wire
    BY <1>1 DEF Backlight!Draw, Backlight!Become, Backlight!Now
  <2> HIDE DEF raised
  <2>2. /\ DOMAIN panel' = DOMAIN panel /\ panel'.percent = panel.percent /\ panel'.slider = panel.percent
        /\ panel'.pending = panel.pending /\ panel'.inFlight = panel.inFlight
    BY <2>1 DEF BacklightInv, BacklightShape
  <2>3. BacklightShape(part)'
    BY <2>1, <2>2 DEF BacklightInv, BacklightShape, Raws
  <2> QED BY <2>1, <2>2, <2>3 DEF BacklightInv, ScreenInv, GateInv, SliderInv, LastInv
<1>2. CASE Backlight(part)!TakeFrame
  <2>1. panel' = [panel EXCEPT !.raised = TRUE] /\ world' = world /\ wire' = [wire EXCEPT !.frames = @ - 1]
    BY <1>2 DEF Backlight!TakeFrame, Backlight!Become, Backlight!Now
  <2>2. /\ DOMAIN panel' = DOMAIN panel /\ panel'.percent = panel.percent /\ panel'.slider = panel.slider
        /\ panel'.pending = panel.pending /\ panel'.inFlight = panel.inFlight /\ panel'.due = panel.due
    BY <2>1 DEF BacklightInv, BacklightShape
  <2>3. /\ DOMAIN wire' = DOMAIN wire /\ wire'.sent = wire.sent /\ wire'.call = wire.call
        /\ wire'.landed = wire.landed /\ wire'.finished = wire.finished /\ wire'.events = wire.events
        /\ wire'.cli = wire.cli
    BY <2>1 DEF BacklightInv, BacklightShape
  <2>4. BacklightShape(part)'
    BY <2>1, <2>2, <2>3 DEF BacklightInv, BacklightShape, Raws
  <2> QED BY <2>1, <2>2, <2>3, <2>4 DEF BacklightInv, ScreenInv, GateInv, SliderInv, LastInv
<1> QED BY <1>1, <1>2 DEF Backlight!Loop

LEMMA BacklightDrags ==
    ASSUME NEW part, Backlight(part)!ConstantsOK, BacklightInv(part), Backlight(part)!Drag
    PROVE  BacklightInv(part)'
<1> DEFINE sent(do, to) == [n |-> world.clicks, do |-> do, to |-> to, source |-> "ui"]
<1>1. ASSUME NEW do, NEW to, NEW at,
             \/ do = "set" /\ to \in 0 .. part.full /\ Backlight(part)!Discovered # 0 /\ at = to
             \/ do = "step" /\ to \in {-1, 1} /\ at = panel.slider,
             DOMAIN panel' = DOMAIN panel, panel'.slider = at,
             \A f \in DOMAIN panel \ {"slider"} : panel'[f] = panel[f],
             world' = [world EXCEPT !.clicks = @ + 1, !.touched = @ \cup {"ui"}],
             wire' = [wire EXCEPT !.sent = @ \cup {sent(do, to)}]
      PROVE  BacklightInv(part)'
  <2> DEFINE c == sent(do, to)
  <2>1. c.do = do /\ c.to = to
    OBVIOUS
  <2> HIDE DEF sent
  <2>2. /\ DOMAIN panel' = DOMAIN panel /\ panel'.percent = panel.percent /\ panel'.slider = at
        /\ panel'.pending = panel.pending /\ panel'.inFlight = panel.inFlight /\ panel'.due = panel.due
    BY <1>1 DEF BacklightInv, BacklightShape
  <2>3. /\ DOMAIN wire' = DOMAIN wire /\ wire'.sent = wire.sent \cup {c} /\ wire'.call = wire.call
        /\ wire'.landed = wire.landed /\ wire'.finished = wire.finished /\ wire'.events = wire.events
        /\ wire'.cli = wire.cli
    BY <1>1 DEF BacklightInv, BacklightShape
  <2>4. /\ DOMAIN world' = DOMAIN world /\ world'.raw = world.raw /\ world'.asked = world.asked
        /\ world'.touched = world.touched \cup {"ui"}
    BY <1>1 DEF BacklightInv, BacklightShape
  <2> HIDE DEF c
  <2>5. BacklightShape(part)'
    BY <1>1, <2>1, <2>2, <2>3, <2>4 DEF BacklightInv, BacklightShape, Raws
  <2>6. SliderInv'
    BY <1>1, <2>1, <2>2, <2>3 DEF BacklightInv, SliderInv
  <2>7. ScreenInv(part)' /\ GateInv(part)' /\ LastInv(part)'
    BY <2>2, <2>3, <2>4 DEF BacklightInv, ScreenInv, GateInv, LastInv
  <2> QED BY <2>5, <2>6, <2>7 DEF BacklightInv
<1>2. CASE \E v \in 0 .. part.full \ {panel.slider} :
             Backlight(part)!Discovered # 0 /\
             Backlight(part)!Become([Backlight(part)!Send(Backlight(part)!Now, "set", v) EXCEPT !.panel.slider = v])
  <2>1. PICK v \in 0 .. part.full \ {panel.slider} :
             Backlight(part)!Discovered # 0 /\
             Backlight(part)!Become([Backlight(part)!Send(Backlight(part)!Now, "set", v) EXCEPT !.panel.slider = v])
    BY <1>2
  <2>2. /\ panel' = [panel EXCEPT !.slider = v]
        /\ world' = [world EXCEPT !.clicks = @ + 1, !.touched = @ \cup {"ui"}]
        /\ wire' = [wire EXCEPT !.sent = @ \cup {sent("set", v)}]
    BY ZenonT(60), <2>1 DEF Backlight!Send, Backlight!Become, Backlight!Now
  <2>3. /\ DOMAIN panel' = DOMAIN panel /\ panel'.slider = v
        /\ \A f \in DOMAIN panel \ {"slider"} : panel'[f] = panel[f]
    BY <2>2 DEF BacklightInv, BacklightShape
  <2> DEFINE how == "set"
  <2> HIDE DEF how, sent
  <2> QED BY <1>1, <2>1, <2>2, <2>3 DEF how
<1>3. CASE \E delta \in {-1, 1} :
             Backlight(part)!Become(Backlight(part)!Send(Backlight(part)!Now, "step", delta))
  <2>1. PICK delta \in {-1, 1} :
             Backlight(part)!Become(Backlight(part)!Send(Backlight(part)!Now, "step", delta))
    BY <1>3
  <2>2. /\ panel' = panel
        /\ world' = [world EXCEPT !.clicks = @ + 1, !.touched = @ \cup {"ui"}]
        /\ wire' = [wire EXCEPT !.sent = @ \cup {sent("step", delta)}]
    BY <2>1 DEF Backlight!Send, Backlight!Become, Backlight!Now
  <2>3. /\ DOMAIN panel' = DOMAIN panel /\ panel'.slider = panel.slider
        /\ \A f \in DOMAIN panel \ {"slider"} : panel'[f] = panel[f]
    BY <2>2
  <2> DEFINE how == "step"
  <2> HIDE DEF how, sent
  <2> QED BY <1>1, <2>1, <2>2, <2>3 DEF how
<1> QED BY <1>2, <1>3 DEF Backlight!Drag

LEMMA BacklightSteps ==
    ASSUME NEW part, Backlight(part)!ConstantsOK, BacklightInv(part), Backlight(part)!Next
    PROVE  BacklightInv(part)'
BY BacklightTakesCommand, BacklightCompletes, BacklightTakesEvent, BacklightDisturbed, BacklightLogind,
   BacklightDraws, BacklightDrags
   DEF Backlight!Next, Backlight!Turn, Backlight!Server

LEMMA BacklightStays ==
    ASSUME NEW part, BacklightInv(part), UNCHANGED <<panel, world, wire>>
    PROVE  BacklightInv(part)'
BY DEF BacklightInv, BacklightShape, GateInv, ScreenInv, SliderInv, LastInv, Raws

=============================================================================
