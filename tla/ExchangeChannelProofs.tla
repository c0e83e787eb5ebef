------------------------ MODULE ExchangeChannelProofs ------------------------
(* What the sends of exchange channels guarantee about the account, for every *)
(* number of sends, of tries, of faults, and every mix of channel settings.   *)
EXTENDS ExchangeChannel, FiniteSetTheorems, TLAPS

\* A reduceOnly order brings the position nearer to zero, never across it.
LEMMA ReducedShrinks ==
    \A p \in Int, side \in Side, n \in Nat :
        /\ Reduced(p, side, n) \in Int
        /\ p >= 0 => Reduced(p, side, n) \in 0..p
        /\ p <= 0 => Reduced(p, side, n) \in p..0
BY DEF Reduced, Side

\* A size is a natural number.
LEMMA SizeType == \A p \in Int : Size(p) \in Nat
BY DEF Size

\* The sides of an order.
LEMMA SideTypes ==
    /\ \A side \in Side : Opposite(side) \in Side
    /\ \A s \in Sends : SideOf[s] \in Side /\ ExitSide(s) \in Side
BY ExchangeAssumption DEF Opposite, Side, ExitSide

\* A filled unit moves the position by one.
LEMMA FilledType == \A p \in Int, side \in Side : Filled(p, side) \in Int
BY DEF Filled

\* TypeOK is an invariant.
THEOREM TypeCorrect == Spec => []TypeOK
<1>1. Init => TypeOK
  BY ExchangeAssumption DEF Init, TypeOK
<1>2. TypeOK /\ [Next]_vars => TypeOK'
  <2> SUFFICES ASSUME TypeOK, [Next]_vars PROVE TypeOK'
    OBVIOUS
  <2> USE ExchangeAssumption, SideTypes, FilledType, SizeType
      DEF TypeOK, Goes, marketVars, historyVars
  <2>1. ASSUME NEW s \in Sends, SendStarts(s) PROVE TypeOK'
    BY <2>1 DEF SendStarts
  <2>2. ASSUME NEW s \in Sends, LooksForOpposing(s) PROVE TypeOK'
    <3>1. Answers \subseteq Int
      BY DEF Answers
    <3>. QED BY <2>2, <3>1 DEF LooksForOpposing
  <2>3. ASSUME NEW s \in Sends, Closes(s) PROVE TypeOK'
    <3>1. position' \in Int
      BY <2>3, ReducedShrinks DEF Closes
    <3>. QED BY <2>3, <3>1 DEF Closes
  <2>4. ASSUME NEW s \in Sends, ChecksMaxPositions(s) PROVE TypeOK'
    BY <2>4 DEF ChecksMaxPositions
  <2>5. ASSUME NEW s \in Sends, ChecksExposure(s) PROVE TypeOK'
    <3>1. Answers \subseteq Int
      BY DEF Answers
    <3>. QED BY <2>5, <3>1 DEF ChecksExposure
  <2>6. ASSUME NEW s \in Sends, PlacesEntry(s) PROVE TypeOK'
    BY <2>6 DEF PlacesEntry, Enters
  <2>7. ASSUME NEW s \in Sends, EntryIsRefused(s) PROVE TypeOK'
    BY <2>7 DEF EntryIsRefused
  <2>8. ASSUME NEW s \in Sends, PlacesStop(s) PROVE TypeOK'
    BY <2>8 DEF PlacesStop
  <2>9. ASSUME NEW s \in Sends, StopIsRefused(s) PROVE TypeOK'
    BY <2>9 DEF StopIsRefused
  <2>10. ASSUME NEW s \in Sends, PlacesProfit(s) PROVE TypeOK'
    BY <2>10 DEF PlacesProfit
  <2>11. ASSUME NEW s \in Sends, SendsAgain(s) PROVE TypeOK'
    BY <2>11 DEF SendsAgain
  <2>12. ASSUME NEW s \in Sends, EntryAnswerIsLost(s) PROVE TypeOK'
    BY <2>12 DEF EntryAnswerIsLost, Enters
  <2>13. ASSUME NEW s \in Sends, ExitRaises(s) PROVE TypeOK'
    BY <2>13 DEF ExitRaises
  <2>14. ASSUME NEW s \in Sends, SendDies(s) PROVE TypeOK'
    BY <2>14 DEF SendDies
  <2>15. ASSUME NEW side \in Side, Fills(side) PROVE TypeOK'
    BY <2>15 DEF Fills
  <2>16. ASSUME NEW side \in Side, StopFires(side) PROVE TypeOK'
    <3>1. position' \in Int
      BY <2>16, ReducedShrinks DEF StopFires
    <3>. QED BY <2>16, <3>1 DEF StopFires
  <2>17. ASSUME NEW side \in Side, ProfitIsTaken(side) PROVE TypeOK'
    <3>1. position' \in Int
      BY <2>17, ReducedShrinks DEF ProfitIsTaken
    <3>. QED BY <2>17, <3>1 DEF ProfitIsTaken
  <2>18. CASE UNCHANGED vars
    BY <2>18 DEF vars
  <2>. QED
    BY <2>1, <2>2, <2>3, <2>4, <2>5, <2>6, <2>7, <2>8, <2>9, <2>10, <2>11, <2>12,
       <2>13, <2>14, <2>15, <2>16, <2>17, <2>18
       DEF Next, SendStep, Fault, Market
<1>. QED
  BY <1>1, <1>2, PTL DEF Spec

-----------------------------------------------------------------------------

\* The phases of a send whose entry is placed, or may have been.
Entered == {"stop", "profit", "ok"}

\* A send that has yet to place an entry has placed one before only where a fault
\* brought it back; no send has placed more than one for each fault and one more.
EntriesAreFaults ==
    \A s \in Sends : entries[s] <= (IF phase[s] \in Entered THEN 1 ELSE 0) + faults

\* Every step keeps EntriesAreFaults.
LEMMA EntriesAreFaultsStep ==
    TypeOK /\ EntriesAreFaults /\ [Next]_vars => EntriesAreFaults'
<1> SUFFICES ASSUME TypeOK, EntriesAreFaults, [Next]_vars, NEW t \in Sends
             PROVE  (entries[t] <= (IF phase[t] \in Entered THEN 1 ELSE 0) + faults)'
  BY DEF EntriesAreFaults
<1>1. entries[t] <= (IF phase[t] \in Entered THEN 1 ELSE 0) + faults
  BY DEF EntriesAreFaults
<1> USE <1>1, ExchangeAssumption DEF TypeOK, Entered, Goes, marketVars, historyVars
<1>2. ASSUME NEW s \in Sends, SendStep(s)
      PROVE  (entries[t] <= (IF phase[t] \in Entered THEN 1 ELSE 0) + faults)'
  <2>1. CASE SendStarts(s)
    BY <2>1 DEF SendStarts
  <2>2. CASE LooksForOpposing(s)
    BY <2>2 DEF LooksForOpposing
  <2>3. CASE Closes(s)
    BY <2>3 DEF Closes
  <2>4. CASE ChecksMaxPositions(s)
    BY <2>4 DEF ChecksMaxPositions
  <2>5. CASE ChecksExposure(s)
    BY <2>5 DEF ChecksExposure
  <2>6. CASE PlacesEntry(s)
    BY <2>6 DEF PlacesEntry, Enters
  <2>7. CASE EntryIsRefused(s)
    BY <2>7 DEF EntryIsRefused
  <2>8. CASE PlacesStop(s)
    BY <2>8 DEF PlacesStop
  <2>9. CASE StopIsRefused(s)
    BY <2>9 DEF StopIsRefused
  <2>10. CASE PlacesProfit(s)
    BY <2>10 DEF PlacesProfit
  <2>11. CASE SendsAgain(s)
    BY <2>11 DEF SendsAgain
  <2>. QED
    BY <1>2, <2>1, <2>2, <2>3, <2>4, <2>5, <2>6, <2>7, <2>8, <2>9, <2>10, <2>11
       DEF SendStep
<1>3. ASSUME NEW s \in Sends, Fault(s)
      PROVE  (entries[t] <= (IF phase[t] \in Entered THEN 1 ELSE 0) + faults)'
  <2>1. CASE EntryAnswerIsLost(s)
    BY <2>1 DEF EntryAnswerIsLost, Enters
  <2>2. CASE ExitRaises(s)
    BY <2>2 DEF ExitRaises
  <2>3. CASE SendDies(s)
    BY <2>3 DEF SendDies
  <2>. QED
    BY <1>3, <2>1, <2>2, <2>3 DEF Fault
<1>4. ASSUME NEW side \in Side, Market(side)
      PROVE  (entries[t] <= (IF phase[t] \in Entered THEN 1 ELSE 0) + faults)'
  BY <1>4 DEF Market, Fills, StopFires, ProfitIsTaken
<1>5. CASE UNCHANGED vars
  BY <1>5 DEF vars
<1>. QED
  BY <1>2, <1>3, <1>4, <1>5 DEF Next

\* No send places more entry orders than one and one for each fault: a refused stop
\* loss, or the retry of an ordinary failure, never trades a signal again.
THEOREM RepeatsAreFaults == Spec => []RepeatsNeedFaults
<1>1. Init => EntriesAreFaults
  BY ExchangeAssumption DEF Init, EntriesAreFaults
<1>2. TypeOK /\ EntriesAreFaults => RepeatsNeedFaults
  BY ExchangeAssumption DEF TypeOK, EntriesAreFaults, RepeatsNeedFaults
<1>. QED
  BY <1>1, <1>2, EntriesAreFaultsStep, TypeCorrect, PTL DEF Spec

-----------------------------------------------------------------------------

\* A send about to place its entry has seen room for it, and the excess is accounted
\* for.
Accounted ==
    /\ \A s \in Sends : phase[s] = "entry" => Size(seen[s]) + 1 <= MaxExposure
    /\ ExcessNeedsStaleLooks

\* The position's size never moves by more than the units that move it.
LEMMA SizeMoves ==
    \A p \in Int, side \in Side :
        /\ Size(Filled(p, side)) <= Size(p) + 1
        /\ \A n \in Nat : Size(Reduced(p, side, n)) <= Size(p)
<1>1. \A p \in Int, side \in Side : Size(Filled(p, side)) <= Size(p) + 1
  BY DEF Size, Filled
<1>2. ASSUME NEW p \in Int, NEW side \in Side, NEW n \in Nat
      PROVE  Size(Reduced(p, side, n)) <= Size(p)
  <2> DEFINE q == Reduced(p, side, n)
  <2>1. q \in Int /\ (p >= 0 => q \in 0..p) /\ (p <= 0 => q \in p..0)
    BY ReducedShrinks
  <2>2. Size(p) = (IF p < 0 THEN -p ELSE p) /\ Size(q) = (IF q < 0 THEN -q ELSE q)
    BY DEF Size
  <2> HIDE DEF q
  <2>3. (IF q < 0 THEN -q ELSE q) <= (IF p < 0 THEN -p ELSE p)
    BY <2>1
  <2>4. Size(q) <= Size(p)
    BY <2>2, <2>3
  <2>. QED BY <2>4 DEF q
<1>. QED
  BY <1>1, <1>2

\* Placing an entry keeps the excess accounted for.
LEMMA EnteringIsAccounted ==
    ASSUME TypeOK, Accounted, NEW s \in Sends, phase[s] = "entry", Enters(s)
    PROVE  ExcessNeedsStaleLooks'
<1> USE ExchangeAssumption, SideTypes, SizeType, FilledType DEF TypeOK
<1> DEFINE Total == Size(position) + resting["buy"] + resting["sell"]
<1>1. Total' <= Total + 1 /\ Total' \in Int /\ Total \in Int
  <2>1. Size(position) \in Nat /\ resting["buy"] \in Nat /\ resting["sell"] \in Nat
    BY DEF Side
  <2>2. CASE OrderType[s] = "market"
    <3>1. position' = Filled(position, SideOf[s]) /\ resting' = resting
      BY <2>2 DEF Enters
    <3>2. Size(position') \in Nat /\ Size(position') <= Size(position) + 1
      BY <3>1, SizeMoves
    <3>. QED BY <2>1, <3>1, <3>2
  <2>3. CASE OrderType[s] # "market"
    BY <2>1, <2>3 DEF Enters, Side
  <2>. QED BY <2>2, <2>3
<1>2. CASE AsSeen(s)
  <2>1. Total + 1 <= MaxExposure
    BY <1>2 DEF AsSeen, Accounted, Side
  <2>2. stale' = stale
    BY <1>2 DEF Enters
  <2>. QED BY <1>1, <2>1, <2>2 DEF ExcessNeedsStaleLooks
<1>3. CASE ~AsSeen(s)
  <2>1. stale' = stale + 1
    BY <1>3 DEF Enters
  <2>2. Total <= MaxExposure + stale
    BY DEF Accounted, ExcessNeedsStaleLooks
  <2>. QED BY <1>1, <2>1, <2>2 DEF ExcessNeedsStaleLooks
<1>. QED BY <1>2, <1>3

\* A step that changes neither the account nor the history of it, and keeps the sends
\* about to enter within what they have seen, keeps the excess accounted for.
LEMMA LookingIsAccounted ==
    ASSUME Accounted, UNCHANGED <<position, resting, stale>>,
           \A s \in Sends : phase'[s] = "entry" =>
               \/ phase[s] = "entry" /\ seen'[s] = seen[s]
               \/ Size(seen'[s]) + 1 <= MaxExposure
    PROVE  Accounted'
BY DEF Accounted, ExcessNeedsStaleLooks

\* Every step keeps Accounted.
LEMMA AccountedStep == TypeOK /\ Accounted /\ [Next]_vars => Accounted'
<1> SUFFICES ASSUME TypeOK, Accounted, [Next]_vars PROVE Accounted'
  OBVIOUS
<1> USE ExchangeAssumption DEF TypeOK, Goes, marketVars, historyVars
<1>1. ASSUME NEW s \in Sends, SendStep(s) PROVE Accounted'
  <2>1. CASE SendStarts(s)
    BY <2>1, LookingIsAccounted DEF SendStarts
  <2>2. CASE LooksForOpposing(s)
    BY <2>2, LookingIsAccounted DEF LooksForOpposing
  <2>3. CASE Closes(s)
    <3>1. position' = position \/ position' = Reduced(position, SideOf[s], Size(seen[s]))
      BY <2>3 DEF Closes
    <3>2. Size(position') <= Size(position) /\ position' \in Int
      <4>1. CASE position' = position
        BY <4>1, SizeType
      <4>2. CASE position' = Reduced(position, SideOf[s], Size(seen[s]))
        <5>1. Size(seen[s]) \in Nat /\ SideOf[s] \in Side
          BY SizeType, SideTypes
        <5>2. Reduced(position, SideOf[s], Size(seen[s])) \in Int
          BY <5>1, ReducedShrinks
        <5>3. Size(Reduced(position, SideOf[s], Size(seen[s]))) <= Size(position)
          BY <5>1, SizeMoves
        <5>. QED BY <4>2, <5>2, <5>3
      <4>. QED BY <3>1, <4>1, <4>2
    <3>3. ExcessNeedsStaleLooks'
      BY <2>3, <3>2, SizeType DEF Closes, Accounted, ExcessNeedsStaleLooks, Side
    <3>4. ASSUME NEW t \in Sends, phase'[t] = "entry"
          PROVE  Size(seen'[t]) + 1 <= MaxExposure
      BY <2>3, <3>4 DEF Closes, Accounted
    <3>. QED BY <3>3, <3>4 DEF Accounted
  <2>4. CASE ChecksMaxPositions(s)
    BY <2>4, LookingIsAccounted DEF ChecksMaxPositions
  <2>5. CASE ChecksExposure(s)
    <3>1. PICK p \in Answers :
            IF Breaches(p)
            THEN Goes(s, "bad") /\ UNCHANGED seen
            ELSE Goes(s, "entry") /\ seen' = [seen EXCEPT ![s] = p]
      BY <2>5 DEF ChecksExposure
    <3>2. p \in Int
      BY DEF Answers
    <3>3. CASE Breaches(p)
      BY <2>5, <3>1, <3>3, LookingIsAccounted DEF ChecksExposure
    <3>4. CASE ~Breaches(p)
      <4>1. Size(p) + 1 <= MaxExposure
        BY <3>2, <3>4, SizeType DEF Breaches
      <4>. QED BY <2>5, <3>1, <3>4, <4>1, LookingIsAccounted DEF ChecksExposure
    <3>. QED BY <3>3, <3>4
  <2>6. CASE PlacesEntry(s)
    <3>1. ExcessNeedsStaleLooks'
      BY <2>6, EnteringIsAccounted DEF PlacesEntry
    <3>2. ASSUME NEW t \in Sends, phase'[t] = "entry"
          PROVE  Size(seen'[t]) + 1 <= MaxExposure
      BY <2>6, <3>2 DEF PlacesEntry, Enters, Accounted
    <3>. QED BY <3>1, <3>2 DEF Accounted
  <2>7. CASE EntryIsRefused(s)
    BY <2>7, LookingIsAccounted DEF EntryIsRefused
  <2>8. CASE PlacesStop(s)
    BY <2>8, LookingIsAccounted DEF PlacesStop
  <2>9. CASE StopIsRefused(s)
    BY <2>9, LookingIsAccounted DEF StopIsRefused
  <2>10. CASE PlacesProfit(s)
    BY <2>10, LookingIsAccounted DEF PlacesProfit
  <2>11. CASE SendsAgain(s)
    BY <2>11, LookingIsAccounted DEF SendsAgain
  <2>. QED
    BY <1>1, <2>1, <2>2, <2>3, <2>4, <2>5, <2>6, <2>7, <2>8, <2>9, <2>10, <2>11
       DEF SendStep
<1>2. ASSUME NEW s \in Sends, Fault(s) PROVE Accounted'
  <2>1. CASE EntryAnswerIsLost(s)
    <3>1. ExcessNeedsStaleLooks'
      BY <2>1, EnteringIsAccounted DEF EntryAnswerIsLost
    <3>2. ASSUME NEW t \in Sends, phase'[t] = "entry"
          PROVE  Size(seen'[t]) + 1 <= MaxExposure
      BY <2>1, <3>2 DEF EntryAnswerIsLost, Enters, Accounted
    <3>. QED BY <3>1, <3>2 DEF Accounted
  <2>2. CASE ExitRaises(s)
    BY <2>2, LookingIsAccounted DEF ExitRaises
  <2>3. CASE SendDies(s)
    BY <2>3, LookingIsAccounted DEF SendDies
  <2>. QED
    BY <1>2, <2>1, <2>2, <2>3 DEF Fault
<1>3. ASSUME NEW side \in Side, Market(side) PROVE Accounted'
  <2>1. UNCHANGED <<phase, seen, stale>>
    BY <1>3 DEF Market, Fills, StopFires, ProfitIsTaken
  <2>2. /\ Size(position) \in Nat /\ resting["buy"] \in Nat /\ resting["sell"] \in Nat
        /\ Size(position) + resting["buy"] + resting["sell"] <= MaxExposure + stale
    BY SizeType DEF Accounted, ExcessNeedsStaleLooks, Side
  <2>3. ExcessNeedsStaleLooks'
    <3>1. CASE Fills(side)
      <4>1. position' = Filled(position, side) /\ stale' = stale
        BY <3>1 DEF Fills
      <4>2. Size(position') <= Size(position) + 1 /\ Size(position') \in Nat
        BY <4>1, SizeMoves, SizeType, FilledType
      <4>3. /\ resting'["buy"] \in Nat /\ resting'["sell"] \in Nat
            /\ resting'["buy"] + resting'["sell"] = resting["buy"] + resting["sell"] - 1
        BY <2>2, <3>1 DEF Fills, Side
      <4>. QED BY <2>2, <4>1, <4>2, <4>3 DEF ExcessNeedsStaleLooks
    <3>2. CASE StopFires(side) \/ ProfitIsTaken(side)
      <4>1. position' = Reduced(position, side, 1) /\ UNCHANGED <<resting, stale>>
        BY <3>2 DEF StopFires, ProfitIsTaken
      <4>2. Size(position') <= Size(position) /\ Size(position') \in Nat
        BY <4>1, SizeMoves, SizeType, ReducedShrinks
      <4>. QED BY <2>2, <4>1, <4>2 DEF ExcessNeedsStaleLooks
    <3>. QED BY <1>3, <3>1, <3>2 DEF Market
  <2>. QED BY <2>1, <2>3 DEF Accounted
<1>4. CASE UNCHANGED vars
  BY <1>4 DEF vars, Accounted, ExcessNeedsStaleLooks
<1>. QED
  BY <1>1, <1>2, <1>3, <1>4 DEF Next

\* The exposure limit is exceeded by at most one entry for each that was not decided on
\* the account as it was.
THEOREM ExcessIsAccounted == Spec => []ExcessNeedsStaleLooks
<1>1. Init => Accounted
  BY ExchangeAssumption DEF Init, Accounted, ExcessNeedsStaleLooks, Size, Side
<1>2. Accounted => ExcessNeedsStaleLooks
  BY DEF Accounted
<1>. QED
  BY <1>1, <1>2, AccountedStep, TypeCorrect, PTL DEF Spec

-----------------------------------------------------------------------------

\* The units of one side that are held, none when the position is the other way.
Units(side) == IF Held(side) > 0 THEN Held(side) ELSE 0

\* The protection a side has: its stops, the sends about to place one, and the entries
\* known to have lost theirs.
Protection(side) == stops[Opposite(side)] + Cardinality(Placing(side)) + exposed

\* PositionIsProtected is not inductive: it must also hold of orders that rest while
\* nothing of their side is held.
Protected == \A side \in Side : Units(side) + resting[side] <= Protection(side)

\* The parts of Protected are natural numbers.
LEMMA ProtectionTypes ==
    ASSUME TypeOK, NEW side \in Side
    PROVE  /\ Units(side) \in Nat
           /\ resting[side] \in Nat
           /\ stops[Opposite(side)] \in Nat
           /\ Cardinality(Placing(side)) \in Nat
           /\ exposed \in Nat
           /\ Protection(side) \in Nat
<1>1. Units(side) \in Nat /\ resting[side] \in Nat /\ exposed \in Nat
  BY DEF TypeOK, Units, Held
<1>2. stops[Opposite(side)] \in Nat
  BY SideTypes DEF TypeOK
<1>3. IsFiniteSet(Placing(side))
  BY FS_Subset, ExchangeAssumption DEF Placing
<1>4. Cardinality(Placing(side)) \in Nat
  BY <1>3, FS_CardinalityType
<1>. QED
  BY <1>1, <1>2, <1>4 DEF Protection

\* A send that begins to place a stop adds one to the sends of its side that are, and to
\* no other's; one that has done so takes one away.
LEMMA PlacingChanges ==
    ASSUME TypeOK, NEW s \in Sends, NEW side \in Side, NEW to, Goes(s, to)
    PROVE  Cardinality(Placing(side))' =
              Cardinality(Placing(side))
              + (IF SideOf[s] = side /\ to = "stop" THEN 1 ELSE 0)
              - (IF SideOf[s] = side /\ phase[s] = "stop" THEN 1 ELSE 0)
<1>1. IsFiniteSet(Placing(side)) /\ IsFiniteSet(Placing(side)')
  BY FS_Subset, ExchangeAssumption DEF Placing
<1>2. Cardinality(Placing(side)) \in Nat /\ Cardinality(Placing(side)') \in Nat
  BY <1>1, FS_CardinalityType
<1>3. Cardinality(Placing(side))' = Cardinality(Placing(side)')
  OBVIOUS
<1>4. CASE SideOf[s] # side \/ ((to = "stop") <=> (phase[s] = "stop"))
  <2>1. Placing(side)' = Placing(side)
    BY <1>4 DEF Placing, Goes, TypeOK
  <2>. QED BY <1>2, <1>3, <1>4, <2>1
<1>5. CASE SideOf[s] = side /\ to = "stop" /\ phase[s] # "stop"
  <2>1. Placing(side)' = Placing(side) \cup {s} /\ s \notin Placing(side)
    BY <1>5 DEF Placing, Goes, TypeOK
  <2>2. Cardinality(Placing(side)') = Cardinality(Placing(side)) + 1
    BY <1>1, <2>1, FS_AddElement
  <2>. QED BY <1>2, <1>3, <1>5, <2>2
<1>6. CASE SideOf[s] = side /\ to # "stop" /\ phase[s] = "stop"
  <2>1. Placing(side)' = Placing(side) \ {s} /\ s \in Placing(side)
    BY <1>6 DEF Placing, Goes, TypeOK
  <2>2. Cardinality(Placing(side)') = Cardinality(Placing(side)) - 1
    BY <1>1, <2>1, FS_RemoveElement
  <2>. QED BY <1>2, <1>3, <1>6, <2>2
<1>. QED
  BY <1>4, <1>5, <1>6

\* A reduced position holds no more units of any side.
LEMMA ReducedUnits ==
    ASSUME TypeOK, NEW side \in Side, NEW n \in Nat, NEW other \in Side,
           position' = Reduced(position, side, n)
    PROVE  Units(other)' <= Units(other)
<1> DEFINE q == Reduced(position, side, n)
<1>1. q \in Int /\ (position >= 0 => q \in 0..position) /\ (position <= 0 => q \in position..0)
  BY ReducedShrinks DEF TypeOK
<1> HIDE DEF q
<1>2. position' = q
  BY DEF q
<1>. QED
  BY <1>1, <1>2 DEF Units, Held, TypeOK

\* An order of another size fills: a step of the market's may move one unit of its side
\* from resting to held, and leaves the other side no more than it had.
LEMMA FilledUnits ==
    ASSUME TypeOK, NEW side \in Side, NEW other \in Side,
           position' = Filled(position, side)
    PROVE  Units(other)' <= Units(other) + (IF other = side THEN 1 ELSE 0)
BY DEF Units, Held, TypeOK, Filled, Side

\* A step of a send that leaves the units and the resting orders alone, or lowers them,
\* and either places no stop or makes good for it.
LEMMA SendKeepsProtection ==
    ASSUME TypeOK, Protected, NEW s \in Sends, NEW to, Goes(s, to),
           exposed' \in Nat, resting' = resting,
           \A side \in Side : Units(side)' \in Nat /\ Units(side)' <= Units(side),
           \/ phase[s] # "stop" /\ exposed' = exposed /\ stops' = stops
           \/ phase[s] = "stop" /\ exposed' = exposed + 1 /\ stops' = stops
           \/ phase[s] = "stop" /\ exposed' = exposed
              /\ stops' = [stops EXCEPT ![ExitSide(s)] = @ + 1]
    PROVE  Protected'
<1> SUFFICES ASSUME NEW side \in Side
             PROVE  Units(side)' + resting'[side] <= Protection(side)'
  BY DEF Protected
<1>1. /\ Units(side) \in Nat /\ resting[side] \in Nat /\ stops[Opposite(side)] \in Nat
      /\ Cardinality(Placing(side)) \in Nat /\ exposed \in Nat
  BY ProtectionTypes
<1>2. Units(side) + resting[side]
        <= stops[Opposite(side)] + Cardinality(Placing(side)) + exposed
  BY DEF Protected, Protection
<1>3. Units(side)' \in Nat /\ Units(side)' <= Units(side)
  OBVIOUS
<1>4. Protection(side)' = stops'[Opposite(side)] + Cardinality(Placing(side))' + exposed'
  BY DEF Protection
<1>5. /\ stops'[Opposite(side)] \in Nat
      /\ stops'[Opposite(side)] + Cardinality(Placing(side))' + exposed'
           >= stops[Opposite(side)] + Cardinality(Placing(side)) + exposed
  <2>1. Cardinality(Placing(side))' =
              Cardinality(Placing(side))
              + (IF SideOf[s] = side /\ to = "stop" THEN 1 ELSE 0)
              - (IF SideOf[s] = side /\ phase[s] = "stop" THEN 1 ELSE 0)
    BY PlacingChanges
  <2>2. CASE phase[s] # "stop" /\ exposed' = exposed /\ stops' = stops
    BY <1>1, <2>1, <2>2
  <2>3. CASE phase[s] = "stop" /\ exposed' = exposed + 1 /\ stops' = stops
    BY <1>1, <2>1, <2>3
  <2>4. CASE /\ phase[s] = "stop" /\ exposed' = exposed
             /\ stops' = [stops EXCEPT ![ExitSide(s)] = @ + 1]
    <3>1. Opposite(side) \in Side /\ stops \in [Side -> Nat] /\ ExitSide(s) \in Side
      BY SideTypes DEF TypeOK
    <3>2. SideOf[s] = side <=> ExitSide(s) = Opposite(side)
      BY SideTypes DEF ExitSide, Opposite, Side
    <3>3. stops'[Opposite(side)] = stops[Opposite(side)]
                                   + (IF SideOf[s] = side THEN 1 ELSE 0)
      BY <2>4, <3>1, <3>2
    <3>. QED BY <1>1, <2>1, <2>4, <3>3
  <2>. QED BY <2>2, <2>3, <2>4
<1>6. Units(side)' + resting'[side]
        <= stops'[Opposite(side)] + Cardinality(Placing(side))' + exposed'
  <2>1. resting'[side] = resting[side]
    OBVIOUS
  <2>2. Cardinality(Placing(side))' \in Int
    BY <1>1, PlacingChanges
  <2>. QED BY <1>1, <1>2, <1>3, <1>5, <2>1, <2>2
<1>. QED
  BY <1>4, <1>6

\* Placing an entry adds a unit, held or resting, and a send that has yet to protect it
\* or an exposed one.
LEMMA EnteringKeepsProtection ==
    ASSUME TypeOK, Protected, NEW s \in Sends, phase[s] = "entry", Enters(s),
           \/ Goes(s, "stop") /\ exposed' = exposed
           \/ Goes(s, "bad") /\ exposed' = exposed + 1
    PROVE  Protected'
<1> SUFFICES ASSUME NEW side \in Side
             PROVE  Units(side)' + resting'[side] <= Protection(side)'
  BY DEF Protected
<1>1. /\ Units(side) \in Nat /\ resting[side] \in Nat /\ stops[Opposite(side)] \in Nat
      /\ Cardinality(Placing(side)) \in Nat /\ exposed \in Nat
  BY ProtectionTypes
<1>2. Units(side) + resting[side]
        <= stops[Opposite(side)] + Cardinality(Placing(side)) + exposed
  BY DEF Protected, Protection
<1> DEFINE one == IF SideOf[s] = side THEN 1 ELSE 0
<1>3. /\ Units(side)' + resting'[side] \in Int
      /\ Units(side)' + resting'[side] <= Units(side) + resting[side] + one
  <2>1. CASE OrderType[s] = "market"
    <3>1. position' = Filled(position, SideOf[s]) /\ resting' = resting
      BY <2>1 DEF Enters
    <3>2. Units(side)' <= Units(side) + one
      BY <3>1, FilledUnits, SideTypes
    <3>3. Units(side)' \in Int
      BY <3>1, FilledType, SideTypes DEF Units, Held, TypeOK
    <3>. QED BY <1>1, <3>1, <3>2, <3>3
  <2>2. CASE OrderType[s] # "market"
    <3>1. position' = position /\ resting' = [resting EXCEPT ![SideOf[s]] = @ + 1]
      BY <2>2 DEF Enters
    <3>2. Units(side)' = Units(side)
      BY <3>1 DEF Units, Held
    <3>3. resting'[side] = resting[side] + one
      BY <3>1, SideTypes DEF TypeOK
    <3>. QED BY <1>1, <3>2, <3>3
  <2>. QED BY <2>1, <2>2
<1>4. /\ Cardinality(Placing(side))' + exposed' \in Int
      /\ Cardinality(Placing(side))' + exposed'
           >= Cardinality(Placing(side)) + exposed + one
  <2>1. CASE Goes(s, "stop") /\ exposed' = exposed
    <3>1. Cardinality(Placing(side))' = Cardinality(Placing(side)) + one
      <4>1. Cardinality(Placing(side))' =
              Cardinality(Placing(side))
              + (IF SideOf[s] = side /\ "stop" = "stop" THEN 1 ELSE 0)
              - (IF SideOf[s] = side /\ phase[s] = "stop" THEN 1 ELSE 0)
        BY <2>1, PlacingChanges
      <4>. QED BY <1>1, <4>1
    <3>. QED BY <1>1, <2>1, <3>1
  <2>2. CASE Goes(s, "bad") /\ exposed' = exposed + 1
    <3>1. Cardinality(Placing(side))' = Cardinality(Placing(side))
      <4>1. Cardinality(Placing(side))' =
              Cardinality(Placing(side))
              + (IF SideOf[s] = side /\ "bad" = "stop" THEN 1 ELSE 0)
              - (IF SideOf[s] = side /\ phase[s] = "stop" THEN 1 ELSE 0)
        BY <2>2, PlacingChanges
      <4>. QED BY <1>1, <4>1
    <3>. QED BY <1>1, <2>2, <3>1
  <2>. QED BY <2>1, <2>2
<1>5. stops'[Opposite(side)] = stops[Opposite(side)]
  BY DEF Enters
<1>6. Units(side)' + resting'[side]
        <= stops'[Opposite(side)] + (Cardinality(Placing(side))' + exposed')
  BY <1>1, <1>2, <1>3, <1>4, <1>5
<1>7. Protection(side)' = stops'[Opposite(side)] + Cardinality(Placing(side))' + exposed'
  BY DEF Protection
<1>8. Cardinality(Placing(side))' \in Int /\ exposed' \in Int
  BY <1>1, PlacingChanges
<1>. QED
  BY <1>1, <1>5, <1>6, <1>7, <1>8

\* A step of the market's turns a resting unit into a held one, or takes units away, and
\* a stop that does not take one exposes an order that rests.
LEMMA MarketKeepsProtection ==
    ASSUME TypeOK, Protected, NEW traded \in Side, Market(traded)
    PROVE  Protected'
<1> SUFFICES ASSUME NEW side \in Side
             PROVE  Units(side)' + resting'[side] <= Protection(side)'
  BY DEF Protected
<1>1. /\ Units(side) \in Nat /\ resting[side] \in Nat /\ stops[Opposite(side)] \in Nat
      /\ Cardinality(Placing(side)) \in Nat /\ exposed \in Nat
  BY ProtectionTypes
<1>2. Units(side) + resting[side]
        <= stops[Opposite(side)] + Cardinality(Placing(side)) + exposed
  BY DEF Protected, Protection
<1>3. Protection(side)' = stops'[Opposite(side)] + Cardinality(Placing(side))' + exposed'
  BY DEF Protection
<1>4. Cardinality(Placing(side))' = Cardinality(Placing(side))
  BY DEF Market, Fills, StopFires, ProfitIsTaken, Placing
<1>5. Units(side)' \in Nat
  <2>1. position' \in {Filled(position, traded), Reduced(position, traded, 1)}
    BY DEF Market, Fills, StopFires, ProfitIsTaken
  <2>2. Filled(position, traded) \in Int /\ Reduced(position, traded, 1) \in Int
    BY FilledType, ReducedShrinks DEF TypeOK
  <2>3. position' \in Int
    BY <2>1, <2>2
  <2>4. Held(side)' \in Int
    BY <2>3 DEF Held
  <2>. QED BY <2>4 DEF Units
<1>6. CASE Fills(traded)
  <2> DEFINE one == IF side = traded THEN 1 ELSE 0
  <2>1. Units(side)' <= Units(side) + one
    BY <1>6, FilledUnits DEF Fills
  <2>2. resting'[side] = resting[side] - one
    BY <1>6 DEF Fills, TypeOK
  <2>3. stops' = stops /\ exposed' = exposed
    BY <1>6 DEF Fills, historyVars
  <2>. QED BY <1>1, <1>2, <1>3, <1>4, <1>5, <2>1, <2>2, <2>3
<1>7. CASE ProfitIsTaken(traded)
  <2>1. Units(side)' <= Units(side)
    BY <1>7, ReducedUnits DEF ProfitIsTaken
  <2>2. stops' = stops /\ exposed' = exposed /\ resting' = resting
    BY <1>7 DEF ProfitIsTaken, historyVars
  <2>. QED BY <1>1, <1>2, <1>3, <1>4, <1>5, <2>1, <2>2
<1>8. CASE StopFires(traded)
  <2>1. position' = Reduced(position, traded, 1) /\ resting' = resting
    BY <1>8 DEF StopFires
  <2>2. Units(side)' <= Units(side)
    BY <2>1, ReducedUnits
  <2>3. exposed' \in {exposed, exposed + 1}
    BY <1>8 DEF StopFires
  <2>4. CASE Opposite(side) # traded
    <3>1. stops'[Opposite(side)] = stops[Opposite(side)]
      BY <1>8, <2>4 DEF StopFires, TypeOK
    <3>. QED BY <1>1, <1>2, <1>3, <1>4, <1>5, <2>1, <2>2, <2>3, <3>1
  <2>5. CASE Opposite(side) = traded
    <3>1. stops'[Opposite(side)] = stops[Opposite(side)] - 1
      BY <1>8, <2>5 DEF StopFires, TypeOK
    <3>2. stops'[Opposite(side)] \in Nat
      BY <1>1, <1>8, <2>5, <3>1 DEF StopFires
    <3>3. Opposite(traded) = side
      BY <2>5 DEF Opposite, Side
    <3>4. CASE Units(side) > 0
      <4>1. Units(side)' = Units(side) - 1
        BY <2>1, <2>5, <3>4 DEF Units, Held, Reduced, Opposite, Side, TypeOK
      <4>. QED BY <1>1, <1>2, <1>3, <1>4, <1>5, <2>1, <2>3, <3>1, <4>1
    <3>5. CASE Units(side) = 0 /\ resting[side] = 0
      <4>1. Units(side)' = 0
        BY <1>5, <2>2, <3>5
      <4>. QED BY <1>1, <1>3, <1>4, <2>1, <2>3, <3>2, <3>5, <4>1
    <3>6. CASE Units(side) = 0 /\ resting[side] > 0
      <4>1. position' = position
        BY <2>1, <2>5, <3>6 DEF Units, Held, Reduced, Opposite, Side, TypeOK
      <4>2. exposed' = exposed + 1
        BY <1>8, <3>3, <3>6, <4>1 DEF StopFires
      <4>. QED BY <1>1, <1>2, <1>3, <1>4, <1>5, <2>1, <2>2, <3>1, <4>2
    <3>. QED BY <1>1, <3>4, <3>5, <3>6
  <2>. QED BY <2>4, <2>5
<1>. QED
  BY <1>6, <1>7, <1>8 DEF Market

\* Every step keeps Protected.
LEMMA ProtectedStep == TypeOK /\ Protected /\ [Next]_vars => Protected'
<1> SUFFICES ASSUME TypeOK, Protected, [Next]_vars PROVE Protected'
  OBVIOUS
<1>1. \A side \in Side : Units(side) \in Nat
  BY ProtectionTypes
<1>2. exposed \in Nat /\ exposed + 1 \in Nat
  BY DEF TypeOK
<1>3. position' = position =>
        \A side \in Side : Units(side)' \in Nat /\ Units(side)' <= Units(side)
  BY <1>1 DEF Units, Held
<1>4. ASSUME NEW s \in Sends, SendStep(s) PROVE Protected'
  <2> USE <1>1, <1>2, <1>3 DEF marketVars, historyVars
  <2>1. CASE SendStarts(s)
    <3>1. PICK to \in {"look", "close", "guard", "exposure", "entry", "ok", "bad"} : Goes(s, to)
      BY <2>1 DEF SendStarts
    <3>. QED BY <2>1, <3>1, SendKeepsProtection DEF SendStarts
  <2>2. CASE LooksForOpposing(s)
    <3>1. PICK to \in {"look", "close", "guard", "exposure", "entry", "ok", "bad"} : Goes(s, to)
      BY <2>2 DEF LooksForOpposing
    <3>. QED BY <2>2, <3>1, SendKeepsProtection DEF LooksForOpposing
  <2>3. CASE Closes(s)
    <3>1. ASSUME NEW side \in Side
          PROVE  Units(side)' \in Nat /\ Units(side)' <= Units(side)
      <4>1. CASE position' = position
        BY <3>1, <4>1
      <4>2. CASE position' = Reduced(position, SideOf[s], Size(seen[s]))
        <5>1. Size(seen[s]) \in Nat /\ SideOf[s] \in Side
          BY SizeType, SideTypes DEF TypeOK
        <5>2. Units(side)' <= Units(side)
          BY <3>1, <4>2, <5>1, ReducedUnits
        <5>3. position' \in Int
          BY <4>2, <5>1, ReducedShrinks DEF TypeOK
        <5>4. Held(side)' \in Int
          BY <5>3 DEF Held
        <5>. QED BY <5>2, <5>4 DEF Units
      <4>. QED BY <2>3, <4>1, <4>2 DEF Closes
    <3>. QED BY <2>3, <3>1, SendKeepsProtection DEF Closes
  <2>4. CASE ChecksMaxPositions(s)
    <3>1. PICK to \in {"look", "close", "guard", "exposure", "entry", "ok", "bad"} : Goes(s, to)
      BY <2>4 DEF ChecksMaxPositions
    <3>. QED BY <2>4, <3>1, SendKeepsProtection DEF ChecksMaxPositions
  <2>5. CASE ChecksExposure(s)
    <3>1. PICK to \in {"look", "close", "guard", "exposure", "entry", "ok", "bad"} : Goes(s, to)
      BY <2>5 DEF ChecksExposure
    <3>. QED BY <2>5, <3>1, SendKeepsProtection DEF ChecksExposure
  <2>6. CASE PlacesEntry(s)
    BY <2>6, EnteringKeepsProtection DEF PlacesEntry
  <2>7. CASE EntryIsRefused(s)
    BY <2>7, SendKeepsProtection DEF EntryIsRefused
  <2>8. CASE PlacesStop(s)
    BY <2>8, SendKeepsProtection DEF PlacesStop
  <2>9. CASE StopIsRefused(s)
    BY <2>9, SendKeepsProtection DEF StopIsRefused
  <2>10. CASE PlacesProfit(s)
    BY <2>10, SendKeepsProtection DEF PlacesProfit
  <2>11. CASE SendsAgain(s)
    BY <2>11, SendKeepsProtection DEF SendsAgain
  <2>. QED
    BY <1>4, <2>1, <2>2, <2>3, <2>4, <2>5, <2>6, <2>7, <2>8, <2>9, <2>10, <2>11
       DEF SendStep
<1>5. ASSUME NEW s \in Sends, Fault(s) PROVE Protected'
  <2> USE <1>1, <1>2, <1>3 DEF marketVars, historyVars
  <2>1. CASE EntryAnswerIsLost(s)
    BY <2>1, EnteringKeepsProtection DEF EntryAnswerIsLost
  <2>2. CASE ExitRaises(s)
    BY <2>2, SendKeepsProtection DEF ExitRaises
  <2>3. CASE SendDies(s)
    BY <2>3, SendKeepsProtection DEF SendDies
  <2>. QED
    BY <1>5, <2>1, <2>2, <2>3 DEF Fault
<1>6. ASSUME NEW side \in Side, Market(side) PROVE Protected'
  BY <1>6, MarketKeepsProtection
<1>7. CASE UNCHANGED vars
  BY <1>7 DEF vars, Protected, Units, Held, Protection, Placing
<1>. QED
  BY <1>4, <1>5, <1>6, <1>7 DEF Next

\* Every unit held has a stop order, a send about to place one, or is one of the entries
\* known to have lost theirs: leftover orders and netting never use a stop up.
THEOREM PositionsAreProtected == Spec => []PositionIsProtected
<1>1. Init => Protected
  <2> SUFFICES ASSUME Init, NEW side \in Side
               PROVE  Units(side) + resting[side] <= Protection(side)
    BY DEF Protected
  <2>1. Placing(side) = {}
    BY DEF Init, Placing
  <2>2. Cardinality(Placing(side)) = 0
    BY <2>1, FS_EmptySet
  <2>3. Units(side) = 0 /\ resting[side] = 0 /\ stops[Opposite(side)] = 0 /\ exposed = 0
    BY SideTypes DEF Init, Units, Held
  <2>. QED BY <2>2, <2>3 DEF Protection
<1>2. TypeOK /\ Protected => PositionIsProtected
  <2> SUFFICES ASSUME TypeOK, Protected, NEW side \in Side, Held(side) > 0
               PROVE  Held(side) + resting[side]
                        <= stops[Opposite(side)] + Cardinality(Placing(side)) + exposed
    BY DEF PositionIsProtected
  <2>. QED BY DEF Protected, Protection, Units
<1>. QED
  BY <1>1, <1>2, ProtectedStep, TypeCorrect, PTL DEF Spec
=============================================================================
