---------------------------- MODULE FollowProofs ----------------------------
(***************************************************************************)
(* Theorems about Follow, for any lines, any number of observers, any      *)
(* -count, and any capacity of the channel of lines.                       *)
(***************************************************************************)
EXTENDS Follow, TLAPS

(***************************************************************************)
(* The two ways a step can change the lines in the channel.                *)
(***************************************************************************)
LEMMA AppendFacts ==
  ASSUME NEW S, NEW q \in Seq(S), NEW x \in S
  PROVE  /\ Append(q, x) \in Seq(S) /\ Len(Append(q, x)) = Len(q) + 1
         /\ \A i \in 1 .. Len(q) : Append(q, x)[i] = q[i]
         /\ Append(q, x)[Len(q) + 1] = x
  OBVIOUS

LEMMA TailFacts ==
  ASSUME NEW S, NEW q \in Seq(S), q # <<>>
  PROVE  /\ Tail(q) \in Seq(S) /\ Len(Tail(q)) = Len(q) - 1
         /\ Head(q) \in S /\ Head(q) = q[1]
         /\ \A i \in 1 .. Len(q) - 1 : Tail(q)[i] = q[i + 1]
  OBVIOUS

(***************************************************************************)
(* The state machine keeps its types and the channels their capacities.    *)
(***************************************************************************)
THEOREM TypeCorrect == Spec => []TypeOK
<1> USE FollowAssumption
<1>1. ASSUME Init
      PROVE  TypeOK
  <2>1. /\ observing \in [Observer -> Line \cup {NoLine}]
        /\ messages \in 0 .. MaxMessages /\ Len(out) <= LineBuffer
    BY <1>1 DEF Init
  <2>2. /\ writeErr \in BOOLEAN /\ interrupted \in BOOLEAN
        /\ cancelled \in BOOLEAN /\ expired \in BOOLEAN
        /\ failed \in BOOLEAN /\ outClosed \in BOOLEAN
        /\ full \in BOOLEAN /\ closed \in BOOLEAN /\ panicked \in BOOLEAN
    BY <1>1 DEF Init
  <2> QED BY <1>1, <2>1, <2>2 DEF Init, TypeOK
<1>2. ASSUME TypeOK, [Next]_vars
      PROVE  TypeOK'
  <2> USE <1>2 DEF TypeOK, follow, context, listening, emitter, observers
  <2>1. CASE Interrupt \/ Expire
    <3>1. interrupted' \in BOOLEAN /\ expired' \in BOOLEAN
      BY <2>1 DEF Interrupt, Expire
    <3> QED BY <2>1, <3>1 DEF Interrupt, Expire
  <2>2. ASSUME NEW o \in Observer, ObserverStep(o)
        PROVE  TypeOK'
    <3>1. ASSUME NEW line \in Line, ObserveNew(o, line)
          PROVE  TypeOK'
      <4>1. /\ seen' \in SUBSET Line
            /\ observing' \in [Observer -> Line \cup {NoLine}]
            /\ messages' \in 0 .. MaxMessages
        BY <3>1 DEF ObserveNew, arrives
      <4> QED BY <3>1, <4>1 DEF ObserveNew
    <3>2. ASSUME NEW line \in Line, ObserveKnown(o, line)
          PROVE  TypeOK'
      <4>1. /\ offered' \in SUBSET Line
            /\ messages' \in 0 .. MaxMessages
        BY <3>2 DEF ObserveKnown, arrives
      <4> QED BY <3>2, <4>1 DEF ObserveKnown
    <3>3. ASSUME NEW line \in Line, Capture(o, line)
          PROVE  TypeOK'
      <4>1. /\ observing' \in [Observer -> Line \cup {NoLine}]
            /\ messages' \in 0 .. MaxMessages
        BY <3>3 DEF Capture, arrives
      <4> QED BY <3>3, <4>1 DEF Capture
    <3>4. CASE EmitRefused(o) \/ EmitDropped(o)
      <4>1. /\ observing' \in [Observer -> Line \cup {NoLine}]
            /\ UNCHANGED <<command, follow, context, listening, seen, messages,
                           offered, emitter>>
        BY <3>4 DEF EmitRefused, EmitDropped, returns
      <4> QED BY <1>2, <4>1
    <3>5. CASE EmitSent(o)
      <4>1. /\ out' \in Seq(Line) /\ Len(out') <= LineBuffer
        BY <3>5, AppendFacts DEF EmitSent, send
      <4>2. /\ full' \in BOOLEAN /\ panicked' \in BOOLEAN
        BY <3>5 DEF EmitSent, send, atLimit
      <4> QED BY <3>5, <4>1, <4>2 DEF EmitSent, send, returns
    <3> QED BY <2>2, <3>1, <3>2, <3>3, <3>4, <3>5 DEF ObserverStep
  <2>3. CASE DialFails \/ Dials \/ ListenEnds \/ Disconnected
    <3>1. failed' \in BOOLEAN
      BY <2>3 DEF DialFails, Dials, ListenEnds, Disconnected
    <3> QED BY <2>3, <3>1 DEF DialFails, Dials, ListenEnds, Disconnected
  <2>4. CASE ListenReturns
    BY <2>4 DEF ListenReturns
  <2>5. CASE Close
    <3>1. closed' \in BOOLEAN /\ outClosed' \in BOOLEAN /\ panicked' \in BOOLEAN
      BY <2>5 DEF Close
    <3> QED BY <2>5, <3>1 DEF Close
  <2>6. CASE WatchFull \/ WatchEnds
    <3>1. cancelled' \in BOOLEAN
      BY <2>6 DEF WatchFull, WatchEnds
    <3> QED BY <2>6, <3>1 DEF WatchFull, WatchEnds
  <2>7. CASE AnnounceFails \/ Announce
    <3>1. result' \in SUBSET Problem
      BY <2>7 DEF AnnounceFails, Announce, Problem
    <3> QED BY <2>7, <3>1 DEF AnnounceFails, Announce
  <2>8. CASE WriteLine
    <3>1. printed' \in Seq(Line) /\ out' \in Seq(Line) /\ Len(out') <= LineBuffer
      BY <2>8, TailFacts, AppendFacts DEF WriteLine
    <3> QED BY <2>8, <3>1 DEF WriteLine
  <2>9. CASE WriteFails
    <3>1. out' \in Seq(Line) /\ Len(out') <= LineBuffer
      BY <2>9, TailFacts DEF WriteFails
    <3> QED BY <2>9, <3>1 DEF WriteFails
  <2>10. CASE Drained \/ Cancel
    <3>1. cancelled' \in BOOLEAN
      BY <2>10 DEF Drained, Cancel
    <3> QED BY <2>10, <3>1 DEF Drained, Cancel
  <2>11. CASE ListenFailed \/ Notice
    <3>1. result' \in SUBSET Problem /\ errs' = <<>>
      BY <2>11 DEF ListenFailed, Notice, Problem
    <3>2. main' = "ended" /\ UNCHANGED <<command, writeErr, printed, context,
             listener, failed, watcher, emitter, observers>>
      BY <2>11 DEF ListenFailed, Notice
    <3> QED BY <3>1, <3>2
  <2>12. CASE UNCHANGED vars
    BY <2>12 DEF vars
  <2> QED BY <2>1, <2>2, <2>3, <2>4, <2>5, <2>6, <2>7, <2>8, <2>9, <2>10,
             <2>11, <2>12
          DEF Next, ListenerStep, WatcherStep, FollowStep
<1> QED BY <1>1, <1>2, PTL DEF Spec

-----------------------------------------------------------------------------
(***************************************************************************)
(* The flag closed says whether the channel is closed, and full is closed  *)
(* only when the limit has been reached; so emit, which looks at the flag  *)
(* and the limit first, cannot panic.                                      *)
(***************************************************************************)
FlagsTell ==
  /\ outClosed = closed
  /\ full => atLimit(count)
  /\ ~panicked

LEMMA FlagsStep ==
  ASSUME TypeOK, FlagsTell, [Next]_vars
  PROVE  FlagsTell'
<1> USE DEF FlagsTell
<1>1. CASE UNCHANGED <<command, emitter>>
  BY <1>1 DEF emitter, atLimit
<1>2. ASSUME NEW o \in Observer, EmitSent(o)
      PROVE  FlagsTell'
  <2>1. /\ ~closed /\ ~atLimit(count)
        /\ full' = (full \/ atLimit(count + 1)) /\ count' = count + 1
        /\ panicked' = (panicked \/ outClosed \/ (full /\ atLimit(count + 1)))
        /\ UNCHANGED <<command, outClosed, closed>>
    BY <1>2 DEF EmitSent, send, returns
  <2>2. atLimit(count)' = atLimit(count + 1)
    BY <2>1 DEF atLimit
  <2> QED BY <2>1, <2>2
<1>3. CASE Close
  BY <1>3 DEF Close, atLimit
<1>4. CASE WriteLine \/ WriteFails
  BY <1>4 DEF WriteLine, WriteFails, atLimit
<1>5. ASSUME NEW o \in Observer, ObserverStep(o), ~EmitSent(o)
      PROVE  UNCHANGED <<command, emitter>>
  BY <1>5 DEF ObserverStep, ObserveNew, ObserveKnown, Capture, EmitRefused,
              EmitDropped, returns
<1>6. CASE Interrupt \/ Expire \/ DialFails \/ (ListenerStep /\ ~Close)
             \/ WatcherStep
  BY <1>1, <1>6
     DEF Interrupt, Expire, DialFails, ListenerStep, Dials, ListenEnds,
         Disconnected, ListenReturns, WatcherStep, WatchFull, WatchEnds
<1>7. CASE AnnounceFails \/ (FollowStep /\ ~WriteLine)
  BY <1>1, <1>7
     DEF AnnounceFails, FollowStep, Announce, Drained, Cancel, ListenFailed,
         Notice
<1>8. CASE UNCHANGED vars
  BY <1>1, <1>8 DEF vars
<1> QED BY <1>1, <1>2, <1>3, <1>4, <1>5, <1>6, <1>7, <1>8 DEF Next

(***************************************************************************)
(* No late or concurrent message makes the emitter close a channel twice   *)
(* or send to a closed one.                                                *)
(***************************************************************************)
THEOREM NoPanic == Spec => []NeverPanics
<1>1. Init => FlagsTell
  BY DEF Init, FlagsTell
<1>2. FlagsTell => NeverPanics
  BY DEF FlagsTell, NeverPanics
<1> QED BY <1>1, <1>2, TypeCorrect, FlagsStep, PTL DEF Spec

-----------------------------------------------------------------------------
(***************************************************************************)
(* count is what has been printed and what waits to be, unless printing    *)
(* failed; it stays within the limit; and when printing is over the        *)
(* channel is empty and closed, so that nothing is added to it.            *)
(***************************************************************************)
LinesAreCounted ==
  /\ command.limit > 0 => count <= command.limit
  /\ Len(printed) + Len(out) <= count
  /\ ~writeErr => Len(printed) + Len(out) = count
  /\ main \in {"cancel", "wait"} /\ ~writeErr => out = <<>> /\ closed
  /\ main = "ended" /\ ~writeErr => out = <<>>

(***************************************************************************)
(* Before the announcement nothing runs that could send a line.            *)
(***************************************************************************)
NothingYet ==
  main = "announce" =>
    /\ listener = "off" /\ out = <<>>
    /\ \A o \in Observer : observing[o] = NoLine

LEMMA NothingStep ==
  ASSUME TypeOK, NothingYet, [Next]_vars
  PROVE  NothingYet'
<1> SUFFICES ASSUME main' = "announce"
             PROVE  NothingYet'
  BY DEF NothingYet
<1>1. main = "announce" =>
        UNCHANGED <<listener, out, observing>>
  <2> SUFFICES ASSUME main = "announce"
               PROVE  UNCHANGED <<listener, out, observing>>
    OBVIOUS
  <2> USE DEF NothingYet, listening, emitter, observers
  <2>1. ASSUME NEW o \in Observer, ObserverStep(o)
        PROVE  FALSE
    BY <2>1 DEF ObserverStep, ObserveNew, ObserveKnown, Capture, arrives,
                EmitRefused, EmitDropped, EmitSent
  <2>2. ~DialFails /\ ~ListenerStep
    BY DEF DialFails, ListenerStep, Dials, ListenEnds, Disconnected,
           ListenReturns, Close
  <2>3. CASE FollowStep \/ WriteFails \/ AnnounceFails
    BY <2>3 DEF FollowStep, Announce, WriteLine, WriteFails, Drained, Cancel,
                ListenFailed, Notice, AnnounceFails
  <2>4. CASE Interrupt \/ Expire \/ WatcherStep \/ UNCHANGED vars
    BY <2>4 DEF Interrupt, Expire, WatcherStep, WatchFull, WatchEnds, vars
  <2> QED BY <2>1, <2>2, <2>3, <2>4 DEF Next
<1>2. main = "announce"
  BY DEF Next, Interrupt, Expire, ObserverStep, ObserveNew, ObserveKnown,
         Capture, EmitRefused, EmitDropped, EmitSent, send, returns, DialFails,
         ListenerStep, Dials, ListenEnds, Disconnected, ListenReturns, Close,
         WatcherStep, WatchFull, WatchEnds, AnnounceFails, WriteFails,
         FollowStep, Announce, WriteLine, Drained, Cancel, ListenFailed, Notice,
         vars, follow
<1> QED BY <1>1, <1>2 DEF NothingYet

LEMMA CountStep ==
  ASSUME TypeOK, FlagsTell, NothingYet, LinesAreCounted, [Next]_vars
  PROVE  LinesAreCounted'
<1> USE DEF LinesAreCounted
<1>1. CASE UNCHANGED <<command, main, writeErr, printed, out, count, closed>>
  BY <1>1
<1>2. ASSUME NEW o \in Observer, EmitSent(o)
      PROVE  LinesAreCounted'
  <2>1. /\ main # "ended" /\ ~closed /\ ~atLimit(count)
        /\ observing[o] \in Line
        /\ out' = Append(out, observing[o]) /\ count' = count + 1
        /\ UNCHANGED <<command, main, writeErr, printed, closed>>
    BY <1>2 DEF EmitSent, send, returns, ended, follow, TypeOK
  <2>2. Len(out') = Len(out) + 1
    BY <2>1, AppendFacts DEF TypeOK
  <2>3. Len(out) \in Nat /\ Len(printed) \in Nat /\ count \in Nat
        /\ command.limit \in Nat
    BY FollowAssumption DEF TypeOK
  <2>4. command.limit > 0 => count + 1 <= command.limit
    BY <2>1, <2>3 DEF atLimit
  <2> QED BY <2>1, <2>2, <2>3, <2>4
<1>3. CASE WriteLine
  <2>1. /\ main = "drain" /\ out # <<>>
        /\ printed' = Append(printed, Head(out)) /\ out' = Tail(out)
        /\ UNCHANGED <<command, main, writeErr, count, closed>>
    BY <1>3 DEF WriteLine
  <2>2. Len(out') = Len(out) - 1 /\ Head(out) \in Line
    BY <2>1, TailFacts DEF TypeOK
  <2>3. Len(printed') = Len(printed) + 1
    BY <2>1, <2>2, AppendFacts DEF TypeOK
  <2>4. Len(out) \in Nat /\ Len(printed) \in Nat /\ count \in Nat
    BY DEF TypeOK
  <2> QED BY <2>1, <2>2, <2>3, <2>4
<1>4. CASE WriteFails
  <2>1. /\ main' = "cancel" /\ out # <<>> /\ out' = Tail(out) /\ writeErr'
        /\ UNCHANGED <<command, printed, count, closed>>
    BY <1>4 DEF WriteFails
  <2>2. Len(out') = Len(out) - 1
    BY <2>1, TailFacts DEF TypeOK
  <2>3. Len(out) \in Nat /\ Len(printed) \in Nat /\ count \in Nat
    BY DEF TypeOK
  <2> QED BY <2>1, <2>2, <2>3
<1>5. CASE Close
  BY <1>5 DEF Close, follow
<1>6. CASE Drained
  BY <1>6 DEF Drained, emitter, FlagsTell
<1>7. CASE AnnounceFails \/ Announce \/ Cancel \/ ListenFailed \/ Notice
  BY <1>7 DEF AnnounceFails, Announce, Cancel, ListenFailed, Notice, emitter,
              NothingYet
<1>8. ASSUME NEW o \in Observer, ObserverStep(o), ~EmitSent(o)
      PROVE  LinesAreCounted'
  BY <1>1, <1>8
     DEF ObserverStep, ObserveNew, ObserveKnown, Capture, EmitRefused,
         EmitDropped, returns, follow, emitter
<1>9. CASE Interrupt \/ Expire \/ DialFails \/ (ListenerStep /\ ~Close)
             \/ WatcherStep \/ UNCHANGED vars
  BY <1>1, <1>9
     DEF Interrupt, Expire, DialFails, ListenerStep, Dials, ListenEnds,
         Disconnected, ListenReturns, WatcherStep, WatchFull, WatchEnds, vars,
         follow, emitter
<1> QED BY <1>2, <1>3, <1>4, <1>5, <1>6, <1>7, <1>8, <1>9
        DEF Next, FollowStep

LEMMA CountInvariant == Spec => []LinesAreCounted
<1>1. ASSUME Init
      PROVE  FlagsTell /\ NothingYet /\ LinesAreCounted
  <2>1. Len(out) = 0 /\ Len(printed) = 0 /\ count = 0 /\ command.limit \in Nat
    BY <1>1, FollowAssumption DEF Init
  <2>2. FlagsTell /\ NothingYet
    BY <1>1 DEF Init, FlagsTell, NothingYet
  <2>3. LinesAreCounted
    BY <1>1, <2>1 DEF Init, LinesAreCounted
  <2> QED BY <2>2, <2>3
<1> QED BY <1>1, TypeCorrect, FlagsStep, NothingStep, CountStep, PTL DEF Spec

(***************************************************************************)
(* No more lines than -count are printed or will be.                       *)
(***************************************************************************)
THEOREM WithinCount == Spec => []AtMostCount
<1>1. TypeOK /\ LinesAreCounted => AtMostCount
  BY FollowAssumption DEF TypeOK, LinesAreCounted, AtMostCount
<1> QED BY <1>1, TypeCorrect, CountInvariant, PTL

(***************************************************************************)
(* Every line that was counted has been printed when the command ends,     *)
(* unless printing failed.                                                 *)
(***************************************************************************)
THEOREM AllPrinted == Spec => []AcceptedIsPrinted
<1>1. TypeOK /\ LinesAreCounted => AcceptedIsPrinted
  BY DEF TypeOK, LinesAreCounted, AcceptedIsPrinted, ended
<1> QED BY <1>1, TypeCorrect, CountInvariant, PTL

-----------------------------------------------------------------------------
(***************************************************************************)
(* discover: whatever has been printed, waits in the channel, or is about  *)
(* to be emitted has been seen, and all of it is different.                *)
(***************************************************************************)
AllSeen ==
  /\ \A i \in DOMAIN printed : printed[i] \in seen
  /\ \A i \in DOMAIN out : out[i] \in seen
  /\ \A o \in Observer : observing[o] # NoLine => observing[o] \in seen

AllDifferent ==
  /\ \A i, j \in DOMAIN printed : printed[i] = printed[j] => i = j
  /\ \A i, j \in DOMAIN out : out[i] = out[j] => i = j
  /\ \A i \in DOMAIN printed, j \in DOMAIN out : printed[i] # out[j]
  /\ \A o \in Observer : \A i \in DOMAIN printed : printed[i] # observing[o]
  /\ \A o \in Observer : \A i \in DOMAIN out : out[i] # observing[o]
  /\ \A o, p \in Observer :
       observing[o] # NoLine /\ observing[o] = observing[p] => o = p

NoRepeats == command.discovers => AllSeen /\ AllDifferent

LEMMA RepeatStep ==
  ASSUME TypeOK, NoRepeats, [Next]_vars
  PROVE  NoRepeats'
<1> SUFFICES ASSUME command.discovers, AllSeen, AllDifferent,
                    command' = command
             PROVE  AllSeen' /\ AllDifferent'
  <2>1. command' = command
    BY DEF Next, Interrupt, Expire, ObserverStep, ObserveNew, ObserveKnown,
           Capture, EmitRefused, EmitDropped, EmitSent, send, returns,
           DialFails, ListenerStep, Dials, ListenEnds, Disconnected,
           ListenReturns, Close, WatcherStep, WatchFull, WatchEnds,
           AnnounceFails, WriteFails, FollowStep, Announce, WriteLine, Drained,
           Cancel, ListenFailed, Notice, vars
  <2> QED BY <2>1 DEF NoRepeats
<1> USE DEF AllSeen, AllDifferent
<1>1. CASE UNCHANGED <<printed, out, seen, observing>>
  BY <1>1
<1>2. ASSUME NEW o \in Observer, NEW line \in Line, ObserveNew(o, line)
      PROVE  AllSeen' /\ AllDifferent'
  <2>1. /\ line \notin seen /\ seen' = seen \cup {line}
        /\ observing' = [observing EXCEPT ![o] = line]
        /\ UNCHANGED <<printed, out>>
    BY <1>2 DEF ObserveNew, follow, emitter
  <2>2. \A p \in Observer :
          observing'[p] = IF p = o THEN line ELSE observing[p]
    BY <2>1 DEF TypeOK
  <2>3. AllSeen'
    BY <2>1, <2>2
  <2>4. \A p \in Observer : \A i \in DOMAIN printed : printed[i] # observing'[p]
    BY <2>1, <2>2
  <2>5. \A p \in Observer : \A i \in DOMAIN out : out[i] # observing'[p]
    BY <2>1, <2>2
  <2>6. \A p, q \in Observer :
          observing'[p] # NoLine /\ observing'[p] = observing'[q] => p = q
    BY <2>1, <2>2
  <2> QED BY <2>1, <2>3, <2>4, <2>5, <2>6
<1>3. ASSUME NEW o \in Observer, observing' = [observing EXCEPT ![o] = NoLine]
      PROVE  /\ \A p \in Observer : observing'[p] # NoLine =>
                   p # o /\ observing'[p] = observing[p]
             /\ \A p \in Observer : p # o => observing'[p] = observing[p]
             /\ observing'[o] = NoLine
  BY <1>3 DEF TypeOK
<1>4. ASSUME NEW o \in Observer, EmitRefused(o) \/ EmitDropped(o)
      PROVE  AllSeen' /\ AllDifferent'
  <2>1. /\ observing' = [observing EXCEPT ![o] = NoLine]
        /\ UNCHANGED <<printed, out, seen>>
    BY <1>4 DEF EmitRefused, EmitDropped, returns, follow, emitter
  <2>2. \A i \in DOMAIN printed : printed[i] # NoLine
    BY FollowAssumption DEF TypeOK
  <2>3. \A i \in DOMAIN out : out[i] # NoLine
    BY FollowAssumption DEF TypeOK
  <2> QED BY <2>1, <2>2, <2>3, <1>3
<1>5. ASSUME NEW o \in Observer, EmitSent(o)
      PROVE  AllSeen' /\ AllDifferent'
  <2>1. /\ observing' = [observing EXCEPT ![o] = NoLine]
        /\ observing[o] # NoLine /\ observing[o] \in Line
        /\ out' = Append(out, observing[o])
        /\ UNCHANGED <<printed, seen>>
    BY <1>5 DEF EmitSent, send, returns, follow, TypeOK
  <2>2. /\ out' \in Seq(Line) /\ Len(out') = Len(out) + 1
        /\ \A i \in 1 .. Len(out) : out'[i] = out[i]
        /\ out'[Len(out) + 1] = observing[o]
    BY <2>1, AppendFacts DEF TypeOK
  <2>3. \A i \in DOMAIN out' :
          \/ i \in DOMAIN out /\ out'[i] = out[i]
          \/ i = Len(out) + 1 /\ out'[i] = observing[o]
    BY <2>2 DEF TypeOK
  <2>4. \A i \in DOMAIN printed : printed[i] # NoLine
    BY FollowAssumption DEF TypeOK
  <2>5. \A i \in DOMAIN out' : out'[i] # NoLine
    BY <2>2, FollowAssumption
  <2>6. AllSeen'
    BY <2>1, <2>3, <1>3
  <2>7. \A i, j \in DOMAIN out' : out'[i] = out'[j] => i = j
    BY <2>3
  <2>8. \A i \in DOMAIN printed, j \in DOMAIN out' : printed[i] # out'[j]
    BY <2>3
  <2>9. \A p \in Observer : \A i \in DOMAIN printed : printed[i] # observing'[p]
    BY <2>1, <2>4, <1>3
  <2>10. ASSUME NEW p \in Observer, NEW i \in DOMAIN out'
         PROVE  out'[i] # observing'[p]
    <3>1. CASE p = o
      BY <2>1, <2>5, <3>1, <1>3
    <3>2. CASE p # o
      BY <2>1, <2>3, <3>2, <1>3
    <3> QED BY <3>1, <3>2
  <2>11. \A p, q \in Observer :
           observing'[p] # NoLine /\ observing'[p] = observing'[q] => p = q
    BY <2>1, <1>3
  <2> QED BY <2>1, <2>6, <2>7, <2>8, <2>9, <2>10, <2>11
<1>6. CASE WriteLine
  <2>1. /\ out # <<>> /\ printed' = Append(printed, Head(out))
        /\ out' = Tail(out) /\ UNCHANGED <<seen, observing>>
    BY <1>6 DEF WriteLine, observers
  <2>2. /\ out' \in Seq(Line) /\ Len(out') = Len(out) - 1
        /\ Head(out) \in Line /\ Head(out) = out[1]
        /\ \A i \in 1 .. Len(out) - 1 : out'[i] = out[i + 1]
    BY <2>1, TailFacts DEF TypeOK
  <2>3. /\ printed' \in Seq(Line) /\ Len(printed') = Len(printed) + 1
        /\ \A i \in 1 .. Len(printed) : printed'[i] = printed[i]
        /\ printed'[Len(printed) + 1] = out[1]
    BY <2>1, <2>2, AppendFacts DEF TypeOK
  <2>4. \A i \in DOMAIN printed' :
          \/ i \in DOMAIN printed /\ printed'[i] = printed[i]
          \/ i = Len(printed) + 1 /\ printed'[i] = out[1]
    <3>1. /\ DOMAIN printed' = 1 .. Len(printed) + 1
          /\ DOMAIN printed = 1 .. Len(printed) /\ Len(printed) \in Nat
      BY <2>3 DEF TypeOK
    <3> QED BY <2>3, <3>1
  <2>5. /\ \A i \in DOMAIN out' : i + 1 \in DOMAIN out /\ out'[i] = out[i + 1]
        /\ \A i \in DOMAIN out' : i \in Nat /\ i + 1 # 1
        /\ 1 \in DOMAIN out
    BY <2>1, <2>2 DEF TypeOK
  <2>6. AllSeen'
    BY <2>1, <2>4, <2>5
  <2>7. \A i, j \in DOMAIN printed' : printed'[i] = printed'[j] => i = j
    BY <2>4, <2>5
  <2>8. \A i, j \in DOMAIN out' : out'[i] = out'[j] => i = j
    <3> SUFFICES ASSUME NEW i \in DOMAIN out', NEW j \in DOMAIN out',
                        out'[i] = out'[j]
                 PROVE  i = j
      OBVIOUS
    <3>1. i + 1 = j + 1
      BY <2>5
    <3> QED BY <3>1, <2>5
  <2>9. \A i \in DOMAIN printed', j \in DOMAIN out' : printed'[i] # out'[j]
    BY <2>4, <2>5
  <2>10. \A p \in Observer : \A i \in DOMAIN printed' :
           printed'[i] # observing[p]
    BY <2>4, <2>5
  <2>11. \A p \in Observer : \A i \in DOMAIN out' : out'[i] # observing[p]
    BY <2>5
  <2> QED BY <2>1, <2>6, <2>7, <2>8, <2>9, <2>10, <2>11
<1>7. CASE WriteFails
  <2>1. /\ out # <<>> /\ out' = Tail(out)
        /\ UNCHANGED <<printed, seen, observing>>
    BY <1>7 DEF WriteFails, observers
  <2>2. /\ out' \in Seq(Line) /\ Len(out') = Len(out) - 1
        /\ \A i \in 1 .. Len(out) - 1 : out'[i] = out[i + 1]
    BY <2>1, TailFacts DEF TypeOK
  <2>3. \A i \in DOMAIN out' :
          i \in Nat /\ i + 1 \in DOMAIN out /\ out'[i] = out[i + 1]
    BY <2>1, <2>2 DEF TypeOK
  <2>4. \A i, j \in DOMAIN out' : out'[i] = out'[j] => i = j
    <3> SUFFICES ASSUME NEW i \in DOMAIN out', NEW j \in DOMAIN out',
                        out'[i] = out'[j]
                 PROVE  i = j
      OBVIOUS
    <3>1. i + 1 = j + 1
      BY <2>3
    <3> QED BY <3>1, <2>3
  <2> QED BY <2>1, <2>3, <2>4
<1>8. ASSUME NEW o \in Observer, NEW line \in Line,
             ObserveKnown(o, line) \/ Capture(o, line)
      PROVE  UNCHANGED <<printed, out, seen, observing>>
  BY <1>8 DEF ObserveKnown, Capture, follow, emitter
<1>9. CASE Interrupt \/ Expire \/ DialFails \/ ListenerStep \/ WatcherStep
  BY <1>1, <1>9
     DEF Interrupt, Expire, DialFails, ListenerStep, Dials, ListenEnds,
         Disconnected, ListenReturns, Close, WatcherStep, WatchFull, WatchEnds,
         follow, emitter, observers
<1>10. CASE AnnounceFails \/ (FollowStep /\ ~WriteLine) \/ UNCHANGED vars
  BY <1>1, <1>10
     DEF AnnounceFails, FollowStep, Announce, Drained, Cancel, ListenFailed,
         Notice, vars, follow, emitter, observers
<1> QED BY <1>1, <1>2, <1>4, <1>5, <1>6, <1>7, <1>8, <1>9, <1>10
        DEF Next, ObserverStep

(***************************************************************************)
(* discover prints, and holds ready to print, no prefix twice, however     *)
(* many goroutines of the library call observe.                            *)
(***************************************************************************)
THEOREM PrefixOnce == Spec => []OncePerPrefix
<1>1. Init => NoRepeats
  BY DEF Init, NoRepeats, AllSeen, AllDifferent
<1>2. ASSUME TypeOK, NoRepeats
      PROVE  OncePerPrefix
  <2> SUFFICES ASSUME command.discovers,
                      NEW i \in DOMAIN (printed \o out),
                      NEW j \in DOMAIN (printed \o out),
                      (printed \o out)[i] = (printed \o out)[j]
               PROVE  i = j
    BY DEF OncePerPrefix
  <2> DEFINE at(k) == \/ k \in DOMAIN printed /\ (printed \o out)[k] = printed[k]
                      \/ /\ k - Len(printed) \in DOMAIN out
                         /\ (printed \o out)[k] = out[k - Len(printed)]
  <2>1. at(i) /\ at(j)
    BY <1>2 DEF TypeOK
  <2>2. i \in Nat /\ j \in Nat /\ Len(printed) \in Nat
    BY <1>2 DEF TypeOK
  <2>3. i - Len(printed) = j - Len(printed) => i = j
    BY <2>2
  <2> QED BY <1>2, <2>1, <2>3 DEF NoRepeats, AllDifferent
<1> QED BY <1>1, <1>2, TypeCorrect, RepeatStep, PTL DEF Spec

-----------------------------------------------------------------------------
(***************************************************************************)
(* What the listener failed at waits in errs until follow takes it, and    *)
(* until then nothing else is returned.                                    *)
(***************************************************************************)
FailureWaits ==
  /\ errs # <<>> => errs = <<failed>> /\ listener \in {"close", "gone"}
  /\ main = "announce" => ~writeErr /\ ~failed /\ listener = "off"
  /\ main # "ended" => result = {}
  /\ FailureIsReported

LEMMA FailureStep ==
  ASSUME TypeOK, FailureWaits, [Next]_vars
  PROVE  FailureWaits'
<1> USE DEF FailureWaits, FailureIsReported, ended
<1>1. CASE UNCHANGED <<follow, listener, failed, errs>>
  BY <1>1 DEF follow
<1>2. CASE DialFails \/ Dials \/ ListenEnds \/ Disconnected \/ Close
  BY <1>2 DEF DialFails, Dials, ListenEnds, Disconnected, Close, follow
<1>3. CASE ListenReturns
  BY <1>3 DEF ListenReturns, follow
<1>4. CASE AnnounceFails \/ Announce
  BY <1>4 DEF AnnounceFails, Announce, listening
<1>5. CASE WriteLine \/ WriteFails \/ Drained \/ Cancel
  BY <1>5 DEF WriteLine, WriteFails, Drained, Cancel, listening
<1>6. CASE ListenFailed
  BY <1>6 DEF ListenFailed
<1>7. CASE Notice
  <2>1. errs = <<FALSE>> /\ errs' = <<>> /\ main' = "ended" /\ UNCHANGED <<writeErr, failed>>
    BY <1>7 DEF Notice
  <2>2. errs = <<failed>>
    BY <2>1
  <2>3. <<failed>>[1] = <<FALSE>>[1]
    BY <2>1, <2>2
  <2>4. ~failed
    BY <2>3
  <2>5. result' = {} => ~writeErr
    BY <1>7 DEF Notice
  <2> QED BY <2>1, <2>4, <2>5
<1>8. ASSUME NEW o \in Observer, ObserverStep(o)
      PROVE  UNCHANGED <<follow, listener, failed, errs>>
  BY <1>8 DEF ObserverStep, ObserveNew, ObserveKnown, Capture, EmitRefused, EmitDropped,
              EmitSent, send, returns, listening
<1>9. CASE Interrupt \/ Expire \/ WatcherStep \/ UNCHANGED vars
  BY <1>1, <1>9 DEF Interrupt, Expire, WatcherStep, WatchFull, WatchEnds, vars, listening
<1> QED BY <1>1, <1>2, <1>3, <1>4, <1>5, <1>6, <1>7, <1>8, <1>9
        DEF Next, ListenerStep, FollowStep

(***************************************************************************)
(* If a command returns no error, its client had none to return and every  *)
(* line it tried to write was written.                                     *)
(***************************************************************************)
THEOREM NoFailureHidden == Spec => []FailureIsReported
<1>1. Init => FailureWaits
  BY DEF Init, FailureWaits, FailureIsReported, ended
<1>2. FailureWaits => FailureIsReported
  BY DEF FailureWaits
<1> QED BY <1>1, <1>2, TypeCorrect, FailureStep, PTL DEF Spec
=============================================================================
