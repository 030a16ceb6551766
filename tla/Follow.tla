------------------------------- MODULE Follow -------------------------------
(***************************************************************************)
(* The commands discover and capture: internal/app/command.go (follow),    *)
(* listen.go, discover.go and capture.go, with Paho.Run of                 *)
(* internal/broker/paho.go.                                                *)
(*                                                                         *)
(* The goroutines: follow, which prints; the one that listens and then     *)
(* closes the channel of lines; the one that watches for the limit; and    *)
(* the ones of the MQTT library that call observe.  The library calls it   *)
(* for one message at a time, but emitter and discovery lock for more, so  *)
(* there may be several.  A call may come after the connection has been    *)
(* given up, since Disconnect waits only for disconnectGracePeriod.        *)
(***************************************************************************)
EXTENDS Naturals, Sequences

CONSTANTS
  Line,        \* prefixes of topics, or lines that show a message
  NoLine,
  Observer,    \* goroutines of the library that call observe
  MaxLimit,    \* bound: the greatest -count
  MaxMessages, \* bound: messages that come
  LineBuffer   \* lineBuffer, the capacity of the channel of lines

ASSUME FollowAssumption ==
  /\ NoLine \notin Line
  /\ MaxLimit \in Nat /\ MaxMessages \in Nat
  /\ LineBuffer \in Nat \ {0}

Problem == {"write", "client"}

VARIABLES
  command,     \* the command line: what is collected, -count, -for
  main,        \* how far follow has come
  result,      \* what follow returns: the problems of its error
  writeErr,    \* drainLines failed
  interrupted, \* the context given to follow has ended
  cancelled,   \* cancel() of the context listening has been called
  expired,     \* the window of listen has ended
  listener,    \* the goroutine that listens
  failed,      \* what listen is about to return
  errs,        \* the channel errs of follow
  watcher,     \* the goroutine that waits for the limit
  out,         \* emitter.out: the lines in the channel,
  outClosed,   \* and whether it is closed
  full,        \* emitter.full is closed
  count, closed,
  seen,        \* discovery.seen
  observing,   \* what each call of observe is about to emit
  messages,    \* messages that came, for the bound
  printed,     \* history: what has been printed
  panicked,    \* history: a closed channel was closed or sent to
  offered      \* history: what came while there was room for it

context   == <<interrupted, cancelled, expired>>
listening == <<listener, failed, errs, watcher>>
emitter   == <<out, outClosed, full, count, closed, panicked>>
observers == <<seen, observing, messages, offered>>
follow    == <<main, result, writeErr, printed>>
vars == <<command, follow, context, listening, emitter, observers>>

Init ==
  /\ command \in [discovers : BOOLEAN, limit : 0 .. MaxLimit, timed : BOOLEAN]
  /\ main = "announce" /\ result = {} /\ writeErr = FALSE
  /\ interrupted = FALSE /\ cancelled = FALSE /\ expired = FALSE
  /\ listener = "off" /\ failed = FALSE /\ errs = <<>> /\ watcher = "off"
  /\ out = <<>> /\ outClosed = FALSE /\ full = FALSE
  /\ count = 0 /\ closed = FALSE
  /\ seen = {} /\ observing = [o \in Observer |-> NoLine] /\ messages = 0
  /\ printed = <<>> /\ panicked = FALSE /\ offered = {}

ended         == main = "ended"
listeningDone == interrupted \/ cancelled
timedDone     == listeningDone \/ expired

\* Mutant: off by one.
atLimitLate(n) == command.limit > 0 /\ n > command.limit

atLimit(n) == command.limit > 0 /\ n >= command.limit

-----------------------------------------------------------------------------
(***************************************************************************)
(* The world: the user interrupts, the window ends.                        *)
(***************************************************************************)
Interrupt ==
  /\ ~ended /\ ~interrupted
  /\ interrupted' = TRUE
  /\ UNCHANGED <<command, follow, cancelled, expired, listening, emitter, observers>>

Expire ==
  /\ ~ended /\ command.timed /\ ~expired /\ listener \in {"dialling", "up"}
  /\ expired' = TRUE
  /\ UNCHANGED <<command, follow, interrupted, cancelled, listening, emitter, observers>>

-----------------------------------------------------------------------------
(***************************************************************************)
(* observe of discovery: the prefix is marked as seen, under the lock of   *)
(* discovery, before it is emitted, under the lock of the emitter.         *)
(***************************************************************************)
arrives(o) ==
  /\ ~ended /\ listener \notin {"off", "dialling"}
  /\ observing[o] = NoLine /\ messages < MaxMessages

room == ~closed /\ ~atLimit(count) /\ Len(out) < LineBuffer

\* Mutant: the prefix is not marked as seen.
ObserveUnmarked(o, line) ==
  /\ arrives(o) /\ command.discovers /\ line \notin seen
  /\ observing' = [observing EXCEPT ![o] = line]
  /\ messages' = messages + 1
  /\ UNCHANGED <<command, follow, context, listening, emitter, seen, offered>>

ObserveNew(o, line) ==
  /\ arrives(o) /\ command.discovers /\ line \notin seen
  /\ seen' = seen \cup {line}
  /\ observing' = [observing EXCEPT ![o] = line]
  /\ messages' = messages + 1
  /\ UNCHANGED <<command, follow, context, listening, emitter, offered>>

ObserveKnown(o, line) ==
  /\ arrives(o) /\ command.discovers /\ line \in seen
  /\ messages' = messages + 1
  /\ offered' = IF room THEN offered \cup {line} ELSE offered
  /\ UNCHANGED <<command, follow, context, listening, emitter, seen, observing>>

(***************************************************************************)
(* observe of capturer.                                                    *)
(***************************************************************************)
Capture(o, line) ==
  /\ arrives(o) /\ ~command.discovers
  /\ observing' = [observing EXCEPT ![o] = line]
  /\ messages' = messages + 1
  /\ UNCHANGED <<command, follow, context, listening, emitter, seen, offered>>

(***************************************************************************)
(* emit, all of it under the lock of the emitter.                          *)
(***************************************************************************)
returns(o) ==
  /\ observing' = [observing EXCEPT ![o] = NoLine]
  /\ UNCHANGED <<command, follow, context, listening, seen, messages, offered>>

EmitRefused(o) ==
  /\ ~ended /\ observing[o] # NoLine
  /\ closed \/ atLimit(count)
  /\ returns(o)
  /\ UNCHANGED emitter

EmitDropped(o) ==
  /\ ~ended /\ observing[o] # NoLine
  /\ ~closed /\ ~atLimit(count)
  /\ Len(out) = LineBuffer
  /\ returns(o)
  /\ UNCHANGED emitter

\* Mutant: the channel of lines is made without a bound.
sendUnbounded(o) ==
  /\ out' = Append(out, observing[o])
  /\ count' = count + 1
  /\ full' = (full \/ atLimit(count + 1))
  /\ returns(o)
  /\ UNCHANGED <<outClosed, closed, panicked>>

send(o) ==
  /\ Len(out) < LineBuffer
  /\ out' = Append(out, observing[o])
  /\ count' = count + 1
  /\ full' = (full \/ atLimit(count + 1))
  /\ panicked' = (panicked \/ outClosed \/ (full /\ atLimit(count + 1)))
  /\ returns(o)
  /\ UNCHANGED <<outClosed, closed>>

\* Mutant: emit does not look at closed.
EmitWhenClosed(o) ==
  /\ ~ended /\ observing[o] # NoLine
  /\ ~atLimit(count)
  /\ send(o)

EmitSent(o) ==
  /\ ~ended /\ observing[o] # NoLine
  /\ ~closed /\ ~atLimit(count)
  /\ send(o)

-----------------------------------------------------------------------------
(***************************************************************************)
(* listen and Paho.Run, then close.  Only a URL that does not parse or a   *)
(* connection manager that cannot be made is a failure; "up" means that    *)
(* the client is at work, connected to its broker or trying to.            *)
(***************************************************************************)
DialFails ==
  /\ ~ended /\ listener = "dialling"
  /\ listener' = "report" /\ failed' = TRUE
  /\ UNCHANGED <<command, follow, context, errs, watcher, emitter, observers>>

Dials ==
  /\ ~ended /\ listener = "dialling"
  /\ listener' = "up"
  /\ UNCHANGED <<command, follow, context, failed, errs, watcher, emitter, observers>>

ListenEnds ==
  /\ ~ended /\ listener = "up" /\ timedDone
  /\ listener' = "disconnecting"
  /\ UNCHANGED <<command, follow, context, failed, errs, watcher, emitter, observers>>

Disconnected ==
  /\ ~ended /\ listener = "disconnecting"
  /\ listener' = "report"
  /\ UNCHANGED <<command, follow, context, failed, errs, watcher, emitter, observers>>

ListenReturns ==
  /\ ~ended /\ listener = "report" /\ errs = <<>>
  /\ listener' = "close" /\ errs' = <<failed>>
  /\ UNCHANGED <<command, follow, context, failed, watcher, emitter, observers>>

Close ==
  /\ ~ended /\ listener = "close"
  /\ listener' = "gone"
  /\ closed' = TRUE /\ outClosed' = TRUE
  /\ panicked' = (panicked \/ (~closed /\ outClosed))
  /\ UNCHANGED <<command, follow, context, failed, errs, watcher, out, full, count,
                 observers>>

WatchFull ==
  /\ ~ended /\ watcher = "watching" /\ full
  /\ watcher' = "gone" /\ cancelled' = TRUE
  /\ UNCHANGED <<command, follow, interrupted, expired, listener, failed, errs, emitter,
                 observers>>

WatchEnds ==
  /\ ~ended /\ watcher = "watching" /\ listeningDone
  /\ watcher' = "gone"
  /\ UNCHANGED <<command, follow, context, listener, failed, errs, emitter, observers>>

-----------------------------------------------------------------------------
(***************************************************************************)
(* follow.                                                                 *)
(***************************************************************************)
AnnounceFails ==
  /\ main = "announce"
  /\ main' = "ended" /\ result' = {"write"}
  /\ UNCHANGED <<command, writeErr, printed, context, listening, emitter, observers>>

Announce ==
  /\ main = "announce"
  /\ main' = "drain" /\ listener' = "dialling" /\ watcher' = "watching"
  /\ UNCHANGED <<command, result, writeErr, printed, context, failed, errs, emitter,
                 observers>>

WriteLine ==
  /\ main = "drain" /\ out # <<>>
  /\ printed' = Append(printed, Head(out)) /\ out' = Tail(out)
  /\ UNCHANGED <<command, main, result, writeErr, context, listening, outClosed, full,
                 count, closed, panicked, observers>>

WriteFails ==
  /\ main = "drain" /\ out # <<>>
  /\ main' = "cancel" /\ writeErr' = TRUE /\ out' = Tail(out)
  /\ UNCHANGED <<command, result, printed, context, listening, outClosed, full,
                 count, closed, panicked, observers>>

\* Mutant: printing stops when the context ends, not when the lines do.
DrainedWhenDone ==
  /\ main = "drain" /\ ((out = <<>> /\ outClosed) \/ listeningDone)
  /\ main' = "cancel"
  /\ UNCHANGED <<command, result, writeErr, printed, context, listening, emitter,
                 observers>>

Drained ==
  /\ main = "drain" /\ out = <<>> /\ outClosed
  /\ main' = "cancel"
  /\ UNCHANGED <<command, result, writeErr, printed, context, listening, emitter,
                 observers>>

\* Mutant: the listener is not cancelled after printing.
NoCancel ==
  /\ main = "cancel"
  /\ main' = "wait"
  /\ UNCHANGED <<command, result, writeErr, printed, context, listening, emitter,
                 observers>>

Cancel ==
  /\ main = "cancel"
  /\ main' = "wait" /\ cancelled' = TRUE
  /\ UNCHANGED <<command, result, writeErr, printed, interrupted, expired, listening,
                 emitter, observers>>

ListenFailed ==
  /\ main = "wait" /\ errs = <<TRUE>>
  /\ main' = "ended" /\ errs' = <<>> /\ result' = {"client"}
  /\ UNCHANGED <<command, writeErr, printed, context, listener, failed, watcher, emitter,
                 observers>>

\* Mutant: the error of drainLines is not joined to that of the notice.
NoticeOnly ==
  /\ main = "wait" /\ errs = <<FALSE>>
  /\ main' = "ended" /\ errs' = <<>>
  /\ \E noticeErr \in BOOLEAN : result' = IF noticeErr THEN {"write"} ELSE {}
  /\ UNCHANGED <<command, writeErr, printed, context, listener, failed, watcher, emitter,
                 observers>>

Notice ==
  /\ main = "wait" /\ errs = <<FALSE>>
  /\ main' = "ended" /\ errs' = <<>>
  /\ \E noticeErr \in BOOLEAN :
       result' = IF writeErr \/ noticeErr THEN {"write"} ELSE {}
  /\ UNCHANGED <<command, writeErr, printed, context, listener, failed, watcher, emitter,
                 observers>>

-----------------------------------------------------------------------------
ObserverStep(o) ==
  \/ \E line \in Line : ObserveNew(o, line) \/ ObserveKnown(o, line) \/ Capture(o, line)
  \/ EmitRefused(o) \/ EmitDropped(o) \/ EmitSent(o)

ListenerStep == Dials \/ ListenEnds \/ Disconnected \/ ListenReturns \/ Close

WatcherStep == WatchFull \/ WatchEnds

FollowStep ==
  \/ Announce \/ WriteLine \/ Drained \/ Cancel \/ ListenFailed \/ Notice

Next ==
  \/ Interrupt \/ Expire
  \/ \E o \in Observer : ObserverStep(o)
  \/ DialFails \/ ListenerStep \/ WatcherStep
  \/ AnnounceFails \/ WriteFails \/ FollowStep

Spec == Init /\ [][Next]_vars

(***************************************************************************)
(* A goroutine that can take a step takes one; in particular somebody      *)
(* reads what is printed.  Nobody need interrupt, and no message come.     *)
(***************************************************************************)
FairSpec ==
  /\ Spec
  /\ WF_vars(ListenerStep) /\ WF_vars(WatcherStep) /\ WF_vars(FollowStep)
  /\ \A o \in Observer : WF_vars(EmitRefused(o) \/ EmitDropped(o) \/ EmitSent(o))

-----------------------------------------------------------------------------
(***************************************************************************)
(* Every variable has its type, and no channel holds more than it can.     *)
(***************************************************************************)
TypeOK ==
  /\ command \in [discovers : BOOLEAN, limit : 0 .. MaxLimit, timed : BOOLEAN]
  /\ main \in {"announce", "drain", "cancel", "wait", "ended"}
  /\ result \in SUBSET Problem /\ writeErr \in BOOLEAN
  /\ interrupted \in BOOLEAN /\ cancelled \in BOOLEAN /\ expired \in BOOLEAN
  /\ listener \in {"off", "dialling", "up", "disconnecting", "report", "close", "gone"}
  /\ failed \in BOOLEAN
  /\ errs \in Seq(BOOLEAN) /\ Len(errs) <= 1
  /\ watcher \in {"off", "watching", "gone"}
  /\ out \in Seq(Line) /\ Len(out) <= LineBuffer
  /\ outClosed \in BOOLEAN /\ full \in BOOLEAN
  /\ count \in Nat /\ closed \in BOOLEAN
  /\ seen \in SUBSET Line
  /\ observing \in [Observer -> Line \cup {NoLine}]
  /\ messages \in 0 .. MaxMessages
  /\ printed \in Seq(Line)
  /\ panicked \in BOOLEAN
  /\ offered \in SUBSET Line

(***************************************************************************)
(* Messages that come late, several at once, or after the limit, never     *)
(* make the emitter close a channel twice or send to a closed one, which   *)
(* would end the process with a panic.                                     *)
(***************************************************************************)
NeverPanics == ~panicked

(***************************************************************************)
(* -count: no more lines than asked for are ever printed, or waiting to    *)
(* be, however many messages come while the command ends.                 *)
(***************************************************************************)
AtMostCount == command.limit > 0 => Len(printed) + Len(out) <= command.limit

(***************************************************************************)
(* discover prints a prefix once.                                          *)
(***************************************************************************)
OncePerPrefix ==
  LET lines == printed \o out
  IN  command.discovers =>
        \A i, j \in DOMAIN lines : lines[i] = lines[j] => i = j

(***************************************************************************)
(* A line that was accepted, and counted towards the limit, is printed     *)
(* before the command ends, unless printing fails.                         *)
(***************************************************************************)
AcceptedIsPrinted ==
  ended /\ ~writeErr => Len(printed) = count

(***************************************************************************)
(* A failure is reported: if a command returns no error, its client did    *)
(* not fail (Paho.Run had no error to return: paho.go:53-61) and every     *)
(* line it tried to write was written, in whatever order the listener, the *)
(* printing and the closing notice came to their ends.  A broker that      *)
(* cannot be reached is no failure: the library tries again, and each      *)
(* attempt is only logged (paho.go:130-133).                               *)
(***************************************************************************)
FailureIsReported ==
  ended /\ result = {} => ~writeErr /\ ~failed

(***************************************************************************)
(* A signal, or the end of the window, ends the command; so does reaching  *)
(* -count, and so does output that cannot be written or a client that      *)
(* cannot be set up, without any signal.  A broker that cannot be reached  *)
(* ends nothing: without a window the command waits for it until a signal. *)
(***************************************************************************)
CommandEnds ==
  /\ ((interrupted /\ main # "announce") \/ expired) ~> ended
  /\ (full \/ writeErr \/ failed) ~> ended

(***************************************************************************)
(* README.md: discover prints the topic prefixes being published.  A       *)
(* prefix on which a message came while there was room for its line is     *)
(* printed.                                                                *)
(***************************************************************************)
PublishedIsPrinted ==
  ended /\ result = {} =>
    \A line \in offered : \E i \in DOMAIN printed : printed[i] = line
=============================================================================
