--------------------------- MODULE ProtocolClient ---------------------------
(***************************************************************************)
(* The TCP client of the vendor protocol: the command lock, the idle       *)
(* watcher, the maintenance loop that reconnects, and the camera's side of *)
(* the byte stream, as far as the client depends on it.                    *)
(*                                                                         *)
(* Bytes are grouped in frames: a text reply, an acquisition's data, an    *)
(* ERROR reply, or something nobody asked for.  Each ends in DONE or is an *)
(* ERROR, so a read that finds whole frames stops.  A frame carries the    *)
(* caller whose request it answers, or None once nobody waits for it.      *)
(* Connections and watcher tasks are slots, used again when free; which     *)
(* free one is taken makes no difference.                                   *)
(*                                                                         *)
(* _handle_disconnect and _connect broadcast the new state in the middle:  *)
(* with a slow WebSocket client they are suspended there.                  *)
(***************************************************************************)
EXTENDS Naturals, Sequences, SequencesExt

CONSTANTS
  Callers,        \* the tasks that issue commands
  Acquirers,      \* those of them that also acquire data
  Watchers,       \* slots for idle-watcher tasks
  Conns,          \* slots for connections
  MaxStream,      \* bound: new calls and stray frames wait while more is under way
  Faults,         \* what may go wrong in the instance
  WaitForSpawns,  \* asyncio.wait_for runs its coroutine in a task (Python 3.11)
  None

AllFaults == {"close", "error", "stray", "silence", "timeout", "slow_ws", "hung_ws"}

ASSUME ClientAssumption ==
  /\ Faults \subseteq AllFaults
  /\ Acquirers \subseteq Callers
  /\ WaitForSpawns \in BOOLEAN
  /\ MaxStream \in Nat
  /\ None \notin Callers \cup Watchers \cup Conns

VARIABLES
  connected,  \* ProtocolClient._connected
  writer,     \* the connection of _writer and _reader, or None
  link,       \* each connection: the requests and replies under way in it
  lock,       \* ProtocolClient._lock: its head holds it, the rest wait in turn
  caller,     \* the tasks inside send_command, send_acquire and reset
  idleTask,   \* ProtocolClient._idle_task
  watcher,    \* the idle-watcher tasks, the orphaned ones included
  announcing  \* _connect is in its broadcast, before it starts the watcher

clientVars == <<connected, writer, link, lock, caller, idleTask, watcher, announcing>>

Request == [by: Callers \cup {None}, kind: {"command", "acquire"}]
Frame == [to: Callers \cup {None}, what: {"text", "data", "error"}]
Link == [state: {"open", "eof", "closed"}, todo: Seq(Request), stream: Seq(Frame)]

(* `got` is the answer the caller's last call returned, if it returned one  *)
(* and not an error.                                                        *)
Caller == [pc: {"idle", "waiting", "reading", "dropping", "timedout", "resetting"},
           kind: {"command", "acquire", "none"}, conn: Conns \cup {None},
           got: {"none", "own", "wrong"}]

Watcher == [pc: {"none", "new", "reading", "extra", "dropping"}, conn: Conns \cup {None}]

NoWatcher == [pc |-> "none", conn |-> None]
NoCall == [pc |-> "idle", kind |-> "none", conn |-> None, got |-> "none"]
Closed == [state |-> "closed", todo |-> <<>>, stream |-> <<>>]

-----------------------------------------------------------------------------
(* A task that waits for data of connection k, other than those in `but`.   *)
Watching(ws, k) == \E w \in Watchers : ws[w].pc \in {"reading", "extra"} /\ ws[w].conn = k
Reading(k) == \E c \in Callers : caller[c].pc = "reading" /\ caller[c].conn = k

(* No broadcast keeps a task suspended, unless a WebSocket client is slow.  *)
Prompt ==
  \/ "slow_ws" \in Faults
  \/ /\ ~announcing
     /\ \A c \in Callers : caller[c].pc \notin {"dropping", "resetting"}
     /\ \A w \in Watchers : watcher[w].pc # "dropping"

HoldsLock(c) == lock # <<>> /\ Head(lock) = c
Granted(c) == Prompt /\ caller[c].pc = "waiting" /\ HoldsLock(c)
Awaiting(c) == Prompt /\ caller[c].pc = "reading"
At(w, pc) == Prompt /\ watcher[w].pc = pc
Release == lock' = Tail(lock)

(* Mutant: an ended call keeps its connection.                              *)
ReturnKeepsConn(c, got) == caller' = [caller EXCEPT ![c] = [@ EXCEPT !.pc = "idle", !.kind = "none", !.got = got]]

(* The call of c ends.                                                      *)
Return(c, got) == caller' = [caller EXCEPT ![c] = [NoCall EXCEPT !.got = got]]

(* The links once c no longer waits for what it requested.                  *)
Abandoned(c) ==
  [k \in Conns |->
     [link[k] EXCEPT
        !.todo = [i \in DOMAIN @ |-> IF @[i].by = c THEN [@[i] EXCEPT !.by = None] ELSE @[i]],
        !.stream = [i \in DOMAIN @ |-> IF @[i].to = c THEN [@[i] EXCEPT !.to = None] ELSE @[i]]]]

-----------------------------------------------------------------------------
(* The idle watcher's life, as its owners see it.                           *)

CancelIdle == IF idleTask = None THEN watcher ELSE [watcher EXCEPT ![idleTask] = NoWatcher]

(* A new watcher task replaces the old one, which is not cancelled here.    *)
StartIdleWatch ==
  LET free == {w \in Watchers : watcher[w].pc = "none"}
  IN /\ free # {}
     /\ idleTask' = CHOOSE w \in free : TRUE
     /\ watcher' = [watcher EXCEPT ![idleTask'].pc = "new"]

(* _teardown closes whatever connection is current by then.  What had       *)
(* arrived on it stays readable for a task that is reading.                 *)
Teardown(ws) ==
  /\ watcher' = IF idleTask = None THEN ws ELSE [ws EXCEPT ![idleTask] = NoWatcher]
  /\ idleTask' = None
  /\ writer' = None
  /\ link' = IF writer = None THEN link
             ELSE [link EXCEPT ![writer] =
                     IF Reading(writer) \/ Watching(ws, writer)
                       THEN [@ EXCEPT !.state = "closed", !.todo = <<>>] ELSE Closed]

-----------------------------------------------------------------------------
(* send_command and send_acquire.                                           *)

Ask(c) ==
  /\ caller[c].pc = "idle" /\ Prompt
  /\ \A k \in Conns : Len(link[k].todo) <= MaxStream
  /\ \E kind \in {"command"} \cup (IF c \in Acquirers THEN {"acquire"} ELSE {}) :
       caller' = [caller EXCEPT ![c] = [NoCall EXCEPT !.pc = "waiting", !.kind = kind]]
  /\ lock' = Append(lock, c)
  /\ UNCHANGED <<connected, writer, link, idleTask, watcher, announcing>>

(* The lock is granted, but there is no connection to use.                  *)
SendRefused(c) ==
  /\ Granted(c)
  /\ ~connected \/ writer = None
  /\ Return(c, "none")
  /\ Release
  /\ UNCHANGED <<connected, writer, link, idleTask, watcher, announcing>>

(* A read would meet another task that still waits for the same reader: an  *)
(* orphaned watcher, the watcher's second read, whose cancellation takes a  *)
(* turn of the loop to arrive, or, where wait_for does not spawn a task,    *)
(* the very watcher that was cancelled a moment ago.                        *)
Collides ==
  /\ link[writer].stream = <<>>
  /\ \/ Watching(CancelIdle, writer)
     \/ /\ idleTask # None
        /\ watcher[idleTask].conn = writer
        /\ watcher[idleTask].pc \in IF WaitForSpawns THEN {"extra"} ELSE {"reading", "extra"}

(* Mutant: the lock covers the writing, not the reading.                    *)
SendReleases(c) ==
  /\ Granted(c)
  /\ connected /\ writer # None
  /\ ~Collides
  /\ link' = [link EXCEPT ![writer].todo = Append(@, [by |-> c, kind |-> caller[c].kind])]
  /\ caller' = [caller EXCEPT ![c] = [@ EXCEPT !.pc = "reading", !.conn = writer]]
  /\ watcher' = CancelIdle
  /\ idleTask' = None
  /\ Release
  /\ UNCHANGED <<connected, writer, announcing>>

Send(c) ==
  /\ Granted(c)
  /\ connected /\ writer # None
  /\ ~Collides
  /\ link' = [link EXCEPT ![writer].todo = Append(@, [by |-> c, kind |-> caller[c].kind])]
  /\ caller' = [caller EXCEPT ![c] = [@ EXCEPT !.pc = "reading", !.conn = writer]]
  /\ watcher' = CancelIdle
  /\ idleTask' = None
  /\ UNCHANGED <<connected, writer, lock, announcing>>

(* The request is on its way, and the read raises a RuntimeError that       *)
(* neither disconnects nor starts the watcher again.                        *)
SendCollides(c) ==
  /\ Granted(c)
  /\ connected /\ writer # None
  /\ Collides
  /\ link' = [link EXCEPT ![writer].todo = Append(@, [by |-> None, kind |-> caller[c].kind])]
  /\ Return(c, "none")
  /\ watcher' = CancelIdle
  /\ idleTask' = None
  /\ Release
  /\ UNCHANGED <<connected, writer, announcing>>

Stream(c) == link[caller[c].conn].stream
(* What has arrived ends the read of c.                                     *)
Arrived(c) ==
  /\ Stream(c) # <<>>
  /\ \/ caller[c].kind = "command"
     \/ Head(Stream(c)).what = "error"
     \/ \E i \in DOMAIN Stream(c) : Stream(c)[i].what = "data"

Drained(c) == [link EXCEPT ![caller[c].conn].stream = <<>>]

(* Mutant: a command that succeeded leaves the client unwatched.            *)
TextAnsweredUnwatched(c) ==
  /\ Awaiting(c) /\ caller[c].kind = "command"
  /\ Stream(c) # <<>>
  /\ Return(c, "own")
  /\ link' = Drained(c)
  /\ Release
  /\ UNCHANGED <<connected, writer, announcing, idleTask, watcher>>

(* A text reply is whatever has arrived, up to a DONE at its end.           *)
TextAnswered(c) ==
  /\ Awaiting(c) /\ caller[c].kind = "command"
  /\ Stream(c) # <<>>
  /\ Return(c, CASE Head(Stream(c)).what = "error" -> "none"
                 [] Stream(c) = <<[to |-> c, what |-> "text"]>> -> "own"
                 [] OTHER -> "wrong")
  /\ link' = Drained(c)
  /\ Release
  /\ StartIdleWatch
  /\ UNCHANGED <<connected, writer, announcing>>

(* Acquisition data of the length expected is taken for the answer.         *)
DataAnswered(c) ==
  /\ Awaiting(c) /\ caller[c].kind = "acquire"
  /\ Len(Stream(c)) = 1 /\ Head(Stream(c)).what = "data"
  /\ Return(c, IF Head(Stream(c)).to = c THEN "own" ELSE "wrong")
  /\ link' = Drained(c)
  /\ Release
  /\ StartIdleWatch
  /\ UNCHANGED <<connected, writer, announcing>>

(* An ERROR in place of the data is raised past the code that would start   *)
(* the watcher again.                                                       *)
AcquireRefused(c) ==
  /\ Awaiting(c) /\ caller[c].kind = "acquire"
  /\ Stream(c) # <<>> /\ Head(Stream(c)).what = "error"
  /\ Return(c, "none")
  /\ link' = Drained(c)
  /\ Release
  /\ UNCHANGED <<connected, writer, idleTask, watcher, announcing>>

(* The caller's exchange failed, while it holds the lock: if the client is  *)
(* still connected, this caller disconnects it.                             *)
Fail(c, ls) ==
  /\ link' = ls
  /\ IF connected
       THEN /\ connected' = FALSE
            /\ caller' = [caller EXCEPT ![c] = [@ EXCEPT !.pc = "dropping", !.conn = None]]
            /\ UNCHANGED lock
       ELSE /\ Return(c, "none")
            /\ Release
            /\ UNCHANGED connected
  /\ UNCHANGED <<writer, idleTask, watcher, announcing>>

(* The data has the wrong length: it came with other frames.                *)
AcquireDesynced(c) ==
  /\ Awaiting(c) /\ caller[c].kind = "acquire"
  /\ Arrived(c) /\ Len(Stream(c)) > 1 /\ Head(Stream(c)).what # "error"
  /\ Fail(c, Drained(c))

(* Mutant: an exchange that failed leaves the connection up.                *)
ReadFailsStaysUp(c) ==
  /\ Awaiting(c)
  /\ \/ link[caller[c].conn].state # "open" /\ ~Arrived(c)
     \/ "silence" \in Faults
  /\ Return(c, "none")
  /\ Release
  /\ link' = Abandoned(c)
  /\ UNCHANGED <<connected, writer, idleTask, watcher, announcing>>

(* End of stream, a connection error, or no answer within read_timeout.     *)
ReadFails(c) ==
  /\ Awaiting(c)
  /\ \/ link[caller[c].conn].state # "open" /\ ~Arrived(c)
     \/ "silence" \in Faults
  /\ Fail(c, Abandoned(c))

(* Mutant: the lock is not given up after a failure.                        *)
DroppedKeepsLock(c) ==
  /\ caller[c].pc = "dropping"
  /\ Return(c, "none")
  /\ Teardown(watcher)
  /\ UNCHANGED <<connected, lock, announcing>>

(* The broadcast is over: the connection is closed, the lock given up.      *)
Dropped(c) ==
  /\ caller[c].pc = "dropping"
  /\ Return(c, "none")
  /\ Teardown(watcher)
  /\ Release
  /\ UNCHANGED <<connected, announcing>>

-----------------------------------------------------------------------------
(* A caller's own timeout cancels its call, then it resets the connection.  *)

(* Where wait_for runs the call in a task, the lock is free before the      *)
(* caller learns of the timeout; elsewhere the caller resets at once.       *)
TimeoutExpires(c) ==
  /\ "timeout" \in Faults /\ Prompt
  /\ caller[c].kind = "acquire" /\ caller[c].pc \in {"waiting", "reading", "dropping"}
  /\ \E i \in DOMAIN lock : lock[i] = c /\ lock' = RemoveAt(lock, i)
  /\ link' = Abandoned(c)
  /\ IF WaitForSpawns
       THEN /\ caller' = [caller EXCEPT ![c] = [NoCall EXCEPT !.pc = "timedout"]]
            /\ UNCHANGED connected
       ELSE /\ caller' = [caller EXCEPT ![c] =
                            [NoCall EXCEPT !.pc = IF connected THEN "resetting" ELSE "idle"]]
            /\ connected' = FALSE
  /\ UNCHANGED <<writer, idleTask, watcher, announcing>>

(* Mutant: the caller that timed out leaves the connection as it is.        *)
ResetSkipped(c) ==
  /\ caller[c].pc = "timedout" /\ Prompt
  /\ Return(c, "none")
  /\ UNCHANGED <<connected, writer, link, lock, idleTask, watcher, announcing>>

Reset(c) ==
  /\ caller[c].pc = "timedout" /\ Prompt
  /\ caller' = [caller EXCEPT ![c].pc = IF connected THEN "resetting" ELSE "idle"]
  /\ connected' = FALSE
  /\ UNCHANGED <<writer, link, lock, idleTask, watcher, announcing>>

ResetDone(c) ==
  /\ caller[c].pc = "resetting"
  /\ Return(c, "none")
  /\ Teardown(watcher)
  /\ UNCHANGED <<connected, lock, announcing>>

-----------------------------------------------------------------------------
(* _idle_watch.                                                             *)

(* The task starts on the reader that is current by then; it dies when some *)
(* other task already reads from it.                                        *)
WatcherStarts(w) ==
  /\ At(w, "new")
  /\ watcher' = [watcher EXCEPT ![w] =
                   IF writer = None \/ Reading(writer) \/ Watching(watcher, writer)
                     THEN NoWatcher
                     ELSE [pc |-> "reading", conn |-> writer]]
  /\ UNCHANGED <<connected, writer, link, lock, caller, idleTask, announcing>>

(* The watcher w disconnects the client, unless somebody else has.          *)
WatcherDrops(w) ==
  /\ connected' = FALSE
  /\ watcher' = [watcher EXCEPT ![w] =
                   IF connected THEN [pc |-> "dropping", conn |-> None] ELSE NoWatcher]

(* Something arrived while idle.  If it is a lone byte the watcher waits a  *)
(* moment for more, to have it in the log.                                  *)
WatcherReads(w) ==
  /\ At(w, "reading") /\ link[watcher[w].conn].stream # <<>>
  /\ link' = [link EXCEPT ![watcher[w].conn].stream = <<>>]
  /\ \/ watcher' = [watcher EXCEPT ![w].pc = "extra"] /\ UNCHANGED connected
     \/ WatcherDrops(w)
  /\ UNCHANGED <<writer, lock, caller, idleTask, announcing>>

ExtraRead(w) ==
  /\ At(w, "extra")
  /\ link' = [link EXCEPT ![watcher[w].conn].stream = <<>>]
  /\ WatcherDrops(w)
  /\ UNCHANGED <<writer, lock, caller, idleTask, announcing>>

WatcherSeesEnd(w) ==
  /\ At(w, "reading")
  /\ link[watcher[w].conn].state # "open" /\ link[watcher[w].conn].stream = <<>>
  /\ WatcherDrops(w)
  /\ UNCHANGED <<writer, link, lock, caller, idleTask, announcing>>

WatcherDropped(w) ==
  /\ watcher[w].pc = "dropping"
  /\ Teardown([watcher EXCEPT ![w] = NoWatcher])
  /\ UNCHANGED <<connected, lock, caller, announcing>>

-----------------------------------------------------------------------------
(* _maintain and _connect.                                                  *)

(* A connection was opened and its handshake went well: that takes several  *)
(* turns of the loop, in which every new watcher has started.               *)
Connect ==
  /\ ~connected /\ ~announcing /\ Prompt
  /\ \A w \in Watchers : watcher[w].pc # "new"
  /\ LET free == {k \in Conns : k # writer /\ ~Reading(k) /\ ~Watching(watcher, k)}
     IN /\ free # {}
        /\ writer' = CHOOSE k \in free : TRUE
        /\ link' = [link EXCEPT ![writer'] = [Closed EXCEPT !.state = "open"]]
  /\ connected' = TRUE
  /\ announcing' = TRUE
  /\ UNCHANGED <<lock, caller, idleTask, watcher>>

Announced ==
  /\ announcing
  /\ announcing' = FALSE
  /\ StartIdleWatch
  /\ UNCHANGED <<connected, writer, link, lock, caller>>

(* connect_timeout covers the broadcast too: it may expire there.           *)
AnnounceTimesOut ==
  /\ announcing /\ "hung_ws" \in Faults
  /\ announcing' = FALSE
  /\ UNCHANGED <<connected, writer, link, lock, caller, idleTask, watcher>>

-----------------------------------------------------------------------------
(* The camera.                                                              *)

CameraReplies(k) ==
  /\ link[k].state = "open" /\ link[k].todo # <<>>
  /\ LET request == Head(link[k].todo)
         answer == IF request.kind = "command" THEN "text" ELSE "data"
     IN \E what \in {answer} \cup (IF "error" \in Faults THEN {"error"} ELSE {}) :
          link' = [link EXCEPT ![k].todo = Tail(@),
                               ![k].stream = Append(@, [to |-> request.by, what |-> what])]
  /\ UNCHANGED <<connected, writer, lock, caller, idleTask, watcher, announcing>>

(* The camera closes the connection, and answers nothing more on it.        *)
PeerCloses(k) ==
  /\ "close" \in Faults /\ link[k].state = "open"
  /\ link' = [link EXCEPT ![k].state = "eof", ![k].todo = <<>>]
  /\ UNCHANGED <<connected, writer, lock, caller, idleTask, watcher, announcing>>

(* The camera says something nobody asked for.                              *)
StrayData(k) ==
  /\ "stray" \in Faults /\ link[k].state = "open" /\ Len(link[k].stream) < MaxStream
  /\ link' = [link EXCEPT ![k].stream = Append(@, [to |-> None, what |-> "text"])]
  /\ UNCHANGED <<connected, writer, lock, caller, idleTask, watcher, announcing>>

-----------------------------------------------------------------------------
Init ==
  /\ connected = FALSE /\ writer = None /\ announcing = FALSE
  /\ link = [k \in Conns |-> Closed]
  /\ lock = <<>>
  /\ caller = [c \in Callers |-> NoCall]
  /\ idleTask = None
  /\ watcher = [w \in Watchers |-> NoWatcher]

(* A call goes on, and its end after a disconnection.                       *)
CallProceeds(c) ==
  \/ SendRefused(c) \/ Send(c) \/ SendCollides(c)
  \/ TextAnswered(c) \/ DataAnswered(c) \/ AcquireRefused(c) \/ AcquireDesynced(c)
  \/ ReadFails(c) \/ Reset(c)

CallFinishes(c) == Dropped(c) \/ ResetDone(c)

Watch(w) == WatcherStarts(w) \/ WatcherReads(w) \/ ExtraRead(w) \/ WatcherSeesEnd(w)

Next ==
  \/ \E c \in Callers : Ask(c) \/ CallProceeds(c) \/ CallFinishes(c) \/ TimeoutExpires(c)
  \/ \E w \in Watchers : Watch(w) \/ WatcherDropped(w)
  \/ Connect \/ Announced \/ AnnounceTimesOut
  \/ \E k \in Conns : CameraReplies(k) \/ PeerCloses(k) \/ StrayData(k)

(* The event loop runs what is runnable, the camera replies or the read     *)
(* timeout expires, and the maintenance loop tries until it is connected.   *)
(* A caller that was granted the lock is in the loop's ready queue, and no  *)
(* number of disconnections and reconnections overtakes it there: strong    *)
(* fairness, since a broadcast that takes no time separates two of them.    *)
Fairness ==
  /\ \A c \in Callers : /\ SF_clientVars(CallProceeds(c))
                        /\ WF_clientVars(CallFinishes(c))
  /\ \A w \in Watchers : /\ SF_clientVars(Watch(w))
                         /\ WF_clientVars(WatcherDropped(w))
  /\ WF_clientVars(Connect) /\ WF_clientVars(Announced)
  /\ \A k \in Conns : WF_clientVars(CameraReplies(k))

Spec == Init /\ [][Next]_clientVars /\ Fairness

-----------------------------------------------------------------------------
(* Properties.                                                              *)

(* The variables have the values the code gives them, and exactly the tasks *)
(* that wait for data of a connection have one.                             *)
TypeOK ==
  /\ connected \in BOOLEAN
  /\ writer \in Conns \cup {None}
  /\ link \in [Conns -> Link]
  /\ lock \in Seq(Callers)
  /\ caller \in [Callers -> Caller]
  /\ idleTask \in Watchers \cup {None}
  /\ watcher \in [Watchers -> Watcher]
  /\ announcing \in BOOLEAN
  /\ \A c \in Callers : caller[c].conn # None <=> caller[c].pc = "reading"
  /\ \A w \in Watchers : watcher[w].conn # None <=> watcher[w].pc \in {"reading", "extra"}

(* No call ever takes the answer to another request for its own.            *)
AnswersAreOwn == \A c \in Callers : caller[c].got # "wrong"

(* Between exchanges the stream is in step: nothing asked and unanswered,   *)
(* nothing answered and unread (the strict lockstep of client.py:9-10).     *)
Framed ==
  connected /\ writer # None /\ ~Reading(writer)
    => link[writer].todo = <<>> /\ link[writer].stream = <<>>

(* Only one task at a time waits for the data of a connection, the camera   *)
(* has at most one request of it, and the lock's holder is the one reading. *)
OneExchange ==
  \A c \in Callers :
    caller[c].pc = "reading" =>
      /\ HoldsLock(c)
      /\ ~Watching(watcher, caller[c].conn)
      /\ Len(link[caller[c].conn].todo) + Len(Stream(c)) <= 1

(* A client that says it is connected has a connection to send on; without  *)
(* one it would refuse every command and never reconnect.                   *)
ConnectedHasStream == connected => writer # None

(* The vendor protocol is kept in strict lockstep (client.py:9-10), during  *)
(* exchanges and between them, over disconnections and reconnections that   *)
(* other tasks are suspended in.                                            *)
Lockstep == Framed /\ OneExchange /\ ConnectedHasStream

(* Every call ends, with an answer or an error.                             *)
CallsEnd == \A c \in Callers : caller[c].pc # "idle" ~> caller[c].pc = "idle"

(* A lost connection is noticed, also when nobody issues a command: some    *)
(* watcher guards the idle connection (client.py:3-6).                      *)
LossIsNoticed ==
  \A k \in Conns : connected /\ writer = k /\ link[k].state = "eof" ~> ~(connected /\ writer = k)

(* A stream that is out of step is dropped or comes into step again.        *)
Heals == ~Framed ~> Framed
=============================================================================
