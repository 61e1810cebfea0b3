------------------------ MODULE ProtocolClientProofs ------------------------
(***************************************************************************)
(* Proofs about the protocol client: its type invariant under every fault, *)
(* and, under the faults that keep requests and replies paired, the strict *)
(* lockstep and that no call takes another's answer.                       *)
(***************************************************************************)
EXTENDS ProtocolClient, SequenceTheorems, TLAPS

-----------------------------------------------------------------------------
(* Types.                                                                   *)

(* A call under way is a command or an acquisition, and one that reads has  *)
(* a connection.                                                            *)
CallerOK(r) ==
  /\ r \in Caller
  /\ r.conn # None <=> r.pc = "reading"
  /\ r.pc \in {"waiting", "reading"} => r.kind # "none"

WatcherOK(r) ==
  /\ r \in Watcher
  /\ r.conn # None <=> r.pc \in {"reading", "extra"}

CallersOK(cs) == /\ cs = [c \in Callers |-> cs[c]]
                 /\ \A c \in Callers : CallerOK(cs[c])
WatchersOK(ws) == /\ ws = [w \in Watchers |-> ws[w]]
                  /\ \A w \in Watchers : WatcherOK(ws[w])

(* TypeOK, with the kind of a call that TypeOK does not speak of.           *)
Types ==
  /\ connected \in BOOLEAN
  /\ writer \in Conns \cup {None}
  /\ link \in [Conns -> Link]
  /\ lock \in Seq(Callers)
  /\ CallersOK(caller)
  /\ idleTask \in Watchers \cup {None}
  /\ WatchersOK(watcher)
  /\ announcing \in BOOLEAN

(* Types is TypeOK and more.                                                *)
LEMMA TypesAreTypes == Types => TypeOK
  BY DEF Types, TypeOK, CallersOK, WatchersOK, CallerOK, WatcherOK

(* The records and sequences the steps build have their types.              *)
LEMMA RecordTypes ==
  ASSUME ClientAssumption
  PROVE  /\ Closed \in Link
         /\ WatcherOK(NoWatcher)
         /\ \A got \in {"none", "own", "wrong"} : CallerOK([NoCall EXCEPT !.got = got])
  <1>1. None \in Callers \cup {None} /\ None \in Conns \cup {None}
    OBVIOUS
  <1>2. <<>> \in Seq(Request) /\ <<>> \in Seq(Frame)
    OBVIOUS
  <1>3. Closed \in Link
    BY <1>2 DEF Closed, Link
  <1>4. WatcherOK(NoWatcher)
    BY <1>1 DEF WatcherOK, NoWatcher, Watcher
  <1>5. ASSUME NEW got \in {"none", "own", "wrong"}
        PROVE  CallerOK([NoCall EXCEPT !.got = got])
    BY <1>1, <1>5 DEF CallerOK, NoCall, Caller
  <1>6. QED
    BY <1>3, <1>4, <1>5

(* One caller, or one watcher, gets a record of its type.                   *)
LEMMA OneChanges ==
  /\ \A cs, c, r : CallersOK(cs) /\ CallerOK(r) => CallersOK([cs EXCEPT ![c] = r])
  /\ \A ws, w, r : WatchersOK(ws) /\ WatcherOK(r) => WatchersOK([ws EXCEPT ![w] = r])
  BY DEF CallersOK, WatchersOK

(* What a caller gives up waiting for stays on the links, for nobody.       *)
LEMMA AbandonedTypes ==
  ASSUME Types, NEW c \in Callers
  PROVE  Abandoned(c) \in [Conns -> Link]
  <1> DEFINE todo(k) == [i \in DOMAIN link[k].todo |->
                           IF link[k].todo[i].by = c THEN [link[k].todo[i] EXCEPT !.by = None]
                                                     ELSE link[k].todo[i]]
             stream(k) == [i \in DOMAIN link[k].stream |->
                           IF link[k].stream[i].to = c THEN [link[k].stream[i] EXCEPT !.to = None]
                                                       ELSE link[k].stream[i]]
  <1>1. ASSUME NEW k \in Conns
        PROVE  /\ link[k] \in Link
               /\ todo(k) \in Seq(Request)
               /\ stream(k) \in Seq(Frame)
    <2>1. link[k] \in Link
      BY <1>1 DEF Types
    <2>2. link[k].todo \in Seq(Request) /\ link[k].stream \in Seq(Frame)
      BY <2>1 DEF Link
    <2>3. todo(k) \in Seq(Request)
      <3>1. ASSUME NEW i \in 1..Len(link[k].todo)
            PROVE  todo(k)[i] \in Request
        <4>1. link[k].todo[i] \in Request /\ i \in DOMAIN link[k].todo
          BY <2>2, <3>1
        <4>2. QED
          BY <4>1 DEF Request
      <3>2. DOMAIN link[k].todo = 1..Len(link[k].todo) /\ Len(link[k].todo) \in Nat
        BY <2>2
      <3>3. todo(k) = [i \in 1..Len(link[k].todo) |-> todo(k)[i]]
        BY <3>2
      <3> HIDE DEF todo
      <3>4. QED
        BY <3>1, <3>2, <3>3
    <2>4. stream(k) \in Seq(Frame)
      <3>1. ASSUME NEW i \in 1..Len(link[k].stream)
            PROVE  stream(k)[i] \in Frame
        <4>1. link[k].stream[i] \in Frame /\ i \in DOMAIN link[k].stream
          BY <2>2, <3>1
        <4>2. QED
          BY <4>1 DEF Frame
      <3>2. DOMAIN link[k].stream = 1..Len(link[k].stream) /\ Len(link[k].stream) \in Nat
        BY <2>2
      <3>3. stream(k) = [i \in 1..Len(link[k].stream) |-> stream(k)[i]]
        BY <3>2
      <3> HIDE DEF stream
      <3>4. QED
        BY <3>1, <3>2, <3>3
    <2>5. QED
      BY <2>1, <2>3, <2>4
  <1>2. Abandoned(c) = [k \in Conns |-> [link[k] EXCEPT !.todo = todo(k), !.stream = stream(k)]]
    BY DEF Abandoned
  <1> HIDE DEF todo, stream
  <1>3. ASSUME NEW k \in Conns
        PROVE  [link[k] EXCEPT !.todo = todo(k), !.stream = stream(k)] \in Link
    BY <1>1, <1>3 DEF Link
  <1>4. QED
    BY <1>2, <1>3

(* A cancelled watcher, a new one and one that disconnects are watchers.    *)
LEMMA CancelTypes == ClientAssumption /\ Types => WatchersOK(CancelIdle)
  BY RecordTypes, OneChanges DEF CancelIdle, Types

LEMMA StartTypes ==
  ASSUME Types, StartIdleWatch
  PROVE  /\ idleTask' \in Watchers /\ watcher[idleTask'].pc = "none"
         /\ WatchersOK(watcher')
  <1>1. idleTask' \in Watchers /\ watcher[idleTask'].pc = "none"
    BY DEF StartIdleWatch
  <1>2. WatcherOK([watcher[idleTask'] EXCEPT !.pc = "new"])
    BY <1>1 DEF Types, WatchersOK, WatcherOK, Watcher
  <1>3. watcher' = [watcher EXCEPT ![idleTask'] = [watcher[idleTask'] EXCEPT !.pc = "new"]]
    BY DEF StartIdleWatch
  <1>4. WatchersOK(watcher)
    BY DEF Types
  <1>5. QED
    BY <1>1, <1>2, <1>3, <1>4, OneChanges

LEMMA DropTypes ==
  ASSUME ClientAssumption, Types, NEW w \in Watchers, WatcherDrops(w)
  PROVE  connected' \in BOOLEAN /\ WatchersOK(watcher')
  <1>1. WatcherOK([pc |-> "dropping", conn |-> None])
    BY DEF WatcherOK, Watcher
  <1>2. QED
    BY <1>1, RecordTypes, OneChanges DEF WatcherDrops, Types

LEMMA TeardownTypes ==
  ASSUME ClientAssumption, Types, NEW ws, WatchersOK(ws), Teardown(ws)
  PROVE  /\ WatchersOK(watcher')
         /\ idleTask' \in Watchers \cup {None} /\ writer' \in Conns \cup {None}
         /\ link' \in [Conns -> Link]
  <1>1. WatchersOK(watcher') /\ idleTask' = None /\ writer' = None
    BY RecordTypes, OneChanges DEF Teardown
  <1>2. ASSUME NEW k \in Conns
        PROVE  [link[k] EXCEPT !.state = "closed", !.todo = <<>>] \in Link
    <2>1. link[k] \in Link /\ <<>> \in Seq(Request)
      BY <1>2 DEF Types
    <2>2. QED
      BY <2>1 DEF Link
  <1>3. Closed \in Link /\ link \in [Conns -> Link] /\ writer \in Conns \cup {None}
    BY RecordTypes DEF Types
  <1>4. CASE writer = None
    BY <1>1, <1>3, <1>4 DEF Teardown
  <1>5. CASE writer # None
    <2>1. \E r \in Link : link' = [link EXCEPT ![writer] = r]
      <3>1. CASE Reading(writer) \/ Watching(ws, writer)
        <4>1. link' = [link EXCEPT ![writer] =
                         [link[writer] EXCEPT !.state = "closed", !.todo = <<>>]]
          BY <1>5, <3>1 DEF Teardown
        <4>2. QED
          BY <4>1, <1>2, <1>3, <1>5
      <3>2. CASE ~(Reading(writer) \/ Watching(ws, writer))
        BY <1>3, <1>5, <3>2 DEF Teardown
      <3>3. QED
        BY <3>1, <3>2
    <2>2. QED
      BY <1>1, <1>3, <2>1
  <1>6. QED
    BY <1>4, <1>5

(* A sequence without its head, or without the place of one caller.         *)
LEMMA LockTypes ==
  ASSUME lock \in Seq(Callers)
  PROVE  /\ lock # <<>> => Tail(lock) \in Seq(Callers)
         /\ \A i \in DOMAIN lock : RemoveAt(lock, i) \in Seq(Callers)
  BY DEF RemoveAt

(* A link with a longer or a shorter stream, or list of requests.           *)
LEMMA LinkTypes ==
  ASSUME NEW l \in Link
  PROVE  /\ [l EXCEPT !.stream = <<>>] \in Link
         /\ [l EXCEPT !.state = "eof", !.todo = <<>>] \in Link
         /\ \A f \in Frame : [l EXCEPT !.stream = Append(@, f)] \in Link
         /\ \A r \in Request : [l EXCEPT !.todo = Append(@, r)] \in Link
         /\ l.todo # <<>> => \A f \in Frame :
              [l EXCEPT !.todo = Tail(@), !.stream = Append(@, f)] \in Link
  <1>1. l.todo \in Seq(Request) /\ l.stream \in Seq(Frame)
    BY DEF Link
  <1>2. /\ <<>> \in Seq(Request) /\ <<>> \in Seq(Frame)
        /\ \A f \in Frame : Append(l.stream, f) \in Seq(Frame)
        /\ \A r \in Request : Append(l.todo, r) \in Seq(Request)
        /\ l.todo # <<>> => Tail(l.todo) \in Seq(Request)
    BY <1>1
  <1>3. QED
    BY <1>2 DEF Link

(* The call of c ends, whatever it returned.                                *)
LEMMA ReturnTypes ==
  ASSUME ClientAssumption, Types, NEW c \in Callers,
         NEW got \in {"none", "own", "wrong"}, Return(c, got)
  PROVE  CallersOK(caller')
  BY RecordTypes, OneChanges DEF Return, Types

(* A read that failed: the links change with it.                            *)
LEMMA FailTypes ==
  ASSUME ClientAssumption, Types, NEW c \in Callers, lock # <<>>,
         NEW ls \in [Conns -> Link], Fail(c, ls)
  PROVE  Types'
  <1>1. CASE connected
    <2> DEFINE r == [caller[c] EXCEPT !.pc = "dropping", !.conn = None]
    <2>1. CallerOK(r) /\ caller' = [caller EXCEPT ![c] = r]
      BY <1>1 DEF Fail, Types, CallersOK, CallerOK, Caller
    <2> HIDE DEF r
    <2>2. CallersOK(caller')
      BY <2>1, OneChanges DEF Types
    <2>3. QED
      BY <1>1, <2>2 DEF Fail, Types
  <1>2. CASE ~connected
    <2>1. CallersOK(caller')
      BY <1>2, ReturnTypes DEF Fail
    <2>2. QED
      BY <1>2, <2>1, LockTypes DEF Fail, Types, Release
  <1>3. QED
    BY <1>1, <1>2

(* What a call does keeps the types.                                        *)
LEMMA CallTypes ==
  ASSUME ClientAssumption, Types, NEW c \in Callers,
         \/ Ask(c) \/ CallProceeds(c) \/ CallFinishes(c) \/ TimeoutExpires(c),
         caller[c].pc \in {"reading", "dropping"} => lock # <<>>
  PROVE  Types'
  <1> USE DEF Types
  <1>1. CallerOK(caller[c]) /\ Closed \in Link
    BY RecordTypes DEF CallersOK
  <1>2. WatchersOK(CancelIdle)
    BY CancelTypes
  <1>3. caller[c].pc = "reading" =>
          /\ caller[c].conn \in Conns /\ link[caller[c].conn] \in Link
          /\ Drained(c) \in [Conns -> Link]
    BY <1>1, LinkTypes DEF CallerOK, Caller, Drained
  <1>4. CASE Ask(c)
    <2>1. \A kind \in {"command", "acquire"} :
            CallerOK([NoCall EXCEPT !.pc = "waiting", !.kind = kind])
      BY DEF CallerOK, Caller, NoCall
    <2>2. PICK kind \in {"command", "acquire"} :
            caller' = [caller EXCEPT ![c] = [NoCall EXCEPT !.pc = "waiting", !.kind = kind]]
      BY <1>4 DEF Ask
    <2> DEFINE r == [NoCall EXCEPT !.pc = "waiting", !.kind = kind]
    <2>3. CallerOK(r) /\ caller' = [caller EXCEPT ![c] = r]
      BY <2>1, <2>2
    <2> HIDE DEF r
    <2>4. CallersOK(caller')
      BY <2>3, OneChanges
    <2>5. /\ lock' = Append(lock, c)
          /\ UNCHANGED <<connected, writer, link, idleTask, watcher, announcing>>
      BY <1>4 DEF Ask
    <2>6. QED
      BY <2>4, <2>5
  <1>5. CASE SendRefused(c)
    BY <1>5, ReturnTypes, LockTypes DEF SendRefused, Granted, HoldsLock, Release
  <1>6. CASE Send(c)
    <2>1. /\ writer \in Conns /\ link[writer] \in Link
          /\ [by |-> c, kind |-> caller[c].kind] \in Request
      BY <1>1, <1>6 DEF Send, Granted, CallerOK, Caller, Request
    <2> DEFINE r == [caller[c] EXCEPT !.pc = "reading", !.conn = writer]
    <2>2. CallerOK(r) /\ caller' = [caller EXCEPT ![c] = r]
      BY <1>1, <1>6, <2>1 DEF Send, Granted, CallerOK, Caller, ClientAssumption
    <2> HIDE DEF r
    <2>3. CallersOK(caller')
      BY <2>2, OneChanges
    <2>4. link' \in [Conns -> Link]
      BY <1>6, <2>1, LinkTypes DEF Send
    <2>5. WatchersOK(watcher') /\ idleTask' = None
      BY <1>2, <1>6 DEF Send
    <2>6. UNCHANGED <<connected, writer, lock, announcing>>
      BY <1>6 DEF Send
    <2>7. QED
      BY <2>3, <2>4, <2>5, <2>6
  <1>7. CASE SendCollides(c)
    <2>1. /\ writer \in Conns /\ link[writer] \in Link
          /\ [by |-> None, kind |-> caller[c].kind] \in Request
      BY <1>1, <1>7 DEF SendCollides, Granted, CallerOK, Caller, Request
    <2>2. CallersOK(caller')
      BY <1>7, ReturnTypes DEF SendCollides
    <2>3. link' \in [Conns -> Link]
      BY <1>7, <2>1, LinkTypes DEF SendCollides
    <2>4. lock' \in Seq(Callers)
      BY <1>7, LockTypes DEF SendCollides, Granted, HoldsLock, Release
    <2>5. QED
      BY <1>2, <1>7, <2>2, <2>3, <2>4 DEF SendCollides
  <1>8. CASE TextAnswered(c)
    <2>1. caller[c].pc = "reading" /\ StartIdleWatch
      BY <1>8 DEF TextAnswered, Awaiting
    <2>2. PICK got \in {"none", "own", "wrong"} : Return(c, got)
      BY <1>8 DEF TextAnswered
    <2>3. CallersOK(caller') /\ lock' \in Seq(Callers)
      BY <1>8, <2>1, <2>2, ReturnTypes, LockTypes DEF TextAnswered, Release
    <2>4. QED
      BY <1>3, <1>8, <2>1, <2>3, StartTypes DEF TextAnswered
  <1>9. CASE DataAnswered(c)
    <2>1. caller[c].pc = "reading" /\ StartIdleWatch
      BY <1>9 DEF DataAnswered, Awaiting
    <2>2. PICK got \in {"none", "own", "wrong"} : Return(c, got)
      BY <1>9 DEF DataAnswered
    <2>3. CallersOK(caller') /\ lock' \in Seq(Callers)
      BY <1>9, <2>1, <2>2, ReturnTypes, LockTypes DEF DataAnswered, Release
    <2>4. QED
      BY <1>3, <1>9, <2>1, <2>3, StartTypes DEF DataAnswered
  <1>10. CASE AcquireRefused(c)
    <2>1. caller[c].pc = "reading"
      BY <1>10 DEF AcquireRefused, Awaiting
    <2>2. CallersOK(caller') /\ lock' \in Seq(Callers)
      BY <1>10, <2>1, ReturnTypes, LockTypes DEF AcquireRefused, Release
    <2>3. QED
      BY <1>3, <1>10, <2>1, <2>2 DEF AcquireRefused
  <1>11. CASE AcquireDesynced(c)
    BY <1>3, <1>11, FailTypes DEF AcquireDesynced, Awaiting
  <1>12. CASE ReadFails(c)
    BY <1>12, AbandonedTypes, FailTypes DEF ReadFails, Awaiting
  <1>13. CASE Reset(c)
    <2> DEFINE r == [caller[c] EXCEPT !.pc = IF connected THEN "resetting" ELSE "idle"]
    <2>1. CallerOK(r)
      BY <1>1, <1>13 DEF Reset, CallerOK, Caller
    <2>2. caller' = [caller EXCEPT ![c] = r]
      BY <1>13 DEF Reset
    <2> HIDE DEF r
    <2>3. CallersOK(caller')
      BY <2>1, <2>2, OneChanges
    <2>4. QED
      BY <1>13, <2>3 DEF Reset
  <1>14. CASE Dropped(c)
    BY <1>14, ReturnTypes, TeardownTypes, LockTypes DEF Dropped, Release
  <1>15. CASE ResetDone(c)
    BY <1>15, ReturnTypes, TeardownTypes DEF ResetDone
  <1>16. CASE TimeoutExpires(c)
    <2>1. PICK pc \in {"timedout", "resetting", "idle"} :
            caller' = [caller EXCEPT ![c] = [NoCall EXCEPT !.pc = pc]]
      BY <1>16 DEF TimeoutExpires
    <2> DEFINE r == [NoCall EXCEPT !.pc = pc]
    <2>2. CallerOK(r) /\ caller' = [caller EXCEPT ![c] = r]
      BY <2>1 DEF CallerOK, Caller, NoCall
    <2> HIDE DEF r
    <2>3. CallersOK(caller')
      BY <2>2, OneChanges
    <2>4. QED
      BY <1>16, <2>3, AbandonedTypes, LockTypes DEF TimeoutExpires
  <1>17. QED
    BY <1>4, <1>5, <1>6, <1>7, <1>8, <1>9, <1>10, <1>11, <1>12, <1>13, <1>14, <1>15, <1>16
       DEF CallProceeds, CallFinishes

(* What a watcher does keeps the types.                                     *)
LEMMA WatchTypes ==
  ASSUME ClientAssumption, Types, NEW w \in Watchers, Watch(w) \/ WatcherDropped(w)
  PROVE  Types'
  <1> USE DEF Types
  <1>1. WatcherOK(watcher[w])
    BY DEF WatchersOK
  <1>2. watcher[w].pc \in {"reading", "extra"} =>
          [link EXCEPT ![watcher[w].conn].stream = <<>>] \in [Conns -> Link]
    <2>1. watcher[w].pc \in {"reading", "extra"} =>
            watcher[w].conn \in Conns /\ link[watcher[w].conn] \in Link
      BY <1>1 DEF WatcherOK, Watcher
    <2>2. QED
      BY <2>1, LinkTypes
  <1>3. CASE WatcherStarts(w)
    <2>1. writer # None => WatcherOK([pc |-> "reading", conn |-> writer])
      BY DEF WatcherOK, Watcher
    <2>2. WatchersOK(watcher')
      BY <1>3, <2>1, RecordTypes, OneChanges DEF WatcherStarts
    <2>3. QED
      BY <1>3, <2>2 DEF WatcherStarts
  <1>4. CASE WatcherReads(w)
    <2>1. WatchersOK(watcher') /\ connected' \in BOOLEAN
      <3> DEFINE r == [watcher[w] EXCEPT !.pc = "extra"]
      <3>1. CASE WatcherDrops(w)
        BY <3>1, DropTypes
      <3>2. CASE watcher' = [watcher EXCEPT ![w].pc = "extra"] /\ UNCHANGED connected
        <4>1. WatcherOK(r) /\ watcher' = [watcher EXCEPT ![w] = r]
          BY <1>1, <1>4, <3>2 DEF WatcherReads, At, WatcherOK, Watcher
        <4> HIDE DEF r
        <4>2. WatchersOK([watcher EXCEPT ![w] = r])
          BY <4>1, OneChanges
        <4>3. QED
          BY <3>2, <4>1, <4>2
      <3>3. \/ watcher' = [watcher EXCEPT ![w].pc = "extra"] /\ UNCHANGED connected
            \/ WatcherDrops(w)
        BY <1>4 DEF WatcherReads
      <3> HIDE DEF r, Types
      <3>4. QED
        BY <3>1, <3>2, <3>3
    <2>2. QED
      BY <1>2, <1>4, <2>1 DEF WatcherReads, At
  <1>5. CASE ExtraRead(w)
    BY <1>2, <1>5, DropTypes DEF ExtraRead, At
  <1>6. CASE WatcherSeesEnd(w)
    BY <1>6, DropTypes DEF WatcherSeesEnd
  <1>7. CASE WatcherDropped(w)
    <2>1. WatchersOK([watcher EXCEPT ![w] = NoWatcher])
      BY RecordTypes, OneChanges
    <2>2. QED
      BY <1>7, <2>1, TeardownTypes DEF WatcherDropped
  <1>8. QED
    BY <1>3, <1>4, <1>5, <1>6, <1>7 DEF Watch

(* So do the maintenance loop and the camera.                               *)
LEMMA LinkStepTypes ==
  ASSUME ClientAssumption, Types,
         \/ Connect \/ Announced \/ AnnounceTimesOut
         \/ \E k \in Conns : CameraReplies(k) \/ PeerCloses(k) \/ StrayData(k)
  PROVE  Types'
  <1> USE DEF Types
  <1>1. CASE Connect
    <2>1. writer' \in Conns /\ \E l \in {[Closed EXCEPT !.state = "open"]} : link' = [link EXCEPT ![writer'] = l]
      BY <1>1 DEF Connect
    <2>2. [Closed EXCEPT !.state = "open"] \in Link
      BY RecordTypes DEF Closed, Link
    <2>3. link' \in [Conns -> Link]
      BY <2>1, <2>2
    <2>4. QED
      BY <1>1, <2>1, <2>3 DEF Connect
  <1>2. CASE Announced
    BY <1>2, StartTypes DEF Announced
  <1>3. CASE AnnounceTimesOut
    BY <1>3 DEF AnnounceTimesOut
  <1>4. ASSUME NEW k \in Conns, CameraReplies(k)
        PROVE  Types'
    <2>1. link[k] \in Link /\ link[k].todo # <<>> /\ Head(link[k].todo) \in Request
      BY <1>4 DEF CameraReplies, Link
    <2>2. PICK what \in {"text", "data", "error"} :
            link' = [link EXCEPT
                       ![k].todo = Tail(@),
                       ![k].stream = Append(@, [to |-> Head(link[k].todo).by, what |-> what])]
      BY <1>4 DEF CameraReplies
    <2> DEFINE f == [to |-> Head(link[k].todo).by, what |-> what]
               l == [link[k] EXCEPT !.todo = Tail(@), !.stream = Append(@, f)]
    <2>3. f \in Frame
      BY <2>1 DEF Request, Frame
    <2>4. link' = [link EXCEPT ![k] = l]
      BY <2>2
    <2> HIDE DEF f
    <2>5. l \in Link
      BY <2>1, <2>3, LinkTypes
    <2> HIDE DEF l
    <2>6. link' \in [Conns -> Link]
      BY <2>4, <2>5
    <2>7. QED
      BY <1>4, <2>6 DEF CameraReplies
  <1>5. ASSUME NEW k \in Conns, PeerCloses(k)
        PROVE  Types'
    BY <1>5, LinkTypes DEF PeerCloses
  <1>6. ASSUME NEW k \in Conns, StrayData(k)
        PROVE  Types'
    <2>1. [to |-> None, what |-> "text"] \in Frame
      BY DEF Frame
    <2>2. link' \in [Conns -> Link]
      BY <1>6, <2>1, LinkTypes DEF StrayData
    <2>3. QED
      BY <1>6, <2>2 DEF StrayData
  <1>7. QED
    BY <1>1, <1>2, <1>3, <1>4, <1>5, <1>6

-----------------------------------------------------------------------------
(* The command lock.                                                        *)

(* A caller is in the lock at most once, everybody in it is in a call, and  *)
(* whoever reads or disconnects within a call holds it.                     *)
LockFits ==
  /\ \A i, j \in DOMAIN lock : lock[i] = lock[j] => i = j
  /\ \A i \in DOMAIN lock : caller[lock[i]].pc \in {"waiting", "reading", "dropping"}
  /\ \A c \in Callers : caller[c].pc \in {"reading", "dropping"} => HoldsLock(c)

(* The holder gives the lock up.                                            *)
LEMMA ReleaseFits ==
  ASSUME Types, LockFits, NEW c \in Callers, HoldsLock(c), Release,
         NEW r, caller' = [caller EXCEPT ![c] = r], r.pc \notin {"reading", "dropping"}
  PROVE  LockFits'
  <1>1. /\ lock \in Seq(Callers) /\ lock # <<>> /\ lock[1] = c
        /\ lock' = Tail(lock)
        /\ \A d \in Callers : d # c => caller'[d] = caller[d]
        /\ caller'[c] = r
    BY DEF Types, CallersOK, HoldsLock, Release
  <1>2. /\ DOMAIN lock = 1..Len(lock) /\ DOMAIN lock' = 1..(Len(lock) - 1)
        /\ Len(lock) \in Nat \ {0}
        /\ \A i \in DOMAIN lock' : lock'[i] = lock[i + 1] /\ i + 1 \in DOMAIN lock
    BY <1>1
  <1>3. \A i \in DOMAIN lock' : lock'[i] \in Callers /\ lock'[i] # c
    BY <1>1, <1>2 DEF LockFits
  <1>4. \A i, j \in DOMAIN lock' : lock'[i] = lock'[j] => i = j
    BY <1>2 DEF LockFits
  <1>5. \A i \in DOMAIN lock' : caller'[lock'[i]].pc \in {"waiting", "reading", "dropping"}
    BY <1>1, <1>2, <1>3 DEF LockFits
  <1>6. \A d \in Callers : d # c => caller[d].pc \notin {"reading", "dropping"}
    BY <1>1 DEF LockFits, HoldsLock
  <1>7. \A d \in Callers : caller'[d].pc \notin {"reading", "dropping"}
    BY <1>1, <1>6
  <1>8. QED
    BY <1>4, <1>5, <1>7 DEF LockFits

(* The lock and the callers stay in step when the lock stays as it is and   *)
(* no caller but its holder begins to read or to disconnect.                *)
LEMMA HeldFits ==
  ASSUME Types, LockFits, UNCHANGED lock, NEW c \in Callers,
         NEW r, caller' = [caller EXCEPT ![c] = r],
         \/ HoldsLock(c) /\ r.pc \in {"waiting", "reading", "dropping"}
         \/ /\ caller[c].pc \notin {"waiting", "reading", "dropping"}
            /\ r.pc \notin {"reading", "dropping"}
  PROVE  LockFits'
  <1>1. /\ lock \in Seq(Callers) /\ lock' = lock
        /\ \A d \in Callers : d # c => caller'[d] = caller[d]
        /\ caller'[c] = r
    BY DEF Types, CallersOK
  <1>2. \A i \in DOMAIN lock : lock[i] \in Callers
    BY <1>1
  <1>3. \A i \in DOMAIN lock : caller'[lock[i]].pc \in {"waiting", "reading", "dropping"}
    BY <1>1, <1>2 DEF LockFits
  <1>4. \A d \in Callers : caller'[d].pc \in {"reading", "dropping"} => HoldsLock(d)
    BY <1>1 DEF LockFits
  <1>5. QED
    BY <1>1, <1>3, <1>4 DEF LockFits, HoldsLock

(* A caller queues up.                                                      *)
LEMMA AskFits ==
  ASSUME Types, LockFits, NEW c \in Callers, Ask(c)
  PROVE  LockFits'
  <1>1. /\ lock \in Seq(Callers) /\ lock' = Append(lock, c)
        /\ \A d \in Callers : d # c => caller'[d] = caller[d]
        /\ caller'[c].pc = "waiting" /\ caller[c].pc = "idle"
    BY DEF Types, CallersOK, Ask, NoCall
  <1>2. /\ DOMAIN lock = 1..Len(lock) /\ DOMAIN lock' = 1..(Len(lock) + 1)
        /\ Len(lock) \in Nat
        /\ \A i \in DOMAIN lock : lock'[i] = lock[i] /\ lock[i] \in Callers
        /\ lock'[Len(lock) + 1] = c
    BY <1>1
  <1>3. \A i \in DOMAIN lock : lock[i] # c
    BY <1>1 DEF LockFits
  <1>4. \A i \in DOMAIN lock' : i \in DOMAIN lock \/ i = Len(lock) + 1
    BY <1>2
  <1>5. \A i, j \in DOMAIN lock' : lock'[i] = lock'[j] => i = j
    BY <1>2, <1>3, <1>4 DEF LockFits
  <1>6. \A i \in DOMAIN lock' : caller'[lock'[i]].pc \in {"waiting", "reading", "dropping"}
    BY <1>1, <1>2, <1>3, <1>4 DEF LockFits
  <1>7. lock # <<>> => lock' # <<>> /\ Head(lock') = Head(lock)
    BY <1>1, <1>2
  <1>8. \A d \in Callers : caller'[d].pc \in {"reading", "dropping"} => HoldsLock(d)'
    BY <1>1, <1>7 DEF LockFits, HoldsLock
  <1>9. QED
    BY <1>5, <1>6, <1>8 DEF LockFits

(* A call that times out leaves its place in the lock.                      *)
LEMMA LeaveFits ==
  ASSUME Types, LockFits, NEW c \in Callers, TimeoutExpires(c)
  PROVE  LockFits'
  <1>1. PICK i \in DOMAIN lock : lock[i] = c /\ lock' = RemoveAt(lock, i)
    BY DEF TimeoutExpires
  <1>2. /\ lock \in Seq(Callers) /\ DOMAIN lock = 1..Len(lock) /\ Len(lock) \in Nat \ {0}
        /\ i \in 1..Len(lock)
    BY <1>1 DEF Types
  <1>3. /\ lock' \in Seq(Callers) /\ Len(lock') = Len(lock) - 1
        /\ DOMAIN lock' = 1..(Len(lock) - 1)
        /\ \A j \in DOMAIN lock' : lock'[j] = lock[IF j < i THEN j ELSE j + 1]
    <2> DEFINE before == SubSeq(lock, 1, i - 1)
               after == SubSeq(lock, i + 1, Len(lock))
    <2>1. /\ before \in Seq(Callers) /\ Len(before) = i - 1
          /\ \A j \in 1..(i - 1) : before[j] = lock[j]
      BY <1>2
    <2>2. /\ after \in Seq(Callers) /\ Len(after) = Len(lock) - i
          /\ \A j \in 1..(Len(lock) - i) : after[j] = lock[j + i]
      BY <1>2
    <2>3. lock' = before \o after
      BY <1>1 DEF RemoveAt
    <2> HIDE DEF before, after
    <2>4. /\ lock' \in Seq(Callers) /\ Len(lock') = Len(before) + Len(after)
          /\ \A j \in 1..(Len(before) + Len(after)) :
               lock'[j] = IF j <= Len(before) THEN before[j] ELSE after[j - Len(before)]
      BY <2>1, <2>2, <2>3, ConcatProperties
    <2>5. ASSUME NEW j \in 1..(Len(lock) - 1)
          PROVE  lock'[j] = lock[IF j < i THEN j ELSE j + 1]
      <3>1. CASE j < i
        BY <1>2, <2>1, <2>2, <2>4, <2>5, <3>1
      <3>2. CASE ~(j < i)
        <4>1. j - (i - 1) \in 1..(Len(lock) - i)
          BY <1>2, <2>5, <3>2
        <4>2. lock'[j] = after[j - (i - 1)]
          BY <1>2, <2>1, <2>2, <2>4, <2>5, <3>2
        <4>3. (j - (i - 1)) + i = j + 1
          BY <1>2, <2>5
        <4>4. QED
          BY <2>2, <3>2, <4>1, <4>2, <4>3
      <3>3. QED
        BY <3>1, <3>2
    <2>6. Len(before) + Len(after) = Len(lock) - 1
      BY <1>2, <2>1, <2>2
    <2>7. QED
      BY <2>4, <2>5, <2>6, LenProperties
  <1>4. /\ \A d \in Callers : d # c => caller'[d] = caller[d]
        /\ caller'[c].pc \notin {"reading", "dropping"}
    BY DEF TimeoutExpires, Types, CallersOK, NoCall
  <1>5. \A j \in DOMAIN lock' : lock'[j] \in Callers /\ lock'[j] # c
    BY <1>1, <1>2, <1>3 DEF LockFits
  <1>6. \A j, k \in DOMAIN lock' : lock'[j] = lock'[k] => j = k
    BY <1>2, <1>3 DEF LockFits
  <1>7. \A j \in DOMAIN lock' : caller'[lock'[j]].pc \in {"waiting", "reading", "dropping"}
    BY <1>2, <1>3, <1>4, <1>5 DEF LockFits
  <1>8. ASSUME NEW d \in Callers, d # c, HoldsLock(d)
        PROVE  HoldsLock(d)'
    <2>1. lock[1] = d /\ i # 1
      BY <1>1, <1>2, <1>8 DEF HoldsLock
    <2>2. 1 \in DOMAIN lock' /\ lock'[1] = d
      BY <1>2, <1>3, <2>1
    <2>3. QED
      BY <1>3, <2>2 DEF HoldsLock
  <1>9. \A d \in Callers : caller'[d].pc \in {"reading", "dropping"} => HoldsLock(d)'
    BY <1>4, <1>8 DEF LockFits
  <1>10. QED
    BY <1>6, <1>7, <1>9 DEF LockFits

(* The holder's call ends.                                                  *)
LEMMA ReturnFits ==
  ASSUME Types, LockFits, NEW c \in Callers, HoldsLock(c), Release, NEW got, Return(c, got)
  PROVE  LockFits'
  <1> DEFINE r == [NoCall EXCEPT !.got = got]
  <1>1. caller' = [caller EXCEPT ![c] = r] /\ r.pc = "idle"
    BY DEF Return, NoCall
  <1> HIDE DEF r
  <1>2. QED
    BY <1>1, ReleaseFits

LEMMA FailFits ==
  ASSUME Types, LockFits, NEW c \in Callers, HoldsLock(c), NEW ls, Fail(c, ls)
  PROVE  LockFits'
  <1>1. CASE connected
    <2> DEFINE r == [caller[c] EXCEPT !.pc = "dropping", !.conn = None]
    <2>1. /\ caller' = [caller EXCEPT ![c] = r] /\ UNCHANGED lock
          /\ r.pc \in {"waiting", "reading", "dropping"}
      BY <1>1 DEF Fail, Types, CallersOK, CallerOK, Caller
    <2> HIDE DEF r
    <2>2. QED
      BY <2>1, HeldFits
  <1>2. CASE ~connected
    BY <1>2, ReturnFits DEF Fail
  <1>3. QED
    BY <1>1, <1>2

(* The lock is kept right by whatever a call does.                          *)
LEMMA CallFits ==
  ASSUME Types, LockFits, NEW c \in Callers,
         Ask(c) \/ CallProceeds(c) \/ CallFinishes(c) \/ TimeoutExpires(c)
  PROVE  LockFits'
  <1>1. caller[c].pc \in {"reading", "dropping"} => HoldsLock(c)
    BY DEF LockFits
  <1>2. CASE Ask(c)
    BY <1>2, AskFits
  <1>3. CASE TimeoutExpires(c)
    BY <1>3, LeaveFits
  <1>4. CASE Send(c)
    <2> DEFINE r == [caller[c] EXCEPT !.pc = "reading", !.conn = writer]
    <2>1. /\ caller' = [caller EXCEPT ![c] = r] /\ UNCHANGED lock /\ HoldsLock(c)
          /\ r.pc \in {"waiting", "reading", "dropping"}
      BY <1>4 DEF Send, Granted, Types, CallersOK, CallerOK, Caller
    <2> HIDE DEF r
    <2>2. QED
      BY <2>1, HeldFits
  <1>5. CASE Reset(c)
    <2> DEFINE r == [caller[c] EXCEPT !.pc = IF connected THEN "resetting" ELSE "idle"]
    <2>1. /\ caller' = [caller EXCEPT ![c] = r] /\ UNCHANGED lock
          /\ caller[c].pc = "timedout" /\ r.pc \in {"resetting", "idle"}
      BY <1>5 DEF Reset, Types, CallersOK, CallerOK, Caller
    <2> HIDE DEF r
    <2>2. QED
      BY <2>1, HeldFits
  <1>6. CASE ResetDone(c)
    <2> DEFINE r == [NoCall EXCEPT !.got = "none"]
    <2>1. /\ caller' = [caller EXCEPT ![c] = r] /\ UNCHANGED lock
          /\ caller[c].pc = "resetting" /\ r.pc = "idle"
      BY <1>6 DEF ResetDone, Return, NoCall
    <2> HIDE DEF r
    <2>2. QED
      BY <2>1, HeldFits
  <1>7. CASE SendRefused(c) \/ SendCollides(c)
    BY <1>7, ReturnFits DEF SendRefused, SendCollides, Granted
  <1>8. CASE TextAnswered(c) \/ DataAnswered(c) \/ AcquireRefused(c)
    BY <1>1, <1>8, ReturnFits DEF TextAnswered, DataAnswered, AcquireRefused, Awaiting
  <1>9. CASE AcquireDesynced(c) \/ ReadFails(c)
    BY <1>1, <1>9, FailFits DEF AcquireDesynced, ReadFails, Awaiting
  <1>10. CASE Dropped(c)
    BY <1>1, <1>10, ReturnFits DEF Dropped
  <1>11. QED
    BY <1>2, <1>3, <1>4, <1>5, <1>6, <1>7, <1>8, <1>9, <1>10 DEF CallProceeds, CallFinishes

(* Nothing but calls touches the lock or a caller.                          *)
LEMMA OthersLeaveCalls ==
  ASSUME \/ \E w \in Watchers : Watch(w) \/ WatcherDropped(w)
         \/ Connect \/ Announced \/ AnnounceTimesOut
         \/ \E k \in Conns : CameraReplies(k) \/ PeerCloses(k) \/ StrayData(k)
  PROVE  UNCHANGED <<lock, caller>>
  BY DEF Watch, WatcherStarts, WatcherReads, ExtraRead, WatcherSeesEnd, WatcherDropped,
         Connect, Announced, AnnounceTimesOut, CameraReplies, PeerCloses, StrayData

(* Types and the lock are right in every state.                             *)
LEMMA InitTypes == ClientAssumption /\ Init => Types /\ LockFits
  <1> SUFFICES ASSUME ClientAssumption, Init
               PROVE  Types /\ LockFits
    OBVIOUS
  <1>1. CallerOK(NoCall) /\ Closed \in Link /\ WatcherOK(NoWatcher)
    BY RecordTypes DEF CallerOK, NoCall, Caller
  <1>2. CallersOK(caller) /\ WatchersOK(watcher) /\ link \in [Conns -> Link]
    BY <1>1 DEF Init, CallersOK, WatchersOK
  <1>3. Types
    <2>1. connected \in BOOLEAN /\ announcing \in BOOLEAN
      BY DEF Init
    <2>2. writer \in Conns \cup {None} /\ idleTask \in Watchers \cup {None}
      BY DEF Init
    <2>3. lock \in Seq(Callers)
      BY DEF Init
    <2>4. QED
      BY <1>2, <2>1, <2>2, <2>3 DEF Types
  <1>4. LockFits
    BY DEF Init, LockFits, NoCall
  <1>5. QED
    BY <1>3, <1>4

LEMMA NextTypes ==
  ClientAssumption /\ Types /\ LockFits /\ [Next]_clientVars => Types' /\ LockFits'
  <1> SUFFICES ASSUME ClientAssumption, Types, LockFits, [Next]_clientVars
               PROVE  Types' /\ LockFits'
    OBVIOUS
  <1>1. ASSUME NEW c \in Callers,
               Ask(c) \/ CallProceeds(c) \/ CallFinishes(c) \/ TimeoutExpires(c)
        PROVE  Types' /\ LockFits'
    <2>1. caller[c].pc \in {"reading", "dropping"} => lock # <<>>
      BY DEF LockFits, HoldsLock
    <2>2. QED
      BY <1>1, <2>1, CallTypes, CallFits
  <1>2. UNCHANGED <<lock, caller>> => LockFits'
    BY DEF LockFits, HoldsLock
  <1>3. ASSUME NEW w \in Watchers, Watch(w) \/ WatcherDropped(w)
        PROVE  Types' /\ LockFits'
    BY <1>2, <1>3, WatchTypes, OthersLeaveCalls
  <1>4. CASE \/ Connect \/ Announced \/ AnnounceTimesOut
             \/ \E k \in Conns : CameraReplies(k) \/ PeerCloses(k) \/ StrayData(k)
    BY <1>2, <1>4, LinkStepTypes, OthersLeaveCalls
  <1>5. CASE UNCHANGED clientVars
    BY <1>5 DEF clientVars, Types, CallersOK, WatchersOK, LockFits, HoldsLock
  <1>6. QED
    BY <1>1, <1>3, <1>4, <1>5 DEF Next

LEMMA TypesHold == Spec => [](Types /\ LockFits)
  <1>1. ClientAssumption
    BY ClientAssumption
  <1>2. QED
    BY <1>1, InitTypes, NextTypes, PTL DEF Spec

(* The client's variables keep their types, under any fault, and a task has *)
(* a connection to wait on exactly while it waits for data.                 *)
THEOREM ClientTypes == Spec => []TypeOK
  BY TypesHold, TypesAreTypes, PTL

-----------------------------------------------------------------------------
(* Lockstep.                                                                *)

(* The faults that leave requests and replies paired: no slow WebSocket     *)
(* client, no data nobody asked for, no caller that gives up on its own,    *)
(* and wait_for in a task of its own.  Each of the other faults breaks the  *)
(* lockstep, as the README says.                                            *)
PairingFaults == Faults \subseteq {"close", "error", "silence", "hung_ws"} /\ WaitForSpawns

(* There is one watcher task, the current one, on the current connection,   *)
(* and none during a call.                                                  *)
WatchFits ==
  /\ \A w \in Watchers :
       /\ watcher[w].pc # "none" => w = idleTask
       /\ watcher[w].pc # "extra"
       /\ watcher[w].pc = "reading" => watcher[w].conn = writer
       /\ watcher[w].pc = "dropping" => ~connected
  /\ idleTask # None => \A c \in Callers : caller[c].pc \notin {"reading", "dropping"}

(* A client that is not connected has nothing left of its connection, or    *)
(* somebody is about to close it; a call is on the current connection.      *)
ConnFits ==
  /\ connected => writer # None
  /\ ~connected =>
       \/ writer = None /\ idleTask = None
       \/ \E c \in Callers : caller[c].pc = "dropping"
       \/ \E w \in Watchers : watcher[w].pc = "dropping"
  /\ \A c \in Callers :
       /\ caller[c].pc = "reading" => connected /\ caller[c].conn = writer
       /\ caller[c].pc = "dropping" => ~connected
       /\ caller[c].pc \notin {"timedout", "resetting"}
  /\ announcing =>
       connected /\ idleTask = None /\ \A c \in Callers : caller[c].pc # "reading"

(* What the current connection holds between calls and during one: its      *)
(* request, or the reply of the right kind, or neither.                     *)
Between(l) == l.todo = <<>> /\ l.stream = <<>>

Replies(kind) == {IF kind = "command" THEN "text" ELSE "data", "error"}

During(l, c, kind) ==
  \/ Between(l)
  \/ l.todo = <<[by |-> c, kind |-> kind]>> /\ l.stream = <<>>
  \/ l.todo = <<>> /\ \E what \in Replies(kind) : l.stream = <<[to |-> c, what |-> what]>>

ExchangeFits ==
  connected =>
    /\ \A c \in Callers : caller[c].pc = "reading" => During(link[writer], c, caller[c].kind)
    /\ (\A c \in Callers : caller[c].pc # "reading") => Between(link[writer])

PairedInv == WatchFits /\ ConnFits /\ ExchangeFits /\ AnswersAreOwn

(* The three say what Lockstep does.                                        *)
LEMMA PairedIsLockstep ==
  ASSUME ClientAssumption, Types, LockFits, PairedInv
  PROVE  Lockstep
  <1> USE DEF PairedInv
  <1>1. Framed
    <2> SUFFICES ASSUME connected, writer # None, ~Reading(writer)
                 PROVE  Between(link[writer])
      BY DEF Framed, Between
    <2>1. \A c \in Callers : caller[c].pc # "reading"
      BY DEF Reading, ConnFits
    <2>2. QED
      BY <2>1 DEF ExchangeFits
  <1>2. OneExchange
    <2> SUFFICES ASSUME NEW c \in Callers, caller[c].pc = "reading"
                 PROVE  /\ HoldsLock(c)
                        /\ ~Watching(watcher, caller[c].conn)
                        /\ Len(link[caller[c].conn].todo) + Len(Stream(c)) <= 1
      BY DEF OneExchange
    <2>1. connected /\ caller[c].conn = writer /\ HoldsLock(c) /\ idleTask = None
      BY DEF ConnFits, LockFits, WatchFits
    <2>2. ~Watching(watcher, caller[c].conn)
      BY <2>1 DEF Watching, WatchFits, ClientAssumption
    <2>3. During(link[writer], c, caller[c].kind)
      BY <2>1 DEF ExchangeFits
    <2>4. Len(link[writer].todo) + Len(link[writer].stream) <= 1
      <3>1. Len(<<>>) = 0 /\ \A x : Len(<<x>>) = 1
        OBVIOUS
      <3>2. \/ link[writer].todo = <<>> /\ link[writer].stream = <<>>
            \/ link[writer].stream = <<>> /\ \E x : link[writer].todo = <<x>>
            \/ link[writer].todo = <<>> /\ \E x : link[writer].stream = <<x>>
        BY <2>3 DEF During, Between
      <3>3. /\ Len(link[writer].todo) \in {0, 1} /\ Len(link[writer].stream) \in {0, 1}
            /\ Len(link[writer].todo) = 0 \/ Len(link[writer].stream) = 0
        BY <3>1, <3>2
      <3>4. ASSUME NEW a \in {0, 1}, NEW b \in {0, 1}, a = 0 \/ b = 0
            PROVE  a + b <= 1
        BY <3>4
      <3>5. QED
        BY <3>3, <3>4
    <2>5. QED
      BY <2>1, <2>2, <2>4 DEF Stream
  <1>3. ConnectedHasStream
    BY DEF ConnFits, ConnectedHasStream
  <1>4. QED
    BY <1>1, <1>2, <1>3 DEF Lockstep

(* While nothing is suspended in a broadcast.                               *)
LEMMA PromptFacts ==
  ASSUME PairingFaults, PairedInv, Prompt
  PROVE  /\ ~announcing
         /\ \A c \in Callers : caller[c].pc # "dropping"
         /\ \A w \in Watchers : watcher[w].pc # "dropping"
         /\ ~connected => writer = None /\ idleTask = None
  BY DEF PairingFaults, PairedInv, Prompt, ConnFits

(* While a call holds the lock nobody else reads; while one reads there is  *)
(* no watcher.                                                              *)
LEMMA HolderFacts ==
  ASSUME ClientAssumption, Types, LockFits, PairedInv, NEW c \in Callers, HoldsLock(c)
  PROVE  /\ \A d \in Callers : d # c => caller[d].pc \notin {"reading", "dropping"}
         /\ caller[c].pc = "reading" =>
              /\ connected /\ caller[c].conn = writer /\ writer \in Conns
              /\ idleTask = None /\ \A w \in Watchers : watcher[w].pc = "none"
  BY DEF LockFits, HoldsLock, PairedInv, WatchFits, ConnFits, ClientAssumption, Types

(* A caller queues up, or ends its call before it began.                    *)
LEMMA QuietCall ==
  ASSUME Types, PairedInv, NEW c \in Callers, NEW r, caller' = [caller EXCEPT ![c] = r],
         caller[c].pc \in {"idle", "waiting"}, r.pc \in {"idle", "waiting"}, r.got # "wrong",
         UNCHANGED <<connected, writer, link, idleTask, watcher, announcing>>
  PROVE  PairedInv'
  <1>1. /\ \A d \in Callers : d # c => caller'[d] = caller[d]
        /\ caller'[c] = r
    BY DEF Types, CallersOK
  <1>2. WatchFits'
    BY <1>1 DEF PairedInv, WatchFits
  <1>3. ConnFits'
    BY <1>1 DEF PairedInv, ConnFits
  <1>4. ExchangeFits'
    BY <1>1 DEF PairedInv, ExchangeFits
  <1>5. AnswersAreOwn'
    BY <1>1 DEF PairedInv, AnswersAreOwn
  <1>6. QED
    BY <1>2, <1>3, <1>4, <1>5 DEF PairedInv

(* The holder sends its request: nothing was on the connection.             *)
LEMMA SendPairs ==
  ASSUME ClientAssumption, PairingFaults, Types, LockFits, PairedInv,
         NEW c \in Callers, Send(c)
  PROVE  PairedInv'
  <1>1. HoldsLock(c) /\ caller[c].pc = "waiting" /\ connected /\ writer \in Conns
    BY DEF Send, Granted, Types
  <1>2. /\ \A d \in Callers : d # c => caller'[d] = caller[d]
        /\ caller'[c].pc = "reading" /\ caller'[c].conn = writer
        /\ caller'[c].kind = caller[c].kind /\ caller'[c].got = caller[c].got
    BY DEF Send, Types, CallersOK, CallerOK, Caller
  <1>3. \A d \in Callers : caller[d].pc \notin {"reading", "dropping"}
    BY <1>1, HolderFacts
  <1>4. /\ UNCHANGED <<connected, writer, announcing>> /\ idleTask' = None
        /\ ~announcing
    BY PromptFacts DEF Send, Granted
  <1>5. \A w \in Watchers : watcher'[w].pc = "none"
    BY DEF Send, CancelIdle, NoWatcher, PairedInv, WatchFits, Types, WatchersOK
  <1>6. WatchFits'
    BY <1>4, <1>5 DEF WatchFits
  <1>7. ConnFits'
    BY <1>1, <1>2, <1>3, <1>4 DEF PairedInv, ConnFits
  <1>8. Between(link[writer]) /\ link[writer] \in Link
    BY <1>1, <1>3 DEF PairedInv, ExchangeFits, Types
  <1>9. During(link'[writer], c, caller[c].kind)
    <2>1. link'[writer] = [link[writer] EXCEPT
                             !.todo = Append(@, [by |-> c, kind |-> caller[c].kind])]
      BY <1>1 DEF Send, Types
    <2>2. \A x : Append(<<>>, x) = <<x>>
      OBVIOUS
    <2>3. QED
      BY <1>8, <2>1, <2>2 DEF During, Between, Link
  <1>10. ExchangeFits'
    BY <1>2, <1>3, <1>4, <1>9 DEF ExchangeFits
  <1>11. AnswersAreOwn'
    BY <1>2 DEF PairedInv, AnswersAreOwn
  <1>12. QED
    BY <1>6, <1>7, <1>10, <1>11 DEF PairedInv

(* No read can meet another: the watcher was the only task that read.       *)
LEMMA NeverCollides ==
  ASSUME ClientAssumption, PairingFaults, Types, PairedInv
  PROVE  ~Collides
  <1>1. \A w \in Watchers : CancelIdle[w].pc \notin {"reading", "extra"}
    BY DEF CancelIdle, NoWatcher, PairedInv, WatchFits, Types, WatchersOK
  <1>2. idleTask # None => watcher[idleTask].pc # "extra"
    BY DEF PairedInv, WatchFits, Types
  <1>3. QED
    BY <1>1, <1>2 DEF Collides, Watching, PairingFaults

(* What has arrived for a call that reads is its one reply.                 *)
LEMMA ReplyArrived ==
  ASSUME ClientAssumption, Types, LockFits, PairedInv,
         NEW c \in Callers, caller[c].pc = "reading", Stream(c) # <<>>
  PROVE  /\ link[writer].todo = <<>>
         /\ \E what \in Replies(caller[c].kind) : Stream(c) = <<[to |-> c, what |-> what]>>
  <1>1. connected /\ caller[c].conn = writer
    BY DEF PairedInv, ConnFits
  <1>2. During(link[writer], c, caller[c].kind)
    BY <1>1 DEF PairedInv, ExchangeFits
  <1>3. QED
    BY <1>1, <1>2 DEF During, Between, Stream

(* A call ends with its reply, and the client is idle again.                *)
LEMMA ReplyPairs ==
  ASSUME ClientAssumption, PairingFaults, Types, LockFits, PairedInv,
         NEW c \in Callers, caller[c].pc = "reading", Prompt, Stream(c) # <<>>,
         NEW got, got # "wrong", Return(c, got), link' = Drained(c),
         StartIdleWatch \/ UNCHANGED <<idleTask, watcher>>,
         UNCHANGED <<connected, writer, announcing>>
  PROVE  PairedInv'
  <1>1. HoldsLock(c)
    BY DEF LockFits
  <1>2. /\ connected /\ caller[c].conn = writer /\ writer \in Conns
        /\ idleTask = None /\ \A w \in Watchers : watcher[w].pc = "none"
        /\ \A d \in Callers : d # c => caller[d].pc \notin {"reading", "dropping"}
        /\ ~announcing
    BY <1>1, HolderFacts, PromptFacts
  <1>3. /\ \A d \in Callers : d # c => caller'[d] = caller[d]
        /\ caller'[c].pc = "idle" /\ caller'[c].got = got
    BY DEF Return, NoCall, Types, CallersOK
  <1>4. \A d \in Callers : caller'[d].pc \notin {"reading", "dropping"}
    BY <1>2, <1>3
  <1>5. WatchFits'
    <2>1. \A w \in Watchers : watcher'[w].pc # "none" => w = idleTask' /\ watcher'[w].pc = "new"
      BY <1>2 DEF StartIdleWatch, Types, WatchersOK, WatcherOK, Watcher
    <2>2. QED
      BY <1>4, <2>1 DEF WatchFits
  <1>6. ConnFits'
    BY <1>2, <1>3, <1>4 DEF PairedInv, ConnFits
  <1>7. Between(link'[writer])
    <2>1. link[writer] \in Link /\ link'[writer] = [link[writer] EXCEPT !.stream = <<>>]
      BY <1>2 DEF Drained, Types
    <2>2. link[writer].todo = <<>>
      BY ReplyArrived
    <2>3. QED
      BY <2>1, <2>2 DEF Between, Link
  <1>8. ExchangeFits'
    BY <1>4, <1>7 DEF ExchangeFits
  <1>9. AnswersAreOwn'
    BY <1>3 DEF PairedInv, AnswersAreOwn
  <1>10. QED
    BY <1>5, <1>6, <1>8, <1>9 DEF PairedInv

(* A call that failed begins to disconnect.                                 *)
LEMMA FailPairs ==
  ASSUME ClientAssumption, PairingFaults, Types, LockFits, PairedInv,
         NEW c \in Callers, caller[c].pc = "reading", Prompt, NEW ls, Fail(c, ls)
  PROVE  PairedInv'
  <1>1. HoldsLock(c)
    BY DEF LockFits
  <1>2. /\ connected /\ idleTask = None /\ \A w \in Watchers : watcher[w].pc = "none"
        /\ \A d \in Callers : d # c => caller[d].pc \notin {"reading", "dropping"}
        /\ ~announcing
    BY <1>1, HolderFacts, PromptFacts
  <1>3. /\ \A d \in Callers : d # c => caller'[d] = caller[d]
        /\ caller'[c].pc = "dropping" /\ caller'[c].got = caller[c].got
        /\ connected' = FALSE
    <2>1. /\ caller' = [caller EXCEPT ![c] =
                          [caller[c] EXCEPT !.pc = "dropping", !.conn = None]]
          /\ connected' = FALSE
      BY <1>2 DEF Fail
    <2>2. QED
      BY <2>1 DEF Types, CallersOK, CallerOK, Caller
  <1>4. UNCHANGED <<writer, idleTask, watcher, announcing>>
    BY DEF Fail
  <1>5. WatchFits'
    BY <1>2, <1>4 DEF WatchFits
  <1>6. ConnFits'
    BY <1>2, <1>3, <1>4 DEF PairedInv, ConnFits
  <1>7. ExchangeFits' /\ AnswersAreOwn'
    BY <1>3 DEF PairedInv, AnswersAreOwn, ExchangeFits
  <1>8. QED
    BY <1>5, <1>6, <1>7 DEF PairedInv

(* The caller that disconnected closes the connection.                      *)
LEMMA DroppedPairs ==
  ASSUME ClientAssumption, Types, LockFits, PairedInv, NEW c \in Callers, Dropped(c)
  PROVE  PairedInv'
  <1>1. HoldsLock(c) /\ caller[c].pc = "dropping"
    BY DEF LockFits, Dropped
  <1>2. /\ ~connected /\ idleTask = None /\ \A w \in Watchers : watcher[w].pc = "none"
        /\ \A d \in Callers : d # c => caller[d].pc \notin {"reading", "dropping"}
        /\ ~announcing
    BY <1>1, HolderFacts DEF PairedInv, WatchFits, ConnFits, ClientAssumption
  <1>3. /\ \A d \in Callers : d # c => caller'[d] = caller[d]
        /\ caller'[c].pc = "idle" /\ caller'[c].got = "none"
    BY DEF Dropped, Return, NoCall, Types, CallersOK
  <1>4. /\ UNCHANGED <<connected, announcing>> /\ watcher' = watcher
        /\ idleTask' = None /\ writer' = None
    BY <1>2 DEF Dropped, Teardown
  <1>5. WatchFits'
    BY <1>2, <1>4 DEF WatchFits
  <1>6. ConnFits'
    BY <1>2, <1>3, <1>4 DEF PairedInv, ConnFits
  <1>7. ExchangeFits' /\ AnswersAreOwn'
    BY <1>2, <1>3, <1>4 DEF PairedInv, AnswersAreOwn, ExchangeFits
  <1>8. QED
    BY <1>5, <1>6, <1>7 DEF PairedInv

(* Whatever a call does, the pairing is kept.                               *)
LEMMA CallPairs ==
  ASSUME ClientAssumption, PairingFaults, Types, LockFits, PairedInv, NEW c \in Callers,
         Ask(c) \/ CallProceeds(c) \/ CallFinishes(c) \/ TimeoutExpires(c)
  PROVE  PairedInv'
  <1>1. CASE Ask(c)
    <2>1. PICK kind \in {"command", "acquire"} :
            caller' = [caller EXCEPT ![c] = [NoCall EXCEPT !.pc = "waiting", !.kind = kind]]
      BY <1>1 DEF Ask
    <2> DEFINE r == [NoCall EXCEPT !.pc = "waiting", !.kind = kind]
    <2>2. /\ caller' = [caller EXCEPT ![c] = r] /\ r.pc = "waiting" /\ r.got = "none"
      BY <2>1 DEF NoCall
    <2> HIDE DEF r
    <2>3. /\ caller[c].pc = "idle"
          /\ UNCHANGED <<connected, writer, link, idleTask, watcher, announcing>>
      BY <1>1 DEF Ask
    <2>4. QED
      BY <2>2, <2>3, QuietCall
  <1>2. CASE SendRefused(c)
    <2> DEFINE r == [NoCall EXCEPT !.got = "none"]
    <2>1. /\ caller' = [caller EXCEPT ![c] = r] /\ r.pc = "idle" /\ r.got = "none"
          /\ caller[c].pc = "waiting"
          /\ UNCHANGED <<connected, writer, link, idleTask, watcher, announcing>>
      BY <1>2 DEF SendRefused, Granted, Return, NoCall
    <2> HIDE DEF r
    <2>2. QED
      BY <2>1, QuietCall
  <1>3. CASE Send(c)
    BY <1>3, SendPairs
  <1>4. CASE SendCollides(c)
    BY <1>4, NeverCollides DEF SendCollides
  <1>5. CASE TextAnswered(c)
    <2>1. /\ caller[c].pc = "reading" /\ caller[c].kind = "command" /\ Prompt
          /\ Stream(c) # <<>>
      BY <1>5 DEF TextAnswered, Awaiting
    <2>2. \E what \in {"text", "error"} : Stream(c) = <<[to |-> c, what |-> what]>>
      BY <2>1, ReplyArrived DEF Replies
    <2>3. PICK got \in {"none", "own"} : Return(c, got)
      BY <1>5, <2>2 DEF TextAnswered
    <2>4. QED
      BY <1>5, <2>1, <2>3, ReplyPairs DEF TextAnswered
  <1>6. CASE DataAnswered(c)
    <2>1. /\ caller[c].pc = "reading" /\ Prompt /\ Stream(c) # <<>>
      BY <1>6 DEF DataAnswered, Awaiting
    <2>2. \E what : Stream(c) = <<[to |-> c, what |-> what]>>
      BY <2>1, ReplyArrived
    <2>3. Return(c, "own")
      BY <1>6, <2>2 DEF DataAnswered
    <2>4. QED
      BY <1>6, <2>1, <2>3, ReplyPairs DEF DataAnswered
  <1>7. CASE AcquireRefused(c)
    BY <1>7, ReplyPairs DEF AcquireRefused, Awaiting
  <1>8. CASE AcquireDesynced(c)
    BY <1>8, FailPairs DEF AcquireDesynced, Awaiting
  <1>9. CASE ReadFails(c)
    BY <1>9, FailPairs DEF ReadFails, Awaiting
  <1>10. CASE Dropped(c)
    BY <1>10, DroppedPairs
  <1>11. CASE Reset(c) \/ ResetDone(c)
    BY <1>11 DEF Reset, ResetDone, PairedInv, ConnFits
  <1>12. CASE TimeoutExpires(c)
    BY <1>12 DEF TimeoutExpires, PairingFaults
  <1>13. QED
    BY <1>1, <1>2, <1>3, <1>4, <1>5, <1>6, <1>7, <1>8, <1>9, <1>10, <1>11, <1>12
       DEF CallProceeds, CallFinishes

(* The watcher starts, sees the end of the connection, and closes it.       *)
LEMMA WatchPairs ==
  ASSUME ClientAssumption, PairingFaults, Types, LockFits, PairedInv, NEW w \in Watchers,
         Watch(w) \/ WatcherDropped(w)
  PROVE  PairedInv'
  <1>1. UNCHANGED <<lock, caller>>
    BY OthersLeaveCalls
  <1>2. watcher[w].pc # "none" =>
          /\ idleTask = w /\ idleTask # None
          /\ \A v \in Watchers : v # w => watcher[v].pc = "none"
          /\ \A c \in Callers : caller[c].pc \notin {"reading", "dropping"}
          /\ ~announcing
    BY DEF PairedInv, WatchFits, ConnFits, ClientAssumption
  <1>3. watcher[w].pc = "reading" /\ Prompt =>
          connected /\ watcher[w].conn = writer /\ Between(link[writer])
    BY <1>2, PromptFacts DEF PairedInv, WatchFits, ExchangeFits
  <1>4. CASE WatcherStarts(w)
    <2>1. /\ watcher[w].pc = "new"
          /\ watcher'[w].pc \in {"none", "reading"}
          /\ watcher'[w].pc = "reading" => watcher'[w].conn = writer
          /\ \A v \in Watchers : v # w => watcher'[v] = watcher[v]
          /\ UNCHANGED <<connected, writer, link, idleTask, announcing>>
      BY <1>4 DEF WatcherStarts, At, NoWatcher, Types, WatchersOK
    <2>2. WatchFits'
      BY <1>1, <1>2, <2>1 DEF WatchFits
    <2>3. ConnFits'
      BY <1>1, <1>2, <2>1 DEF PairedInv, ConnFits
    <2>4. ExchangeFits' /\ AnswersAreOwn'
      BY <1>1, <2>1 DEF PairedInv, ExchangeFits, AnswersAreOwn
    <2>5. QED
      BY <2>2, <2>3, <2>4 DEF PairedInv
  <1>5. CASE WatcherReads(w)
    BY <1>3, <1>5 DEF WatcherReads, At, Between
  <1>6. CASE ExtraRead(w)
    BY <1>6 DEF ExtraRead, At, PairedInv, WatchFits
  <1>7. CASE WatcherSeesEnd(w)
    <2>1. watcher[w].pc = "reading" /\ connected
      BY <1>3, <1>7 DEF WatcherSeesEnd, At
    <2>2. /\ connected' = FALSE /\ watcher'[w].pc = "dropping"
          /\ \A v \in Watchers : v # w => watcher'[v] = watcher[v]
          /\ UNCHANGED <<writer, link, idleTask, announcing>>
      BY <1>7, <2>1 DEF WatcherSeesEnd, WatcherDrops, Types, WatchersOK
    <2>3. WatchFits'
      BY <1>1, <1>2, <2>1, <2>2 DEF WatchFits
    <2>4. ConnFits'
      BY <1>1, <1>2, <2>1, <2>2 DEF PairedInv, ConnFits
    <2>5. ExchangeFits' /\ AnswersAreOwn'
      BY <1>1, <2>2 DEF PairedInv, ExchangeFits, AnswersAreOwn
    <2>6. QED
      BY <2>3, <2>4, <2>5 DEF PairedInv
  <1>8. CASE WatcherDropped(w)
    <2>1. watcher[w].pc = "dropping" /\ ~connected
      BY <1>8 DEF WatcherDropped, PairedInv, WatchFits
    <2>2. /\ UNCHANGED <<connected, announcing>> /\ idleTask' = None /\ writer' = None
          /\ \A v \in Watchers : watcher'[v].pc = "none"
      BY <1>2, <1>8, <2>1 DEF WatcherDropped, Teardown, NoWatcher, Types, WatchersOK
    <2>3. WatchFits'
      BY <2>2 DEF WatchFits
    <2>4. ConnFits'
      BY <1>1, <1>2, <2>1, <2>2 DEF PairedInv, ConnFits
    <2>5. ExchangeFits' /\ AnswersAreOwn'
      BY <1>1, <2>1, <2>2 DEF PairedInv, ExchangeFits, AnswersAreOwn
    <2>6. QED
      BY <2>3, <2>4, <2>5 DEF PairedInv
  <1>9. QED
    BY <1>4, <1>5, <1>6, <1>7, <1>8 DEF Watch

(* A new connection comes when nothing is left of the old one.              *)
LEMMA ConnectPairs ==
  ASSUME ClientAssumption, PairingFaults, Types, PairedInv,
         Connect \/ Announced \/ AnnounceTimesOut
  PROVE  PairedInv'
  <1>1. UNCHANGED <<lock, caller>>
    BY OthersLeaveCalls
  <1>2. CASE Connect
    <2>1. /\ ~connected /\ ~announcing /\ Prompt /\ idleTask = None
          /\ \A c \in Callers : caller[c].pc \notin {"reading", "dropping"}
      BY <1>2, PromptFacts DEF Connect, PairedInv, ConnFits
    <2>2. \A w \in Watchers : watcher[w].pc = "none"
      BY <2>1 DEF PairedInv, WatchFits, ClientAssumption
    <2>3. /\ writer' \in Conns
          /\ link' = [link EXCEPT ![writer'] = [Closed EXCEPT !.state = "open"]]
          /\ connected' = TRUE /\ announcing' = TRUE /\ UNCHANGED <<idleTask, watcher>>
      BY <1>2 DEF Connect
    <2>4. Between(link'[writer'])
      BY <2>3 DEF Between, Closed, Types
    <2>5. WatchFits'
      BY <1>1, <2>1, <2>2, <2>3 DEF WatchFits
    <2>6. ConnFits'
      BY <1>1, <2>1, <2>3 DEF PairedInv, ConnFits, ClientAssumption
    <2>7. ExchangeFits' /\ AnswersAreOwn'
      BY <1>1, <2>1, <2>4 DEF PairedInv, ExchangeFits, AnswersAreOwn
    <2>8. QED
      BY <2>5, <2>6, <2>7 DEF PairedInv
  <1>3. CASE Announced
    <2>1. /\ connected /\ idleTask = None
          /\ \A c \in Callers : caller[c].pc \notin {"reading", "dropping"}
      BY <1>3 DEF Announced, PairedInv, ConnFits
    <2>2. \A w \in Watchers : watcher[w].pc = "none"
      BY <2>1 DEF PairedInv, WatchFits, ClientAssumption
    <2>3. \A w \in Watchers : watcher'[w].pc # "none" => w = idleTask' /\ watcher'[w].pc = "new"
      BY <1>3, <2>2 DEF Announced, StartIdleWatch, Types, WatchersOK, WatcherOK, Watcher
    <2>4. UNCHANGED <<connected, writer, link>> /\ announcing' = FALSE
      BY <1>3 DEF Announced
    <2>5. WatchFits'
      BY <1>1, <2>1, <2>3 DEF WatchFits
    <2>6. ConnFits'
      BY <1>1, <2>1, <2>4 DEF PairedInv, ConnFits
    <2>7. ExchangeFits' /\ AnswersAreOwn'
      BY <1>1, <2>4 DEF PairedInv, ExchangeFits, AnswersAreOwn
    <2>8. QED
      BY <2>5, <2>6, <2>7 DEF PairedInv
  <1>4. CASE AnnounceTimesOut
    <2>1. /\ UNCHANGED <<connected, writer, link, idleTask, watcher>> /\ announcing' = FALSE
      BY <1>4 DEF AnnounceTimesOut
    <2>2. QED
      BY <1>1, <2>1 DEF PairedInv, WatchFits, ConnFits, ExchangeFits, AnswersAreOwn
  <1>5. QED
    BY <1>2, <1>3, <1>4

(* The camera answers the request it has, or closes the connection.         *)
LEMMA CameraPairs ==
  ASSUME ClientAssumption, PairingFaults, Types, PairedInv, NEW k \in Conns,
         CameraReplies(k) \/ PeerCloses(k) \/ StrayData(k)
  PROVE  PairedInv'
  <1>1. UNCHANGED <<connected, writer, lock, caller, idleTask, watcher, announcing>>
    BY DEF CameraReplies, PeerCloses, StrayData
  <1>2. ~StrayData(k)
    BY DEF StrayData, PairingFaults
  <1>3. link[k] \in Link
    BY DEF Types
  <1>4. \A j \in Conns : j # k => link'[j] = link[j]
    BY DEF CameraReplies, PeerCloses, StrayData, Types
  <1>5. Between(link[k]) => Between(link'[k])
    BY <1>2, <1>3 DEF CameraReplies, PeerCloses, Between, Types, Link
  <1>6. ASSUME NEW c, NEW kind, During(link[k], c, kind)
        PROVE  During(link'[k], c, kind)
    <2>1. CASE PeerCloses(k)
      <3>1. link'[k].todo = <<>> /\ link'[k].stream = link[k].stream
        BY <1>3, <2>1 DEF PeerCloses, Types, Link
      <3>2. QED
        BY <1>6, <3>1 DEF During, Between
    <2>2. CASE CameraReplies(k)
      <3>1. link[k].todo = <<[by |-> c, kind |-> kind]>> /\ link[k].stream = <<>>
        BY <1>6, <2>2 DEF CameraReplies, During, Between
      <3>2. Head(link[k].todo) = [by |-> c, kind |-> kind] /\ Tail(link[k].todo) = <<>>
        BY <3>1
      <3>3. PICK what \in Replies(kind) :
              link' = [link EXCEPT
                         ![k].todo = Tail(@),
                         ![k].stream = Append(@, [to |-> c, what |-> what])]
        <4> DEFINE replied(l, to, what) ==
                     l = [link EXCEPT ![k].todo = Tail(@),
                                      ![k].stream = Append(@, [to |-> to, what |-> what])]
        <4>1. \E what \in {IF Head(link[k].todo).kind = "command" THEN "text" ELSE "data", "error"} :
                replied(link', Head(link[k].todo).by, what)
          BY <2>2 DEF CameraReplies
        <4> HIDE DEF replied
        <4>2. \E what \in Replies(kind) : replied(link', c, what)
          BY <3>2, <4>1 DEF Replies
        <4>3. QED
          BY <4>2 DEF replied
      <3>4. /\ link'[k].todo = Tail(link[k].todo)
            /\ link'[k].stream = Append(link[k].stream, [to |-> c, what |-> what])
        BY <1>3, <3>3 DEF Types, Link
      <3>5. Append(<<>>, [to |-> c, what |-> what]) = <<[to |-> c, what |-> what]>>
        OBVIOUS
      <3>6. QED
        BY <3>1, <3>2, <3>4, <3>5 DEF During
    <2>3. QED
      BY <1>2, <2>1, <2>2
  <1>7. writer \in Conns \cup {None} /\ (connected => writer # None)
    BY DEF Types, PairedInv, ConnFits
  <1>8. ExchangeFits'
    BY <1>1, <1>4, <1>5, <1>6, <1>7 DEF PairedInv, ExchangeFits
  <1>9. WatchFits' /\ ConnFits' /\ AnswersAreOwn'
    BY <1>1 DEF PairedInv, WatchFits, ConnFits, AnswersAreOwn
  <1>10. QED
    BY <1>8, <1>9 DEF PairedInv

LEMMA PairedHold == PairingFaults /\ Spec => []PairedInv
  <1> SUFFICES ASSUME PairingFaults
               PROVE  Spec => []PairedInv
    OBVIOUS
  <1>1. Init => PairedInv
    BY DEF Init, PairedInv, WatchFits, ConnFits, ExchangeFits, AnswersAreOwn, NoCall, NoWatcher
  <1>2. Types /\ LockFits /\ PairedInv /\ [Next]_clientVars => PairedInv'
    <2> SUFFICES ASSUME Types, LockFits, PairedInv, [Next]_clientVars
                 PROVE  PairedInv'
      OBVIOUS
    <2>1. CASE UNCHANGED clientVars
      BY <2>1 DEF clientVars, PairedInv, WatchFits, ConnFits, ExchangeFits, AnswersAreOwn
    <2>2. CASE Next
      BY <2>2, ClientAssumption, CallPairs, WatchPairs, ConnectPairs, CameraPairs DEF Next
    <2>3. QED
      BY <2>1, <2>2
  <1>3. QED
    BY <1>1, <1>2, TypesHold, PTL DEF Spec

(* Under the faults that leave requests and replies paired, the client is   *)
(* in lockstep with the camera, over any number of disconnections,          *)
(* reconnections, refusals and lost announcements.                          *)
THEOREM LockstepKept == PairingFaults /\ Spec => []Lockstep
  <1>1. ClientAssumption
    BY ClientAssumption
  <1>2. ClientAssumption /\ Types /\ LockFits /\ PairedInv => Lockstep
    BY PairedIsLockstep
  <1>3. QED
    BY <1>1, <1>2, TypesHold, PairedHold, PTL

(* Under the same faults no call returns the answer to another request.     *)
THEOREM OwnAnswers == PairingFaults /\ Spec => []AnswersAreOwn
  <1>1. PairedInv => AnswersAreOwn
    BY DEF PairedInv
  <1>2. QED
    BY <1>1, PairedHold, PTL
=============================================================================
