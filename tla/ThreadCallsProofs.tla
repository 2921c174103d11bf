------------------------- MODULE ThreadCallsProofs -------------------------
(***************************************************************************)
(* The wait table, the pending calls and the suspended calls of a native   *)
(* process: in every order in which their operations can come, a wait has  *)
(* its call and a suspended thread has both, names are never used twice,   *)
(* and a call is answered for what really happened.                        *)
(***************************************************************************)
EXTENDS CallTablesProofs

\* The leaves are first-order; those that need arithmetic or records cite SMT.
USE ZenonT(30)

-----------------------------------------------------------------------------
(* The steps of a native process.                                            *)

\* A step that answers no suspended call and takes no datagram.
LEMMA QuietTrue ==
  ASSUME NativeInv, Suspended \subseteq Suspended', inbox' = inbox, stopped' = stopped
  PROVE  AnswerTrue
  <1>1. ~ (inbox' < inbox)
    BY SMTT(20) DEF NativeInv
  <1>2. \A i \in Indices : suspended[i].thread \in Suspended'
    BY DEF Suspended
  <1>3. stopped = "No" => stopped' \notin {"Prepare", "Poll"}
    BY SMTT(20)
  <1> QED BY <1>1, <1>2, <1>3 DEF AnswerTrue, DatagramDelivered, RepliesTrue, OnlyDeadlineFaults

\* The process is stopped.
LEMMA RevokeTrue ==
  ASSUME NativeInv, NEW why \in {"Stopped", "Prepare", "Poll"}, Revoke(why),
         why = "Stopped" \/ \E c \in clients : c.fate = "Deadline"
  PROVE  AnswerTrue
  <1>1. stopped' = why /\ inbox' = inbox
    BY DEF Revoke, worldVars
  <1>2. ~ (inbox' < inbox)
    BY <1>1, SMTT(20) DEF NativeInv
  <1>3. stopped' # "No"
    BY <1>1, SMTT(20)
  <1>4. why = "Stopped" => why \notin {"Prepare", "Poll"}
    BY SMTT(20)
  <1> QED BY <1>1, <1>2, <1>3, <1>4 DEF AnswerTrue, DatagramDelivered, RepliesTrue, OnlyDeadlineFaults

\* A step that leaves the tables and the suspended calls alone.
LEMMA QuietKeepsNative ==
  ASSUME TablesInv, NativeInv, completions' = completions, UNCHANGED <<waits, callVars>>,
         UNCHANGED <<suspended, stopped>>, cursor' \in 0 .. Cardinality(Thread), ClientsWell',
         stopped = "No" \/ clients' = clients,
         answer' \in [Thread -> Answers], now' \in 0 .. MaxTime, inbox' \in 0 .. MaxItems
  PROVE  /\ Preserved
         /\ Suspended' = Suspended
  <1>1. /\ waits' = waits /\ calls' = calls /\ lastRequest' = lastRequest
        /\ suspended' = suspended /\ stopped' = stopped
    BY DEF callVars
  <1> USE <1>1
  <1>2. TablesInv' /\ KeyNamesOneWait /\ OperationNamesOneCall
    BY IdleKeepsTables
  <1>3. Pending' = Pending /\ Suspended' = Suspended
    BY DEF Pending, Suspended, Indices
  <1>4. EntriesExact'
    BY <1>3, EntriesStay DEF NativeInv
  <1>5. Frugal'
    BY DEF Frugal, NativeInv
  <1>6. stopped' # "No" => suspended' = <<>> /\ clients' = {}
    BY DEF NativeInv
  <1>7. stopped' \in {"No", "Stopped", "Prepare", "Poll"}
    BY DEF NativeInv
  <1> QED BY <1>2, <1>3, <1>4, <1>5, <1>6, <1>7 DEF NativeInv, Preserved

\* The ranges that the steps rely on.
LEMMA Ranges ==
  ASSUME NativeInv
  PROVE  /\ now \in Nat /\ inbox \in Nat /\ now <= MaxTime /\ inbox <= MaxItems
         /\ Cardinality(Thread) \in Nat /\ MaxTime \in Nat /\ MaxItems \in Nat
  BY NativeAssumption, FS_CardinalityType, SMTT(20) DEF NativeInv

\* `prepare': the call is suspended; the paths on which that is an error are dead.
LEMMA SuspendOrFailKeeps ==
  ASSUME TablesInv, NativeInv, stopped = "No", UNCHANGED harnessVars, NEW t \in Thread,
         t \notin Suspended, lastRequest < MaxRequest,
         NEW kind \in Kind, NEW d \in Nat \cup {NoDeadline},
         kind \in {"timer", "datagram"} => d \in Nat, kind = "stream" => d = NoDeadline,
         SuspendOrFail(t, kind, d)
  PROVE  Preserved /\ AnswerTrue
  <1>1. Suspend(t, kind, d)
    BY AlwaysRoom DEF SuspendOrFail
  <1>2. /\ Preserved
        /\ Suspended \subseteq Suspended' /\ stopped' = stopped /\ inbox' = inbox
    BY <1>1, SuspendKeepsNative
  <1> QED BY <1>2, QuietTrue

\* A call that is answered at once.
LEMMA ImmediateKeeps ==
  ASSUME TablesInv, NativeInv, UNCHANGED harnessVars, NEW t \in Thread,
         NEW status \in {"Success", "Conflict", "NotFound"},
         Immediate(t, status), now' = now, inbox' \in 0 .. MaxItems
  PROVE  /\ Preserved
         /\ Suspended' = Suspended /\ stopped' = stopped /\ answer'[t] = status
  <1>1. /\ answer' = [answer EXCEPT ![t] = status] /\ UNCHANGED <<waits, callVars>>
        /\ UNCHANGED <<suspended, stopped>> /\ cursor' = cursor /\ clients' = clients
        /\ completions' = completions /\ stopped' = stopped
    BY DEF Immediate, harnessVars
  <1>2. answer \in [Thread -> Answers]
    BY DEF NativeInv
  <1>3. answer' \in [Thread -> Answers] /\ answer'[t] = status
    BY <1>1, <1>2, SMTT(20) DEF Answers
  <1>4. cursor' \in 0 .. Cardinality(Thread) /\ ClientsWell' /\ now' \in 0 .. MaxTime
    BY <1>1 DEF NativeInv, ClientsWell
  <1> QED BY <1>1, <1>3, <1>4, QuietKeepsNative

LEMMA CallKeeps ==
  ASSUME TablesInv, NativeInv, UNCHANGED harnessVars, NEW t \in Thread, Call(t)
  PROVE  Preserved /\ AnswerTrue
  <1>1. stopped = "No" /\ t \notin Suspended /\ lastRequest < MaxRequest
    BY DEF Call
  <1> USE <1>1
  <1>2. /\ now \in Nat /\ inbox \in 0 .. MaxItems /\ MaxTime \in Nat
        /\ DatagramWait \in Nat /\ DiagnosticsWait \in Nat
    BY Ranges, NativeAssumption DEF NativeInv
  <1> USE <1>2
  <1>3. now + DatagramWait \in Nat /\ now + DiagnosticsWait \in Nat
    BY SMTT(20)
  <1>4. ASSUME "timer" \in Kind, NEW d \in 1 .. MaxTime, CallTimer(t, d)
        PROVE  Preserved /\ AnswerTrue
    <2>1. d \in Nat /\ d <= MaxTime
      BY SMTT(20)
    <2>2. CASE Immediate(t, "Success") /\ UNCHANGED worldVars
      <3>1. now' = now /\ inbox' = inbox
        BY <2>2 DEF worldVars
      <3>2. /\ Preserved
            /\ Suspended' = Suspended /\ stopped' = stopped
        BY <2>2, <3>1, ImmediateKeeps
      <3> QED BY <3>1, <3>2, QuietTrue
    <2>3. CASE SuspendOrFail(t, "timer", d)
      <3>1. d \in Nat \cup {NoDeadline} /\ "timer" # "stream"
        BY <2>1, SMTT(20)
      <3> QED BY <1>4, <2>1, <2>3, <3>1, SuspendOrFailKeeps
    <2>4. CASE d = now + 1 /\ TimerElapses(t)
      <3>1. /\ Preserved
            /\ Suspended' = Suspended /\ stopped' = stopped /\ inbox' = inbox
        BY <2>1, <2>4, ElapseKeepsNative
      <3> QED BY <3>1, QuietTrue
    <2> QED BY <1>4, <2>2, <2>3, <2>4 DEF CallTimer
  <1>5. ASSUME "datagram" \in Kind, CallDatagram(t)
        PROVE  Preserved /\ AnswerTrue
    <2>1. CASE inbox > 0 /\ inbox' = inbox - 1 /\ Immediate(t, "Success") /\ UNCHANGED <<now, stream>>
      <3>1. inbox' \in 0 .. MaxItems /\ now' = now
        BY <2>1, NativeAssumption, SMTT(20)
      <3>2. /\ Preserved
            /\ Suspended' = Suspended /\ stopped' = stopped /\ answer'[t] = "Success"
        BY <2>1, <3>1, ImmediateKeeps
      <3> USE <3>2
      <3>3. DatagramDelivered
        BY DEF DatagramDelivered
      <3>4. RepliesTrue
        BY DEF RepliesTrue, Suspended
      <3>5. OnlyDeadlineFaults
        <4>1. "No" \notin {"Prepare", "Poll"}
          BY SMTT(20)
        <4> QED BY <4>1 DEF OnlyDeadlineFaults
      <3> QED BY <3>3, <3>4, <3>5 DEF AnswerTrue
    <2>2. CASE SuspendOrFail(t, "datagram", now + DatagramWait)
      <3>1. now + DatagramWait \in Nat \cup {NoDeadline} /\ "datagram" # "stream"
        BY <1>3, SMTT(20)
      <3> QED BY <1>3, <1>5, <2>2, <3>1, SuspendOrFailKeeps
    <2> QED BY <1>5, <2>1, <2>2 DEF CallDatagram
  <1>6. ASSUME "stream" \in Kind, CallStream(t)
        PROVE  Preserved /\ AnswerTrue
    <2>1. CASE Immediate(t, "Success") /\ UNCHANGED <<now, inbox>>
      <3>1. /\ Preserved
            /\ Suspended' = Suspended /\ stopped' = stopped
        BY <2>1, ImmediateKeeps
      <3> QED BY <2>1, <3>1, QuietTrue
    <2>2. CASE SuspendOrFail(t, "stream", NoDeadline)
      <3>1. NoDeadline \in Nat \cup {NoDeadline} /\ "stream" \notin {"timer", "datagram"}
        BY SMTT(20)
      <3> QED BY <1>6, <2>2, <3>1, SuspendOrFailKeeps
    <2>3. ASSUME NEW status \in {"Success", "Conflict", "NotFound"}, Immediate(t, status), UNCHANGED worldVars
          PROVE  Preserved /\ AnswerTrue
      <3>1. now' = now /\ inbox' = inbox
        BY <2>3 DEF worldVars
      <3>2. /\ Preserved
            /\ Suspended' = Suspended /\ stopped' = stopped
        BY <2>3, <3>1, ImmediateKeeps
      <3> QED BY <3>1, <3>2, QuietTrue
    <2> QED BY <1>6, <2>1, <2>2, <2>3 DEF CallStream
  <1>7. ASSUME "diagnostics" \in Kind, CallDiagnostics(t)
        PROVE  Preserved /\ AnswerTrue
    <2>1. /\ now + DiagnosticsWait \in Nat \cup {NoDeadline}
          /\ "diagnostics" \notin {"timer", "datagram"} /\ "diagnostics" # "stream"
      BY <1>3, SMTT(20)
    <2> QED BY <1>7, <2>1, SuspendOrFailKeeps DEF CallDiagnostics
  <1> QED BY <1>4, <1>5, <1>6, <1>7 DEF Call

LEMMA SpecResource ==
  ASSUME NEW t, NEW kind, NEW o, NEW d, NEW e
  PROVE  SpecFor(t, kind, o, d).resource = SpecFor(t, kind, o, e).resource
  <1> DEFINE R == CASE kind = "timer" -> NoResource
                    [] kind = "datagram" -> Port
                    [] kind = "stream" -> Stream
                    [] kind = "diagnostics" -> o
             I == CASE kind = "timer" -> {"Deadline"}
                    [] kind = "datagram" -> {"ResourceReady", "Deadline"}
                    [] OTHER -> {"ResourceReady"}
             spec(x) == [caller |-> CallerOf(t), operation |-> o, deadline |-> x,
                         resource |-> R, interests |-> I]
  <1>1. SpecFor(t, kind, o, d) = spec(d) /\ SpecFor(t, kind, o, e) = spec(e)
    BY DEF SpecFor
  <1> HIDE DEF R, I
  <1>2. spec(d).resource = R /\ spec(e).resource = R
    BY SMTT(20)
  <1> HIDE DEF spec
  <1> QED BY <1>1, <1>2

\* What an observation of a suspended call comes to.
LEMMA Outcome ==
  ASSUME TablesInv, NEW i \in Indices, NEW s \in CallSlots, NEW w \in WaitSlots,
         Bound(suspended[i], s, w), NEW o, NEW why, why = Observed(waits[w].record, o, now)
  PROVE  /\ Completes(i, o) => /\ why # NoReason /\ Accepts(waits[w].record, why)
                               /\ ReplyTo(suspended[i].kind, why) # "None"
         /\ Fails(i, o) => /\ why # NoReason
                           /\ ~ (Accepts(waits[w].record, why) /\ ReplyTo(suspended[i].kind, why) # "None")
         /\ ReasonOf(i, o) = why /\ (CHOOSE v \in OfOperation(suspended[i].operation) : TRUE) = w
  <1>1. Named(suspended[i].operation) = {s} /\ OfOperation(suspended[i].operation) = {w}
    BY BoundAlone
  <1>2. (CHOOSE v \in OfOperation(suspended[i].operation) : TRUE) = w
    BY <1>1, SMTT(20)
  <1>3. ReasonOf(i, o) = why
    BY <1>2 DEF ReasonOf
  <1>4. Resolvable(s, CallerOf(suspended[i].thread), Key(w)) /\ calls[s].record.state = "Waiting"
    BY BoundCaller DEF Bound, Waits, Resolvable
  <1>5. waits[w].record.resource = ResourceOf(i)
    <2>1. waits[w].record = SpecFor(suspended[i].thread, suspended[i].kind, suspended[i].operation, waits[w].record.deadline)
      BY DEF Bound
    <2> DEFINE d == waits[w].record.deadline
               e == suspended[i]
    <2>2. SpecFor(e.thread, e.kind, e.operation, d).resource = SpecFor(e.thread, e.kind, e.operation, 0).resource
      BY SpecResource, SMTT(20)
    <2> QED BY <2>1, <2>2 DEF ResourceOf
  <1>6. Waiting(i, s, w, ResourceOf(i))
    BY <1>1, <1>4, <1>5 DEF Waiting
  <1>7. \A r \in CallSlots, v \in WaitSlots : Waiting(i, r, v, ResourceOf(i)) => r = s /\ v = w
    BY <1>1 DEF Waiting
  <1>8. Completes(i, o) <=> /\ why # NoReason /\ Accepts(waits[w].record, why)
                            /\ ReplyTo(suspended[i].kind, why) # "None"
    BY <1>4, <1>6, <1>7 DEF Completes
  <1>9. StillPending(i, o) <=> why = NoReason
    BY <1>6, <1>7 DEF StillPending
  <1> QED BY <1>2, <1>3, <1>8, <1>9 DEF Fails

\* The specification of a suspended call of each kind.
LEMMA SpecOfKind ==
  ASSUME TablesInv, NEW e, NEW s, NEW w, Bound(e, s, w), NEW spec, spec = waits[w].record
  PROVE  /\ spec.deadline \in Nat \cup {NoDeadline}
         /\ e.kind = "timer" => spec.deadline # NoDeadline /\ "Deadline" \in spec.interests
         /\ e.kind = "datagram" => /\ spec.deadline # NoDeadline /\ "Deadline" \in spec.interests
                                   /\ spec.resource # NoResource /\ "ResourceReady" \in spec.interests
         /\ e.kind = "stream" => /\ spec.deadline = NoDeadline /\ spec.resource # NoResource
                                 /\ "ResourceReady" \in spec.interests
         /\ e.kind = "diagnostics" => spec.resource # NoResource /\ "ResourceReady" \in spec.interests
  <1>1. w \in Held /\ spec \in Registration /\ ValidSpec(spec)
    BY HeldLive DEF Bound, TablesInv, WaitsWell
  <1> USE <1>1
  <1>2. spec = SpecFor(e.thread, e.kind, e.operation, spec.deadline)
    BY DEF Bound
  <1>3. spec.deadline \in Nat \cup {NoDeadline}
    BY SMTT(20) DEF Registration
  <1>4. e.kind = "timer" => spec.deadline # NoDeadline /\ "Deadline" \in spec.interests
    <2> HAVE e.kind = "timer"
    <2>1. "Deadline" \in spec.interests
      BY <1>2, SMTT(20) DEF SpecFor
    <2> QED BY <2>1 DEF ValidSpec
  <1>5. e.kind = "datagram" => /\ spec.deadline # NoDeadline /\ "Deadline" \in spec.interests
                               /\ spec.resource # NoResource /\ "ResourceReady" \in spec.interests
    <2> HAVE e.kind = "datagram"
    <2>1. "Deadline" \in spec.interests /\ "ResourceReady" \in spec.interests
      BY <1>2, SMTT(20) DEF SpecFor
    <2> QED BY <2>1 DEF ValidSpec
  <1>6. e.kind \in {"stream", "diagnostics"} => spec.resource # NoResource /\ "ResourceReady" \in spec.interests
    <2> HAVE e.kind \in {"stream", "diagnostics"}
    <2>1. "ResourceReady" \in spec.interests
      BY <1>2, SMTT(20) DEF SpecFor
    <2> QED BY <2>1 DEF ValidSpec
  <1>7. e.kind = "stream" => spec.deadline = NoDeadline
    BY DEF Bound
  <1> QED BY <1>3, <1>4, <1>5, <1>6, <1>7

\* The cursor after a poll.
LEMMA AdvanceIs ==
  ASSUME NativeInv, NEW i \in Indices, Advance(i)
  PROVE  cursor' \in 0 .. Cardinality(Thread)
  <1>1. /\ Len(suspended) \in Nat /\ i \in 1 .. Len(suspended) /\ Len(suspended) <= Cardinality(Thread)
    BY EntriesTyped DEF NativeInv, EntriesExact
  <1>2. cursor' = i % Len(suspended) /\ Cardinality(Thread) \in Nat
    BY Ranges DEF Advance
  <1>3. i % Len(suspended) \in 0 .. Len(suspended) - 1
    BY <1>1, SMTT(20)
  <1> QED BY <1>1, <1>2, <1>3, SMTT(20)

\* A suspended call completes.
LEMMA CompleteKeeps ==
  ASSUME TablesInv, NativeInv, stopped = "No", completions' = completions, NEW i \in Indices,
         NEW o, NEW status \in Answers, CompleteCall(i, o, status),
         ClientsWell', now' = now, inbox' \in 0 .. MaxItems
  PROVE  /\ Preserved
         /\ Suspended' = Suspended \ {suspended[i].thread} /\ stopped' = "No"
         /\ answer'[suspended[i].thread] = status
  <1>1. /\ waits' = Resolved(OfOperation(suspended[i].operation))
        /\ Release(Named(suspended[i].operation)) /\ suspended' = SwapRemove(suspended, i)
        /\ Advance(i) /\ answer' = [answer EXCEPT ![suspended[i].thread] = status]
        /\ stopped' = "No"
    BY DEF CompleteCall
  <1> USE <1>1
  <1>2. EntriesExact /\ Frugal /\ answer \in [Thread -> Answers] /\ now \in 0 .. MaxTime
    BY DEF NativeInv
  <1> USE <1>2
  <1>3. PICK s \in CallSlots, w \in WaitSlots : Bound(suspended[i], s, w)
    BY DEF EntriesExact
  <1>4. Named(suspended[i].operation) = {s} /\ OfOperation(suspended[i].operation) = {w}
    BY <1>3, BoundAlone
  <1>5. /\ TablesInv' /\ EntriesExact' /\ Frugal' /\ KeyNamesOneWait /\ OperationNamesOneCall
        /\ Suspended' = Suspended \ {suspended[i].thread}
    <2>1. waits' = Resolved({w}) /\ Release({s})
      BY <1>4
    <2>2. suspended' = SwapRemove(suspended, i)
      OBVIOUS
    <2> QED BY <1>3, <2>1, <2>2, LeaveTables
  <1>6. suspended[i].thread \in Thread
    BY EntriesTyped
  <1>7. answer' \in [Thread -> Answers] /\ answer'[suspended[i].thread] = status
    BY <1>6, SMTT(20)
  <1>8. cursor' \in 0 .. Cardinality(Thread)
    BY AdvanceIs
  <1>9. NativeInv'
    <2>1. stopped' \in {"No", "Stopped", "Prepare", "Poll"}
      BY SMTT(20)
    <2> QED BY <1>5, <1>7, <1>8, <2>1 DEF NativeInv
  <1> QED BY <1>5, <1>7, <1>9 DEF Preserved

\* The one thread that leaves is answered truly.
LEMMA OneReply ==
  ASSUME NativeInv, NEW i \in Indices, Suspended' = Suspended \ {suspended[i].thread},
         stopped' = "No", ReplyTrue(i)
  PROVE  RepliesTrue /\ OnlyDeadlineFaults
  <1>1. ASSUME NEW j \in Indices, suspended[j].thread \notin Suspended'
        PROVE  j = i
    <2>1. suspended[j].thread = suspended[i].thread
      BY <1>1 DEF Suspended
    <2> QED BY <2>1 DEF NativeInv, EntriesExact
  <1>2. stopped' \notin {"Prepare", "Poll"}
    BY SMTT(20)
  <1> QED BY <1>1, <1>2 DEF RepliesTrue, OnlyDeadlineFaults

\* A poll that leaves its call waiting.
LEMMA WaitOnKeeps ==
  ASSUME TablesInv, NativeInv, stopped = "No", UNCHANGED harnessVars, NEW i \in Indices,
         Advance(i), UNCHANGED <<waits, callVars, suspended, answer, stopped>>,
         ClientsWell', UNCHANGED worldVars
  PROVE  Preserved /\ AnswerTrue
  <1>1. cursor' \in 0 .. Cardinality(Thread) /\ completions' = completions
    BY AdvanceIs DEF harnessVars
  <1>2. /\ answer' \in [Thread -> Answers] /\ now' \in 0 .. MaxTime /\ inbox' \in 0 .. MaxItems
        /\ inbox' = inbox /\ UNCHANGED <<waits, callVars>> /\ UNCHANGED <<suspended, stopped>>
        /\ stopped' = stopped
    BY DEF NativeInv, worldVars
  <1>3. /\ Preserved
        /\ Suspended' = Suspended
    BY <1>1, <1>2, QuietKeepsNative
  <1> QED BY <1>2, <1>3, QuietTrue

\* What is observed of a call that nothing happened to, and of one that is ready.
LEMMA Seen ==
  ASSUME NEW spec, NEW t
  PROVE  /\ \/ Due(spec, t) /\ Observed(spec, "Pending", t) = "Deadline"
            \/ ~ Due(spec, t) /\ Observed(spec, "Pending", t) = NoReason
         /\ Observed(spec, "ResourceReady", t) = "ResourceReady"
         /\ Observed(spec, "ResourceClosed", t) = "Closed"
         /\ Observed(spec, "OwnerRevoked", t) = "Revoked"
  BY SMTT(20) DEF Observed

LEMMA Accepted ==
  ASSUME NEW spec
  PROVE  /\ spec.deadline # NoDeadline /\ "Deadline" \in spec.interests => Accepts(spec, "Deadline")
         /\ spec.resource # NoResource /\ "ResourceReady" \in spec.interests => Accepts(spec, "ResourceReady")
         /\ spec.resource # NoResource => Accepts(spec, "Closed")
         /\ Accepts(spec, "Revoked")
  BY SMTT(20) DEF Accepts

LEMMA Replies ==
  /\ ReplyTo("timer", "Deadline") = "Success" /\ ReplyTo("datagram", "Deadline") = "Timeout"
  /\ ReplyTo("datagram", "ResourceReady") = "Success" /\ ReplyTo("stream", "ResourceReady") = "Success"
  /\ ReplyTo("diagnostics", "ResourceReady") = "Success" /\ ReplyTo("diagnostics", "Closed") = "Conflict"
  /\ ReplyTo("stream", "Closed") = "Conflict"
  /\ ReplyTo("diagnostics", "Revoked") = "Cancelled"
  /\ "Success" \in Answers /\ "Timeout" \in Answers /\ "Conflict" \in Answers /\ "Cancelled" \in Answers
  /\ "Success" # "None" /\ "Timeout" # "None" /\ "Conflict" # "None" /\ "Cancelled" # "None"
  BY SMTT(20) DEF ReplyTo, Answers

LEMMA PollTimerKeeps ==
  ASSUME TablesInv, NativeInv, stopped = "No", UNCHANGED harnessVars, NEW i \in Indices,
         suspended[i].kind = "timer", PollTimer(i)
  PROVE  Preserved /\ AnswerTrue
  <1>1. PICK s \in CallSlots, w \in WaitSlots : Bound(suspended[i], s, w)
    BY DEF NativeInv, EntriesExact
  <1> DEFINE spec == waits[w].record
             why == Observed(spec, "Pending", now)
  <1>2. spec.deadline # NoDeadline /\ "Deadline" \in spec.interests
    BY <1>1, SpecOfKind
  <1>3. (Due(spec, now) /\ why = "Deadline") \/ why = NoReason
    BY Seen
  <1>4. /\ Completes(i, "Pending") => why # NoReason
        /\ Fails(i, "Pending") =>
             why # NoReason /\ ~ (Accepts(spec, why) /\ ReplyTo(suspended[i].kind, why) # "None")
        /\ ReasonOf(i, "Pending") = why /\ (CHOOSE v \in OfOperation(suspended[i].operation) : TRUE) = w
    BY <1>1, Outcome
  <1> HIDE DEF why
  <1>5. ~ Fails(i, "Pending")
    BY <1>2, <1>3, <1>4, Accepted, Replies
  <1>6. ClientsWell
    BY DEF NativeInv
  <1>7. CASE KeepWaiting(i, "Pending") /\ UNCHANGED <<clients, worldVars>>
    <2>1. ClientsWell'
      BY <1>6, <1>7 DEF ClientsWell
    <2> QED BY <1>7, <2>1, WaitOnKeeps DEF KeepWaiting
  <1>8. CASE /\ CompleteCall(i, "Pending", ReplyTo(suspended[i].kind, ReasonOf(i, "Pending")))
             /\ UNCHANGED <<inbox, stream>> /\ UNCHANGED <<clients, now>>
    <2>1. Due(spec, now) /\ ReplyTo(suspended[i].kind, ReasonOf(i, "Pending")) = "Success"
      BY <1>3, <1>4, <1>8, Replies DEF CompleteCall
    <2>2. CompleteCall(i, "Pending", "Success") /\ "Success" \in Answers
      BY <1>8, <2>1, Replies
    <2>3. /\ ClientsWell' /\ now' = now /\ inbox' \in 0 .. MaxItems /\ inbox' = inbox
          /\ completions' = completions
      BY <1>6, <1>8 DEF ClientsWell, NativeInv, harnessVars
    <2>4. /\ Preserved
          /\ Suspended' = Suspended \ {suspended[i].thread} /\ stopped' = "No"
          /\ answer'[suspended[i].thread] = "Success"
      BY <2>2, <2>3, CompleteKeeps
    <2>5. ReplyTrue(i)
      BY <1>4, <2>1, <2>4 DEF ReplyTrue, Due
    <2>6. ~ (inbox' < inbox)
      BY <2>3, SMTT(20) DEF NativeInv
    <2>7. RepliesTrue /\ OnlyDeadlineFaults
      BY <2>4, <2>5, OneReply
    <2> QED BY <2>4, <2>6, <2>7 DEF AnswerTrue, DatagramDelivered
  <1> QED BY <1>5, <1>7, <1>8 DEF PollTimer, PollService

LEMMA PollDatagramKeeps ==
  ASSUME TablesInv, NativeInv, stopped = "No", UNCHANGED harnessVars, NEW i \in Indices,
         suspended[i].kind = "datagram", PollDatagram(i)
  PROVE  Preserved /\ AnswerTrue
  <1>1. PICK s \in CallSlots, w \in WaitSlots : Bound(suspended[i], s, w)
    BY DEF NativeInv, EntriesExact
  <1> DEFINE spec == waits[w].record
             why(o) == Observed(spec, o, now)
  <1>2. /\ spec.deadline # NoDeadline /\ "Deadline" \in spec.interests
        /\ spec.resource # NoResource /\ "ResourceReady" \in spec.interests
    BY <1>1, SpecOfKind
  <1>3. /\ (Due(spec, now) /\ why("Pending") = "Deadline") \/ why("Pending") = NoReason
        /\ why("ResourceReady") = "ResourceReady"
    BY Seen
  <1>4. ASSUME NEW o
        PROVE  /\ Completes(i, o) => why(o) # NoReason
               /\ Fails(i, o) => /\ why(o) # NoReason
                                 /\ ~ (Accepts(spec, why(o)) /\ ReplyTo(suspended[i].kind, why(o)) # "None")
               /\ ReasonOf(i, o) = why(o)
               /\ (CHOOSE v \in OfOperation(suspended[i].operation) : TRUE) = w
    BY <1>1, Outcome
  <1> HIDE DEF why
  <1> USE <1>3
  <1>5. ~ Fails(i, "Pending")
    BY <1>2, <1>4, Accepted, Replies
  <1>6. ~ Fails(i, "ResourceReady")
    BY <1>2, <1>4, Accepted, Replies
  <1>7. ClientsWell /\ inbox \in 0 .. MaxItems
    BY DEF NativeInv
  <1> USE <1>7
  <1>8. ASSUME NEW o, KeepWaiting(i, o), UNCHANGED <<clients, worldVars>>
        PROVE  Preserved /\ AnswerTrue
    <2>1. ClientsWell'
      BY <1>8 DEF ClientsWell
    <2> QED BY <1>8, <2>1, WaitOnKeeps DEF KeepWaiting
  <1>9. CASE /\ inbox > 0 /\ inbox' = inbox - 1
             /\ CompleteCall(i, "ResourceReady", ReplyTo(suspended[i].kind, ReasonOf(i, "ResourceReady")))
             /\ UNCHANGED <<clients, now>>
    <2>1. CompleteCall(i, "ResourceReady", "Success") /\ "Success" \in Answers
      BY <1>4, <1>9, Replies
    <2>2. ClientsWell' /\ now' = now /\ completions' = completions
      BY <1>9 DEF ClientsWell, harnessVars
    <2>3. inbox' \in 0 .. MaxItems
      BY <1>9, NativeAssumption, SMTT(20)
    <2>4. /\ Preserved
          /\ Suspended' = Suspended \ {suspended[i].thread} /\ stopped' = "No"
          /\ answer'[suspended[i].thread] = "Success"
      BY <2>1, <2>2, <2>3, CompleteKeeps
    <2>5. ReplyTrue(i)
      BY <1>9, <2>4, SMTT(20) DEF ReplyTrue
    <2>6. RepliesTrue /\ OnlyDeadlineFaults
      BY <2>4, <2>5, OneReply
    <2> QED BY <2>4, <2>6 DEF AnswerTrue, DatagramDelivered
  <1>10. CASE /\ ~ (inbox > 0) /\ UNCHANGED <<inbox, stream>>
              /\ CompleteCall(i, "Pending", ReplyTo(suspended[i].kind, ReasonOf(i, "Pending")))
              /\ UNCHANGED <<clients, now>>
    <2>1. Due(spec, now) /\ ReplyTo(suspended[i].kind, ReasonOf(i, "Pending")) = "Timeout"
      BY <1>4, <1>10, Replies DEF CompleteCall
    <2>2. CompleteCall(i, "Pending", "Timeout") /\ "Timeout" \in Answers
      BY <1>10, <2>1, Replies
    <2>3. /\ ClientsWell' /\ now' = now /\ inbox' \in 0 .. MaxItems /\ inbox' = inbox
          /\ completions' = completions
      BY <1>10 DEF ClientsWell, harnessVars
    <2>4. /\ Preserved
          /\ Suspended' = Suspended \ {suspended[i].thread} /\ stopped' = "No"
          /\ answer'[suspended[i].thread] = "Timeout"
      BY <2>2, <2>3, CompleteKeeps
    <2>5. inbox = 0 /\ ~ (inbox' < inbox)
      BY <1>10, <2>3, SMTT(20)
    <2>6. waits[CHOOSE v \in OfOperation(suspended[i].operation) : TRUE].record.deadline <= now
      BY <1>4, <2>1 DEF Due
    <2>7. ReplyTrue(i)
      BY <2>4, <2>5, <2>6, SMTT(20) DEF ReplyTrue
    <2>8. RepliesTrue /\ OnlyDeadlineFaults
      BY <2>4, <2>7, OneReply
    <2> QED BY <2>4, <2>5, <2>8 DEF AnswerTrue, DatagramDelivered
  <1> QED BY <1>5, <1>6, <1>8, <1>9, <1>10 DEF PollDatagram, PollService

LEMMA PollStreamKeeps ==
  ASSUME TablesInv, NativeInv, stopped = "No", UNCHANGED harnessVars, NEW i \in Indices,
         suspended[i].kind = "stream", PollStream(i)
  PROVE  Preserved /\ AnswerTrue
  <1>1. PICK s \in CallSlots, w \in WaitSlots : Bound(suspended[i], s, w)
    BY DEF NativeInv, EntriesExact
  <1> DEFINE spec == waits[w].record
             why(o) == Observed(spec, o, now)
  <1>2. /\ spec.deadline = NoDeadline /\ spec.resource # NoResource
        /\ "ResourceReady" \in spec.interests
    BY <1>1, SpecOfKind
  <1>3. /\ why("Pending") = NoReason /\ why("ResourceReady") = "ResourceReady"
        /\ why("ResourceClosed") = "Closed"
    BY <1>2, Seen DEF Due
  <1>4. ASSUME NEW o
        PROVE  /\ Completes(i, o) => why(o) # NoReason
               /\ Fails(i, o) => /\ why(o) # NoReason
                                 /\ ~ (Accepts(spec, why(o)) /\ ReplyTo(suspended[i].kind, why(o)) # "None")
               /\ ReasonOf(i, o) = why(o)
    BY <1>1, Outcome
  <1> HIDE DEF why
  <1>5. ~ Fails(i, "Pending") /\ ~ Completes(i, "Pending")
    BY <1>3, <1>4
  <1>6. ~ Fails(i, "ResourceReady") /\ ~ Fails(i, "ResourceClosed")
    BY <1>2, <1>3, <1>4, Accepted, Replies
  <1>7. ClientsWell /\ inbox \in 0 .. MaxItems
    BY DEF NativeInv
  <1>8. ASSUME NEW o, KeepWaiting(i, o), UNCHANGED <<clients, worldVars>>
        PROVE  Preserved /\ AnswerTrue
    <2>1. ClientsWell'
      BY <1>7, <1>8 DEF ClientsWell
    <2> QED BY <1>8, <2>1, WaitOnKeeps DEF KeepWaiting
  <1>9. CASE /\ stream.held /\ StreamReady /\ UNCHANGED inbox
             /\ CompleteCall(i, "ResourceReady", ReplyTo(suspended[i].kind, ReasonOf(i, "ResourceReady")))
             /\ UNCHANGED <<clients, now>>
    <2>1. CompleteCall(i, "ResourceReady", "Success") /\ "Success" \in Answers
      BY <1>3, <1>4, <1>9, Replies
    <2>2. /\ ClientsWell' /\ now' = now /\ completions' = completions
          /\ inbox' \in 0 .. MaxItems /\ inbox' = inbox
      BY <1>7, <1>9 DEF ClientsWell, harnessVars
    <2>3. /\ Preserved
          /\ Suspended' = Suspended \ {suspended[i].thread} /\ stopped' = "No"
          /\ answer'[suspended[i].thread] = "Success"
      BY <2>1, <2>2, CompleteKeeps
    <2>4. ReplyTrue(i)
      BY <1>9, <2>3, SMTT(20) DEF ReplyTrue
    <2>5. RepliesTrue /\ OnlyDeadlineFaults
      BY <2>3, <2>4, OneReply
    <2>6. ~ (inbox' < inbox)
      BY <1>7, <2>2, SMTT(20)
    <2> QED BY <2>3, <2>5, <2>6 DEF AnswerTrue, DatagramDelivered
  <1>10. CASE /\ ~ stream.held /\ UNCHANGED <<inbox, stream>>
              /\ CompleteCall(i, "ResourceClosed", ReplyTo(suspended[i].kind, ReasonOf(i, "ResourceClosed")))
              /\ UNCHANGED <<clients, now>>
    <2>1. CompleteCall(i, "ResourceClosed", "Conflict") /\ "Conflict" \in Answers
      BY <1>3, <1>4, <1>10, Replies
    <2>2. /\ ClientsWell' /\ now' = now /\ completions' = completions
          /\ inbox' \in 0 .. MaxItems /\ inbox' = inbox
      BY <1>7, <1>10 DEF ClientsWell, harnessVars
    <2>3. /\ Preserved
          /\ Suspended' = Suspended \ {suspended[i].thread} /\ stopped' = "No"
          /\ answer'[suspended[i].thread] = "Conflict"
      BY <2>1, <2>2, CompleteKeeps
    <2>4. ReplyTrue(i)
      BY <1>10, <2>3, SMTT(20) DEF ReplyTrue
    <2>5. RepliesTrue /\ OnlyDeadlineFaults
      BY <2>3, <2>4, OneReply
    <2>6. ~ (inbox' < inbox)
      BY <1>7, <2>2, SMTT(20)
    <2> QED BY <2>3, <2>5, <2>6 DEF AnswerTrue, DatagramDelivered
  <1> QED BY <1>5, <1>6, <1>8, <1>9, <1>10 DEF PollStream, PollService, CompleteCall

\* The client records: one more within the capacity, one less, one exchanged.
LEMMA ClientsGrow ==
  ASSUME ClientsWell, NEW c \in Client, Cardinality(clients) < ClientCapacity,
         clients' = clients \cup {c}
  PROVE  ClientsWell'
  <1>1. clients' \in SUBSET Client /\ IsFiniteSet(clients) /\ Cardinality(clients) \in Nat
    BY FS_CardinalityType DEF ClientsWell
  <1>2. /\ IsFiniteSet(clients')
        /\ \/ Cardinality(clients') = Cardinality(clients)
           \/ Cardinality(clients') = Cardinality(clients) + 1
    BY <1>1, FS_AddElement
  <1>3. Cardinality(clients') <= ClientCapacity
    BY <1>1, <1>2, NativeAssumption, SMTT(20)
  <1> QED BY <1>1, <1>2, <1>3 DEF ClientsWell

LEMMA ClientsShrink ==
  ASSUME ClientsWell, NEW c \in clients, clients' = clients \ {c}
  PROVE  ClientsWell'
  <1>1. clients' \in SUBSET Client /\ IsFiniteSet(clients) /\ Cardinality(clients) \in Nat
    BY FS_CardinalityType DEF ClientsWell
  <1>2. IsFiniteSet(clients') /\ Cardinality(clients') = Cardinality(clients) - 1
    BY <1>1, FS_RemoveElement
  <1>3. Cardinality(clients') <= ClientCapacity
    BY <1>1, <1>2, NativeAssumption, SMTT(20) DEF ClientsWell
  <1> QED BY <1>1, <1>2, <1>3 DEF ClientsWell

LEMMA ClientsExchange ==
  ASSUME ClientsWell, NEW c \in clients, NEW d \in Client, clients' = (clients \ {c}) \cup {d}
  PROVE  ClientsWell'
  <1> DEFINE T == clients \ {c}
  <1>1. clients' \in SUBSET Client /\ IsFiniteSet(clients) /\ Cardinality(clients) \in Nat
    BY FS_CardinalityType DEF ClientsWell
  <1>2. IsFiniteSet(T) /\ Cardinality(T) = Cardinality(clients) - 1
    BY <1>1, FS_RemoveElement
  <1> HIDE DEF T
  <1>3. clients' = T \cup {d}
    BY SMTT(20) DEF T
  <1>4. /\ IsFiniteSet(clients')
        /\ \/ Cardinality(clients') = Cardinality(T)
           \/ Cardinality(clients') = Cardinality(T) + 1
    <2>1. /\ IsFiniteSet(T \cup {d})
          /\ \/ Cardinality(T \cup {d}) = Cardinality(T)
             \/ Cardinality(T \cup {d}) = Cardinality(T) + 1
      BY <1>2, FS_AddElement
    <2> QED BY <1>3, <2>1
  <1>5. Cardinality(clients') <= ClientCapacity
    BY <1>1, <1>2, <1>4, NativeAssumption, SMTT(20) DEF ClientsWell
  <1> QED BY <1>1, <1>4, <1>5 DEF ClientsWell

LEMMA FatesAre ==
  ASSUME ClientsWell, NEW c \in clients
  PROVE  /\ c \in Client /\ c.fate \in Fates
         /\ c.fate # "Pending" => FateStatus(c.fate) \in Answers
         /\ c.fate \in {"Pending", "Deadline"} \/
            FateObservation(c.fate) \in {"ResourceReady", "ResourceClosed", "OwnerRevoked"}
  <1>1. c \in Client
    BY DEF ClientsWell
  <1>2. c.fate \in {"Pending", "ResourceReady", "Closed", "Revoked", "Deadline"}
    BY <1>1, SMTT(20) DEF Client, Fates
  <1>3. c.fate # "Pending" => FateStatus(c.fate) \in Answers
    BY <1>2, SMTT(20) DEF FateStatus, Answers
  <1>4. c.fate \in {"Pending", "Deadline"} \/
            FateObservation(c.fate) \in {"ResourceReady", "ResourceClosed", "OwnerRevoked"}
    BY <1>2, SMTT(20) DEF FateObservation
  <1> QED BY <1>1, <1>2, <1>3, <1>4 DEF Fates

\* A diagnostics call completes with a status that its reply may have.
LEMMA DiagnosticsEnd ==
  ASSUME TablesInv, NativeInv, stopped = "No", UNCHANGED harnessVars, NEW i \in Indices,
         suspended[i].kind = "diagnostics", NEW o, NEW status \in Answers,
         CompleteCall(i, o, status), ClientsWell', UNCHANGED worldVars,
         \/ status = "Exhausted" /\ Cardinality(clients) = ClientCapacity
         \/ status = "Cancelled" /\ ClientsOf(i) = {}
         \/ \E c \in ClientsOf(i) : status = FateStatus(c.fate) /\ c \notin clients'
  PROVE  Preserved /\ AnswerTrue
  <1>1. /\ now' = now /\ inbox' \in 0 .. MaxItems /\ inbox' = inbox /\ completions' = completions
    BY DEF worldVars, harnessVars, NativeInv
  <1>2. /\ Preserved
        /\ Suspended' = Suspended \ {suspended[i].thread} /\ stopped' = "No"
        /\ answer'[suspended[i].thread] = status
    BY <1>1, CompleteKeeps
  <1>3. ReplyTrue(i)
    <2>1. /\ suspended[i].kind # "timer" /\ suspended[i].kind # "datagram"
          /\ suspended[i].kind # "stream"
      BY SMTT(20)
    <2> QED BY <1>2, <2>1 DEF ReplyTrue
  <1>4. RepliesTrue /\ OnlyDeadlineFaults
    BY <1>2, <1>3, OneReply
  <1>5. ~ (inbox' < inbox)
    BY <1>1, SMTT(20) DEF NativeInv
  <1> QED BY <1>2, <1>4, <1>5 DEF AnswerTrue, DatagramDelivered

LEMMA SubmitKeeps ==
  ASSUME TablesInv, NativeInv, stopped = "No", UNCHANGED harnessVars, NEW i \in Indices,
         suspended[i].kind = "diagnostics", Submit(i), UNCHANGED worldVars
  PROVE  Preserved /\ AnswerTrue
  <1>1. PICK s \in CallSlots, w \in WaitSlots : Bound(suspended[i], s, w)
    BY DEF NativeInv, EntriesExact
  <1>2. ClientsWell /\ ClientsOf(i) = {} /\ EntriesExact
    BY DEF NativeInv, Submit
  <1> USE <1>2
  <1> DEFINE d == waits[CHOOSE v \in OfOperation(suspended[i].operation) : TRUE].record.deadline
             c == [operation |-> suspended[i].operation, fate |-> "Pending", deadline |-> d]
  <1>3. CASE /\ Cardinality(clients) < ClientCapacity /\ clients' = clients \cup {c} /\ Advance(i)
             /\ UNCHANGED <<waits, callVars, suspended, answer, stopped>>
    <2>1. (CHOOSE v \in OfOperation(suspended[i].operation) : TRUE) = w
      BY <1>1, Outcome
    <2>2. d \in Nat \cup {NoDeadline}
      BY <1>1, <2>1, SpecOfKind
    <2>3. suspended[i].operation \in Identity
      BY EntriesTyped
    <2> HIDE DEF d
    <2>4. c \in Client
      BY <2>2, <2>3, SMTT(20) DEF Client, Fates
    <2> HIDE DEF c
    <2>5. ClientsWell'
      BY <1>3, <2>4, ClientsGrow
    <2> QED BY <1>3, <2>5, WaitOnKeeps
  <1> HIDE DEF c
  <1>4. CASE /\ Cardinality(clients) >= ClientCapacity /\ CompleteCall(i, "ResourceReady", "Exhausted")
             /\ UNCHANGED clients
    <2>1. ClientsWell'
      BY <1>4 DEF ClientsWell
    <2>2. Cardinality(clients) = ClientCapacity /\ "Exhausted" \in Answers
      BY <1>4, FS_CardinalityType, NativeAssumption, SMTT(20) DEF ClientsWell, Answers
    <2> QED BY <1>4, <2>1, <2>2, DiagnosticsEnd
  <1>5. CASE CompleteCall(i, "OwnerRevoked", "Cancelled") /\ UNCHANGED clients
    <2>1. ClientsWell' /\ "Cancelled" \in Answers
      BY <1>5, Replies DEF ClientsWell
    <2> QED BY <1>5, <2>1, DiagnosticsEnd
  <1> QED BY <1>3, <1>4, <1>5 DEF Submit, c

LEMMA ConsumeKeeps ==
  ASSUME TablesInv, NativeInv, stopped = "No", UNCHANGED harnessVars, NEW i \in Indices,
         suspended[i].kind = "diagnostics", Consume(i), UNCHANGED worldVars
  PROVE  Preserved /\ AnswerTrue
  <1>1. ClientsWell
    BY DEF NativeInv
  <1>2. PICK c \in ClientsOf(i) :
        \/ /\ Advance(i) /\ UNCHANGED <<waits, callVars, suspended, answer, stopped, clients>>
        \/ /\ c.fate # "Pending" /\ clients' = clients \ {c}
           /\ \/ CompleteCall(i, FateObservation(c.fate), FateStatus(c.fate))
              \/ KeepWaiting(i, FateObservation(c.fate))
    BY DEF Consume
  <1>3. c \in clients
    BY DEF ClientsOf
  <1>4. CASE Advance(i) /\ UNCHANGED <<waits, callVars, suspended, answer, stopped, clients>>
    <2>1. ClientsWell' /\ UNCHANGED <<waits, callVars, suspended, answer, stopped>>
      BY <1>1, <1>4 DEF ClientsWell
    <2> QED BY <1>4, <2>1, WaitOnKeeps
  <1>5. CASE c.fate # "Pending" /\ clients' = clients \ {c}
    <2>1. ClientsWell' /\ c \notin clients'
      BY <1>1, <1>3, <1>5, ClientsShrink
    <2>2. CASE KeepWaiting(i, FateObservation(c.fate))
      BY <2>1, <2>2, WaitOnKeeps DEF KeepWaiting
    <2>3. CASE CompleteCall(i, FateObservation(c.fate), FateStatus(c.fate))
      <3>1. FateStatus(c.fate) \in Answers
        BY <1>1, <1>3, <1>5, FatesAre
      <3> QED BY <2>1, <2>3, <3>1, DiagnosticsEnd
    <2>4. \/ CompleteCall(i, FateObservation(c.fate), FateStatus(c.fate))
          \/ KeepWaiting(i, FateObservation(c.fate))
          \/ Advance(i) /\ UNCHANGED <<waits, callVars, suspended, answer, stopped, clients>>
      BY <1>2
    <2> QED BY <1>4, <2>2, <2>3, <2>4
  <1> QED BY <1>2, <1>4, <1>5

\* The one error that stops the process: the deadline of a diagnostics request.
LEMMA ConsumeFailsKeeps ==
  ASSUME TablesInv, NativeInv, UNCHANGED harnessVars, NEW i \in Indices,
         suspended[i].kind = "diagnostics", ConsumeFails(i)
  PROVE  Preserved /\ AnswerTrue
  <1>1. PICK s \in CallSlots, w \in WaitSlots : Bound(suspended[i], s, w)
    BY DEF NativeInv, EntriesExact
  <1>2. PICK c \in clients : /\ c.fate # "Pending" /\ Fails(i, FateObservation(c.fate)) /\ Revoke("Poll")
    BY DEF ConsumeFails, ClientsOf
  <1> DEFINE spec == waits[w].record
             why(o) == Observed(spec, o, now)
  <1>3. spec.resource # NoResource /\ "ResourceReady" \in spec.interests
    BY <1>1, SpecOfKind
  <1>4. /\ why("ResourceReady") = "ResourceReady" /\ why("ResourceClosed") = "Closed"
        /\ why("OwnerRevoked") = "Revoked"
    BY Seen
  <1>5. \A o : Fails(i, o) => ~ (Accepts(spec, why(o)) /\ ReplyTo(suspended[i].kind, why(o)) # "None")
    BY <1>1, Outcome
  <1> HIDE DEF why
  <1>6. /\ ~ Fails(i, "ResourceReady") /\ ~ Fails(i, "ResourceClosed") /\ ~ Fails(i, "OwnerRevoked")
    BY <1>3, <1>4, <1>5, Accepted, Replies
  <1>7. c.fate = "Deadline"
    <2>1. \/ c.fate \in {"Pending", "Deadline"}
          \/ FateObservation(c.fate) \in {"ResourceReady", "ResourceClosed", "OwnerRevoked"}
      BY FatesAre DEF NativeInv
    <2> QED BY <1>2, <1>6, <2>1
  <1>8. "Poll" \in {"Stopped", "Prepare", "Poll"}
    BY SMTT(20)
  <1> QED BY <1>2, <1>7, <1>8, RevokeTrue, RevokeKeepsNative

LEMMA PollKeeps ==
  ASSUME TablesInv, NativeInv, UNCHANGED harnessVars, Poll
  PROVE  Preserved /\ AnswerTrue
  <1> DEFINE i == (cursor % Len(suspended)) + 1
  <1>1. stopped = "No" /\ suspended # <<>>
    BY DEF Poll
  <1> USE <1>1
  <1>2. i \in Indices
    <2>1. /\ suspended \in Seq(Entry) /\ Indices = 1 .. Len(suspended) /\ cursor \in Nat
      BY EntriesTyped, Ranges, SMTT(20) DEF NativeInv, EntriesExact
    <2>2. Len(suspended) \in Nat /\ Len(suspended) > 0
      BY <2>1, SMTT(20)
    <2>3. cursor % Len(suspended) \in 0 .. Len(suspended) - 1
      BY <2>1, <2>2, SMTT(20)
    <2> QED BY <2>1, <2>2, <2>3, SMTT(20)
  <1> USE <1>2
  <1>3. \/ suspended[i].kind = "timer" /\ PollTimer(i)
        \/ suspended[i].kind = "datagram" /\ PollDatagram(i)
        \/ suspended[i].kind = "stream" /\ PollStream(i)
        \/ suspended[i].kind = "diagnostics" /\ PollDiagnostics(i)
    BY DEF Poll
  <1> HIDE DEF i
  <1>4. CASE suspended[i].kind = "timer" /\ PollTimer(i)
    BY <1>4, PollTimerKeeps
  <1>5. CASE suspended[i].kind = "datagram" /\ PollDatagram(i)
    BY <1>5, PollDatagramKeeps
  <1>6. CASE suspended[i].kind = "stream" /\ PollStream(i)
    BY <1>6, PollStreamKeeps
  <1>7. CASE suspended[i].kind = "diagnostics" /\ PollDiagnostics(i)
    <2>1. CASE Submit(i) /\ UNCHANGED worldVars
      BY <1>7, <2>1, SubmitKeeps
    <2>2. CASE Consume(i) /\ UNCHANGED worldVars
      BY <1>7, <2>2, ConsumeKeeps
    <2>3. CASE ConsumeFails(i)
      BY <1>7, <2>3, ConsumeFailsKeeps
    <2> QED BY <1>7, <2>1, <2>2, <2>3 DEF PollDiagnostics
  <1> QED BY <1>3, <1>4, <1>5, <1>6, <1>7

LEMMA ServerFateKeeps ==
  ASSUME TablesInv, NativeInv, UNCHANGED harnessVars, NEW c \in clients, ServerFate(c)
  PROVE  Preserved /\ AnswerTrue
  <1>1. PICK fate \in {"ResourceReady", "Closed", "Revoked", "Deadline"} :
           clients' = (clients \ {c}) \cup {[c EXCEPT !.fate = fate]}
    BY SMTT(20) DEF ServerFate
  <1>2. /\ UNCHANGED <<waits, callVars>> /\ UNCHANGED <<suspended, stopped>> /\ stopped' = stopped
        /\ cursor' = cursor /\ answer' = answer /\ now' = now /\ inbox' = inbox
        /\ completions' = completions
    BY DEF ServerFate, worldVars, harnessVars
  <1>3. ClientsWell /\ c \in Client /\ stopped = "No"
    <2>1. stopped = "No"
      BY DEF NativeInv
    <2> QED BY <2>1 DEF NativeInv, ClientsWell
  <1>4. [c EXCEPT !.fate = fate] \in Client
    BY <1>3, SMTT(20) DEF Client, Fates
  <1>5. ClientsWell'
    BY <1>1, <1>3, <1>4, ClientsExchange
  <1>6. /\ cursor' \in 0 .. Cardinality(Thread) /\ answer' \in [Thread -> Answers]
        /\ now' \in 0 .. MaxTime /\ inbox' \in 0 .. MaxItems
    BY <1>2 DEF NativeInv
  <1>7. /\ Preserved
        /\ Suspended' = Suspended
    BY <1>2, <1>3, <1>5, <1>6, QuietKeepsNative
  <1> QED BY <1>2, <1>7, QuietTrue

\* The clock, the packets and the writers.
LEMMA WorldKeeps ==
  ASSUME TablesInv, NativeInv, UNCHANGED harnessVars, Tick \/ Arrive \/ Written \/ Closed
  PROVE  Preserved /\ AnswerTrue
  <1>1. UNCHANGED ioVars /\ completions' = completions
    BY DEF Tick, Arrive, Written, Closed, harnessVars
  <1>2. /\ UNCHANGED <<waits, callVars>> /\ UNCHANGED <<suspended, stopped>>
        /\ stopped' = stopped /\ clients' = clients /\ suspended' = suspended
    BY <1>1 DEF ioVars, callVars
  <1>3. cursor' \in 0 .. Cardinality(Thread) /\ answer' \in [Thread -> Answers] /\ ClientsWell'
    BY <1>1 DEF NativeInv, ClientsWell, ioVars
  <1>4. now' \in 0 .. MaxTime /\ inbox' \in 0 .. MaxItems /\ ~ (inbox' < inbox)
    <2>1. /\ now \in Nat /\ inbox \in Nat /\ now <= MaxTime /\ inbox <= MaxItems
          /\ MaxTime \in Nat /\ MaxItems \in Nat
      BY Ranges
    <2>2. CASE Tick
      BY <2>1, <2>2, SMTT(20) DEF Tick
    <2>3. CASE Arrive
      BY <2>1, <2>3, SMTT(20) DEF Arrive
    <2>4. CASE Written \/ Closed
      <3>1. now' = now /\ inbox' = inbox
        BY <2>4 DEF Written, Closed
      <3> QED BY <2>1, <3>1, SMTT(20)
    <2> QED BY <2>2, <2>3, <2>4
  <1>5. /\ Preserved
        /\ Suspended' = Suspended
    BY <1>1, <1>2, <1>3, <1>4, QuietKeepsNative
  <1>6. AnswerTrue
    <2>1. \A i \in Indices : suspended[i].thread \in Suspended'
      BY <1>5 DEF Suspended
    <2>2. stopped = "No" => stopped' \notin {"Prepare", "Poll"}
      BY <1>2, SMTT(20)
    <2> QED BY <1>4, <2>1, <2>2
            DEF AnswerTrue, DatagramDelivered, RepliesTrue, OnlyDeadlineFaults
  <1> QED BY <1>5, <1>6

LEMMA NativeKeeps ==
  ASSUME TablesInv, NativeInv, UNCHANGED harnessVars, IoNext
  PROVE  Preserved /\ AnswerTrue
  <1>1. ASSUME NEW t \in Thread, Call(t)
        PROVE  Preserved /\ AnswerTrue
    BY <1>1, CallKeeps
  <1>2. CASE Poll
    BY <1>2, PollKeeps
  <1>3. CASE Stop
    <2>1. Revoke("Stopped") /\ "Stopped" \in {"Stopped", "Prepare", "Poll"}
      BY <1>3, SMTT(20) DEF Stop
    <2> QED BY <2>1, RevokeKeepsNative, RevokeTrue
  <1>4. CASE Tick \/ Arrive \/ Written \/ Closed
    BY <1>4, WorldKeeps
  <1>5. ASSUME NEW c \in clients, ServerFate(c)
        PROVE  Preserved /\ AnswerTrue
    BY <1>5, ServerFateKeeps
  <1> QED BY <1>1, <1>2, <1>3, <1>4, <1>5 DEF IoNext

-----------------------------------------------------------------------------
(* The theorems.                                                             *)

LEMMA InitInv ==
  ASSUME UseInit
  PROVE  CallsInv
  <1>1. /\ waits = [w \in WaitSlots |-> EmptyWait]
        /\ calls = [s \in CallSlots |-> [generation |-> 1, retired |-> FALSE, record |-> NoCall]]
        /\ lastRequest = 0 /\ retained = 0 /\ suspended = <<>> /\ cursor = 0 /\ now = 0 /\ inbox = 0
        /\ clients = {} /\ answer = [t \in Thread |-> "None"] /\ stopped = "No" /\ completions = {}
    BY DEF UseInit, IoInit, WaitInit, CallsInit
  <1> USE <1>1
  <1>2. \A w \in WaitSlots : /\ waits[w] \in WaitSlot /\ waits[w].record = NoWait
                             /\ waits[w].generation = 1 /\ ~ waits[w].retired
    BY NativeAssumption, SMTT(20) DEF EmptyWait, WaitSlot
  <1> USE <1>2
  <1>3. \A s \in CallSlots : /\ calls[s] \in CallSlot /\ calls[s].record = NoCall
                             /\ calls[s].generation = 1 /\ ~ calls[s].retired
    BY NativeAssumption, SMTT(20) DEF CallSlot
  <1> USE <1>3
  <1>4. Held = {} /\ Pending = {}
    BY DEF Held, Pending
  <1> USE <1>4
  <1>5. waits \in [WaitSlots -> WaitSlot] /\ calls \in [CallSlots -> CallSlot]
    OBVIOUS
  <1>6. WaitsWell
    BY <1>5 DEF WaitsWell
  <1>7. CallsWell
    <2>1. BytesOf(Pending) = 0
      <3> DEFINE f == [s \in {} |-> 0]
      <3>1. BytesOf({}) = Total({}, f)
        BY BytesAre
      <3>2. Total({}, f) = 0
        BY TotalTaken, FS_EmptySet
      <3> QED BY <3>1, <3>2
    <2>2. lastRequest \in Nat /\ retained <= ByteCapacity
      BY NativeAssumption, SMTT(20)
    <2> QED BY <1>5, <2>1, <2>2 DEF CallsWell, Apart
  <1>8. TablesInv
    BY <1>6, <1>7 DEF TablesInv, Linked, CompletionsOver
  <1>9. EntriesExact
    <2>1. suspended \in Seq(Entry) /\ Len(suspended) = 0 /\ Indices = {}
      BY SMTT(20) DEF Indices
    <2>2. Len(suspended) <= Cardinality(Thread)
      BY <2>1, FS_CardinalityType, NativeAssumption, SMTT(20)
    <2> QED BY <2>1, <2>2 DEF EntriesExact
  <1>10. Frugal
    <2>1. \A s \in CallSlots : Spent(calls[s], NoCall, lastRequest)
      BY SMTT(20) DEF Spent
    <2>2. \A w \in WaitSlots : Spent(waits[w], NoWait, lastRequest)
      BY SMTT(20) DEF Spent
    <2> QED BY <2>1, <2>2 DEF Frugal
  <1>11. ClientsWell
    <2>1. 0 <= ClientCapacity
      BY NativeAssumption, SMTT(20)
    <2> QED BY <2>1, FS_EmptySet DEF ClientsWell
  <1>12. /\ cursor \in 0 .. Cardinality(Thread) /\ now \in 0 .. MaxTime /\ inbox \in 0 .. MaxItems
         /\ stopped \in {"No", "Stopped", "Prepare", "Poll"}
    BY FS_CardinalityType, NativeAssumption, SMTT(20)
  <1>13. answer \in [Thread -> Answers]
    BY SMTT(20) DEF Answers
  <1>14. NativeInv
    BY <1>9, <1>10, <1>11, <1>12, <1>13 DEF NativeInv
  <1> QED BY <1>8, <1>14 DEF CallsInv

\* Every step keeps the invariant, and does what its names and answers promise.
LEMMA StepInv ==
  ASSUME CallsInv, UseNext
  PROVE  /\ CallsInv' /\ KeyNamesOneWait /\ OperationNamesOneCall
         /\ (part = "native" => AnswerTrue)
  <1>1. TablesInv /\ (part = "native" => NativeInv)
    BY DEF CallsInv
  <1>2. CASE part = "native" /\ IoNext /\ UNCHANGED harnessVars
    <2>1. Preserved /\ AnswerTrue
      BY <1>1, <1>2, NativeKeeps
    <2> QED BY <2>1 DEF CallsInv, Preserved
  <1>3. CASE part = "any" /\ AnyUse /\ part' = part
    <2>1. TablesInv' /\ KeyNamesOneWait /\ OperationNamesOneCall
      BY <1>1, <1>3, AnyKeepsTables
    <2>2. part # "native" /\ part' # "native"
      BY <1>3, SMTT(20)
    <2> QED BY <2>1, <2>2 DEF CallsInv
  <1> QED BY <1>2, <1>3 DEF UseNext

LEMMA StutterInv ==
  ASSUME CallsInv, UNCHANGED <<nativeVars, harnessVars>>
  PROVE  CallsInv'
  <1>1. /\ UNCHANGED <<waits, completions>> /\ UNCHANGED callVars /\ TablesInv
        /\ UNCHANGED <<suspended, stopped>> /\ part' = part /\ lastRequest' = lastRequest
        /\ completions' = completions /\ UNCHANGED <<waits, callVars>>
    BY DEF nativeVars, harnessVars, ioVars, callVars, CallsInv
  <1>2. TablesInv'
    BY <1>1, IdleKeepsTables
  <1>3. ASSUME part = "native"
        PROVE  NativeInv'
    <2>1. NativeInv
      BY <1>3 DEF CallsInv
    <2>2. /\ cursor' \in 0 .. Cardinality(Thread) /\ answer' \in [Thread -> Answers]
          /\ now' \in 0 .. MaxTime /\ inbox' \in 0 .. MaxItems /\ ClientsWell' /\ clients' = clients
      BY <2>1 DEF NativeInv, ClientsWell, nativeVars, ioVars, worldVars
    <2> QED BY <1>1, <2>1, <2>2, QuietKeepsNative DEF Preserved
  <1> QED BY <1>1, <1>2, <1>3 DEF CallsInv

\* The invariant holds for every number of threads, slots, generations, clients
\* and messages: the tables below the calls are exact in whatever order they are
\* used, and in a native process each suspended call is one pending call bound to
\* one wait.
THEOREM CallsAreExact == UseSpec => []CallsInv
  <1>1. CallsInv /\ [UseNext]_<<nativeVars, harnessVars>> => CallsInv'
    BY StepInv, StutterInv
  <1> QED BY <1>1, InitInv, PTL DEF UseSpec

\* The suspended calls, the pending calls and the waits of a native process agree
\* at every moment, and a stopped process leaves nothing in any of them.
THEOREM TablesAlwaysAgree == UseSpec => []TablesAgree
  <1>1. CallsInv => TablesAgree
    BY NativeAgrees DEF CallsInv, TablesAgree
  <1> QED BY <1>1, CallsAreExact, PTL

\* A wait always belongs to a pending call that is bound to exactly it, the calls
\* are apart, and the bytes they are charged are exact and within the ceiling.
THEOREM WaitsAlwaysHaveCalls == UseSpec => []WaitsHaveCalls
  <1>1. CallsInv => WaitsHaveCalls
    <2> SUFFICES ASSUME CallsInv PROVE WaitsHaveCalls
      BY SMTT(20)
    <2>1. WaitsWell /\ CallsWell /\ Linked
      BY DEF CallsInv, TablesInv
    <2> USE <2>1
    <2>2. \A w \in WaitSlots : /\ waits[w].generation \in 1 .. LastGeneration
                               /\ waits[w].retired \in BOOLEAN
      BY SMTT(20) DEF WaitsWell, WaitSlot
    <2>3. WaitTypeOK
      BY <2>2 DEF WaitTypeOK, WaitsWell, Held
    <2>4. \A s \in CallSlots : calls[s].generation \in 1 .. LastGeneration
      BY SMTT(20) DEF CallsWell, CallSlot
    <2>5. \A s \in Pending : calls[s].record.state \in {"New", "Waiting", "Ready"}
      <3> TAKE s \in Pending
      <3>1. calls[s].record \in CallRecord
        BY CallsTyped
      <3> QED BY <3>1, SMTT(20) DEF CallRecord
    <2>6. NoWait \notin Identity
      BY AbsenceAssumption
    <2>7. CallTypeOK
      BY <2>4, <2>5, <2>6 DEF CallTypeOK, CallsWell
    <2>8. CallsExact
      BY <2>7 DEF CallsExact, CallsWell, Apart
    <2> QED BY <2>3, <2>8 DEF WaitsHaveCalls, Linked, Waits
  <1> QED BY <1>1, CallsAreExact, PTL

\* A suspended call is answered only for a condition that holds, no packet is lost
\* on the way, and nothing but the deadline of a diagnostics request stops a native
\* process: every other error path of `prepare' and `poll' is unreachable.
THEOREM AnswersAreTrue == UseSpec => AnswersHold
  <1>1. CallsInv /\ [UseNext]_<<nativeVars, harnessVars>>
          => [part = "native" => AnswerTrue]_<<nativeVars, harnessVars>>
    BY StepInv
  <1> QED BY <1>1, CallsAreExact, PTL DEF UseSpec, AnswersHold

\* Keys and operation identities are never used twice: a wake or a completion for
\* one that is gone, however late, finds nothing.
THEOREM NamesNeverReused == UseSpec => NamesAreForever
  <1>1. CallsInv /\ [UseNext]_<<nativeVars, harnessVars>>
          => [KeyNamesOneWait /\ OperationNamesOneCall]_<<waits, calls>>
    BY StepInv DEF nativeVars, ioVars
  <1> QED BY <1>1, CallsAreExact, PTL DEF UseSpec, NamesAreForever
=============================================================================
