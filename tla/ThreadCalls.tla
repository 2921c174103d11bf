----------------------------- MODULE ThreadCalls -----------------------------
(***************************************************************************)
(* The wait table and the pending calls in use: below the suspended calls  *)
(* of a native process, and in every order their interfaces allow, where   *)
(* completions are delivered late, twice or never, keys and identities     *)
(* that are gone are used again, and several waits end in one step.        *)
(* `part' names the use a behaviour makes of them.                         *)
(***************************************************************************)
EXTENDS NativeIo

VARIABLES
    part,
    completions    \* the wait completions handed out so far

harnessVars == <<part, completions>>

Callers == {CallerOf(t) : t \in Thread \cup {WholeTask}}
Identities == [slot : CallSlots, generation : 1 .. LastGeneration]
Keys == [slot : WaitSlots, generation : 1 .. LastGeneration]

\* A timer, a datagram read with its deadline, and a diagnostics request, whose
\* deadline is not among its conditions.  The caller that begins an operation is
\* the one that waits for it.
Specs(s) ==
    {[caller |-> calls[s].record.caller, operation |-> Operation(s), resource |-> x[1],
      interests |-> x[2], deadline |-> MaxTime] :
        x \in {<<NoResource, {"Deadline"}>>, <<1, {"ResourceReady", "Deadline"}>>,
               <<1, {"ResourceReady"}>>}}

\* One suspension: register the wait of a new call and bind the call to it, or
\* mark the call ready when its condition is visible already.
AnySuspend ==
    \E s \in Pending, o \in {"Pending", "ResourceReady"} : \E spec \in Specs(s) :
        /\ Register(spec, o, now)
        /\ \/ MarkReady(Operation(s)) /\ waits' = waits
           \/ \E w \in FreeWaits : waits'[w] # waits[w] /\ BindWait(Operation(s), Key(w))
        /\ UNCHANGED <<completions, now>>

\* Any operation that ends waits hands out their completions.
Ends ==
    \/ \E k \in Keys : WakeKey(k, "ResourceReady")
    \/ \E x \in {"ResourceReady", "Closed"} : WakeResource(1, x)
    \/ \E o \in Identities, x \in {1, NoResource}, b \in {"Pending", "ResourceReady"} :
          ObserveOperation(o, x, b, now)
    \/ Expire(now)
    \/ \E o \in Identities : CancelOperation(o, "Cancelled")
    \/ CancelOwner(1, "Revoked")

AnyWake ==
    /\ Ends
    /\ completions' = completions \cup
         {[operation |-> waits[w].record.operation, caller |-> waits[w].record.caller,
           key |-> Key(w)] : w \in {v \in Held : waits'[v].record = NoWait}}
    /\ UNCHANGED <<callVars, now>>

Deliver ==
    \E c \in completions :
        /\ ResolveCall(c.operation, c.caller, c.key)
        /\ UNCHANGED <<waits, completions, now>>

\* Revocation of a task: waits first, then the calls.
AnyRevoke ==
    /\ DiscardOwner(1, "Revoked")
    /\ TeardownOwner(1, "Revoked")
    /\ UNCHANGED <<completions, now>>

AnyTick == now < MaxTime /\ now' = now + 1 /\ UNCHANGED <<waits, callVars, completions>>

AnyUse ==
    \/ \E c \in Callers, x \in 1 .. MaxRequest, b \in 1 .. ByteCapacity :
          Begin(c, x, b) /\ UNCHANGED <<waits, completions, now>>
    \/ \E o \in Identities : FinishCall(o) /\ UNCHANGED <<waits, completions, now>>
    \/ AnySuspend \/ AnyWake \/ Deliver \/ AnyRevoke \/ AnyTick

UseInit == completions = {} /\ IoInit

UseNext ==
    \/ part = "native" /\ IoNext /\ UNCHANGED harnessVars
    \/ /\ part = "any" /\ AnyUse
       /\ UNCHANGED <<part, suspended, cursor, inbox, stream, clients, answer, stopped>>

UseSpec == part \in {"native", "any"} /\ UseInit /\ [][UseNext]_<<nativeVars, harnessVars>>

-----------------------------------------------------------------------------
\* A suspended call is answered truly (NativeIo), in a native process.
AnswersHold == [][part = "native" => AnswerTrue]_<<nativeVars, harnessVars>>

\* The suspended calls, the pending calls and the waits agree (NativeIo), in a
\* native process.
TablesAgree == part = "native" => SuspendedExact

\* A published wait always belongs to a call that is bound to exactly it: since
\* `teardown_owner` follows `discard_owner`, no wait retains the identity of a
\* call that is gone.  The calls and the bytes they are charged are exact.
WaitsHaveCalls ==
    /\ WaitTypeOK
    /\ CallsExact
    /\ \A w \in Held :
          \E s \in Named(waits[w].record.operation) :
              /\ calls[s].record.state = "Waiting"
              /\ calls[s].record.key = Key(w)
              /\ calls[s].record.caller = waits[w].record.caller

\* Keys and operation identities are never used twice, however late a wake or a
\* completion for an old one arrives (WaitTable, PendingCalls).
NamesAreForever == [][KeyNamesOneWait /\ OperationNamesOneCall]_<<waits, calls>>

-----------------------------------------------------------------------------
(* The inductive invariant of the proofs.                                    *)

WaitSlot ==
    [generation : 1 .. LastGeneration, retired : BOOLEAN, record : Registration \cup {NoWait}]

CallSlot ==
    [generation : 1 .. LastGeneration, retired : BOOLEAN, record : CallRecord \cup {NoCall}]

\* The wait table alone.
WaitsWell ==
    /\ waits \in [WaitSlots -> WaitSlot]
    /\ \A w \in WaitSlots :
          waits[w].retired => waits[w].record = NoWait /\ waits[w].generation = LastGeneration
    /\ \A w \in Held : ValidSpec(waits[w].record) /\ waits[w].record.caller.task = OwnTask

\* No two calls are held for callers that exclude each other, or for one request.
Apart ==
    \A r, s \in Pending : r # s =>
        /\ ~Conflicts(calls[r].record.caller, calls[s].record.caller)
        /\ calls[r].record.request # calls[s].record.request

\* The pending calls alone.
CallsWell ==
    /\ calls \in [CallSlots -> CallSlot] /\ lastRequest \in Nat
    /\ \A s \in CallSlots :
          calls[s].retired => calls[s].record = NoCall /\ calls[s].generation = LastGeneration
    /\ \A s \in Pending :
          /\ calls[s].record.caller.task = OwnTask
          /\ calls[s].record.request \in 1 .. lastRequest
          /\ calls[s].record.state = "Waiting" => calls[s].record.key \in Identity
    /\ Apart
    /\ retained = BytesOf(Pending) /\ retained <= ByteCapacity

\* Call s waits on registration w.
Waits(s, w) ==
    /\ calls[s].record.state = "Waiting"
    /\ calls[s].record.key = Key(w)
    /\ calls[s].record.caller = waits[w].record.caller

Linked == \A w \in Held : \E s \in Named(waits[w].record.operation) : Waits(s, w)

\* A key that no registration will have again.
Over(key) ==
    \A w \in WaitSlots : key.slot = w => waits[w].retired \/ waits[w].generation > key.generation

CompletionsOver == \A c \in completions : c.key \in Identity /\ Over(c.key)

TablesInv == WaitsWell /\ CallsWell /\ Linked /\ CompletionsOver

Entry == [thread : Thread, kind : Kind, operation : Identity]

Fates == {"Pending", "ResourceReady", "Closed", "Revoked", "Deadline"}

Client == [operation : Identity, deadline : Nat \cup {NoDeadline}, fate : Fates]

\* The suspended call e is call s, and registration w is all it waits for.
Bound(e, s, w) ==
    /\ s \in Pending /\ w \in Held /\ e.operation = Operation(s)
    /\ Waits(s, w) /\ calls[s].record.bytes = 1
    /\ waits[w].record = SpecFor(e.thread, e.kind, e.operation, waits[w].record.deadline)
    /\ e.kind = "stream" => waits[w].record.deadline = NoDeadline

\* A slot has spent no more generations than n requests account for.
Spent(x, none, n) ==
    x.generation + (IF x.retired THEN 1 ELSE 0) + (IF x.record = none THEN 0 ELSE 1) <= n + 1

Frugal ==
    /\ \A s \in CallSlots : Spent(calls[s], NoCall, lastRequest)
    /\ \A w \in WaitSlots : Spent(waits[w], NoWait, lastRequest)

\* The suspended calls of a native process and the tables below them.
EntriesExact ==
    /\ suspended \in Seq(Entry) /\ Len(suspended) <= Cardinality(Thread)
    /\ \A i, j \in Indices : suspended[i].thread = suspended[j].thread => i = j
    /\ \A i \in Indices : \E s \in CallSlots, w \in WaitSlots : Bound(suspended[i], s, w)
    /\ \A s \in Pending : \E i \in Indices : suspended[i].operation = Operation(s)

ClientsWell ==
    /\ clients \in SUBSET Client /\ IsFiniteSet(clients)
    /\ Cardinality(clients) <= ClientCapacity

NativeInv ==
    /\ EntriesExact /\ Frugal /\ ClientsWell
    /\ cursor \in 0 .. Cardinality(Thread) /\ answer \in [Thread -> Answers]
    /\ now \in 0 .. MaxTime /\ inbox \in 0 .. MaxItems
    /\ stopped \in {"No", "Stopped", "Prepare", "Poll"}
    /\ stopped # "No" => suspended = <<>> /\ clients = {}

\* The inductive invariant.
CallsInv == TablesInv /\ (part = "native" => NativeInv)
==============================================================================
