------------------------------ MODULE SubHome ------------------------------
(***************************************************************************)
(* The publish/subscribe primitive every actor of the repository is built  *)
(* on (src/ds/sub/sub.go), with the history replay that the five           *)
(* schedulers add to it (e.g. src/scheduler/payout/internal.go:101-111).   *)
(*                                                                         *)
(* One goroutine, the home, owns the subscription map.  Clients reach it   *)
(* through two buffered channels: ReqC (a request for a subscription) and  *)
(* DeleteC (an Unsubscribe).  Each subscription has a stream channel and   *)
(* an error channel of capacity one; a client whose stream is full is      *)
(* thrown out by the broadcast that finds it full.                         *)
(*                                                                         *)
(* A value is represented by its position in the history of broadcasts,    *)
(* which is all that order, loss and duplication can be stated with, and   *)
(* a filter by the positions it accepts.                                   *)
(***************************************************************************)
EXTENDS Naturals, Sequences, TLC

CONSTANTS
    Clients,       \* goroutines that subscribe, each of them once
    BufSize,       \* requestedBufferSize: capacity of StreamC
    ReqCap,        \* capacity of ReqC (10 in CreateSubHome)
    DelCap,        \* capacity of DeleteC (10 in CreateSubHome)
    MaxBroadcast,  \* bound on the number of broadcasts
    Filters,       \* filterCallback: sets of values a client may ask for
    Replays,       \* TRUE for the schedulers, which replay their history
    ClosesOnExit   \* TRUE when the owner runs `defer home.Close()'

ASSUME SubHomeAssumption ==
    /\ BufSize \in Nat \ {0}
    /\ ReqCap \in Nat \ {0}
    /\ DelCap \in Nat \ {0}
    /\ MaxBroadcast \in Nat
    /\ Replays \in BOOLEAN
    /\ ClosesOnExit \in BOOLEAN

\* Clients are told apart by nothing but their name.
ClientSymmetry == Permutations(Clients)

VARIABLES
    home,     \* "run" until the owner's loop breaks, then "exit"
    nextId,   \* SubHome.id
    subs,     \* clients whose innerSubscription is in SubHome.subs
    reqQ,     \* contents of ReqC: the clients that ask
    delQ,     \* contents of DeleteC: subscription ids
    sent,     \* number of values broadcast so far
    client,   \* where each client is
    sid,      \* Subscription.id of each client
    filter,   \* innerSubscription.filter of each client
    since,    \* value of sent when the client was received
    next,     \* next value of the history to replay to the client, or 0
    stream,   \* contents of each StreamC
    errC,     \* contents of each ErrorC
    got       \* values each client has taken from its StreamC

vars == <<home, nextId, subs, reqQ, delQ, sent, client, sid, filter, since,
          next, stream, errC, got>>

\* idle -> waiting (blocked on respC) -> open -> leaving -> gone;
\* a client whose request finds ReqC full is "refused" on the spot.
ClientStates == {"idle", "waiting", "open", "leaving", "gone", "refused"}

Errors == {"nil", "full"}

Init ==
    /\ home = "run"
    /\ nextId = 0
    /\ subs = {}
    /\ reqQ = <<>>
    /\ delQ = <<>>
    /\ sent = 0
    /\ client = [c \in Clients |-> "idle"]
    /\ sid = [c \in Clients |-> 0]
    /\ filter = [c \in Clients |-> {}]
    /\ since = [c \in Clients |-> 0]
    /\ next = [c \in Clients |-> 0]
    /\ stream = [c \in Clients |-> <<>>]
    /\ errC = [c \in Clients |-> <<>>]
    /\ got = [c \in Clients |-> <<>>]

-----------------------------------------------------------------------------
(* The clients.                                                            *)

\* SubscriptionRequestWithBufferSize: a non-blocking send on ReqC, then a
\* blocking receive on respC.  When ReqC is full the caller gets a dead
\* subscription whose ErrorC holds "request queue full".
SubscriptionRequest(c) ==
    /\ client[c] = "idle"
    /\ IF Len(reqQ) < ReqCap
       THEN /\ reqQ' = Append(reqQ, c)
            /\ \E f \in Filters : filter' = [filter EXCEPT ![c] = f]
            /\ client' = [client EXCEPT ![c] = "waiting"]
       ELSE /\ client' = [client EXCEPT ![c] = "refused"]
            /\ UNCHANGED <<reqQ, filter>>
    /\ UNCHANGED <<home, nextId, subs, delQ, sent, sid, since, next, stream,
                   errC, got>>

\* <-sub.StreamC
Take(c) ==
    /\ client[c] = "open"
    /\ stream[c] # <<>>
    /\ got' = [got EXCEPT ![c] = Append(@, Head(stream[c]))]
    /\ stream' = [stream EXCEPT ![c] = Tail(@)]
    /\ UNCHANGED <<home, nextId, subs, reqQ, delQ, sent, client, sid, filter,
                   since, next, errC>>

\* <-sub.ErrorC: every reader in the repository breaks out of its loop.
TakeError(c) ==
    /\ client[c] = "open"
    /\ errC[c] # <<>>
    /\ errC' = [errC EXCEPT ![c] = Tail(@)]
    /\ client' = [client EXCEPT ![c] = "leaving"]
    /\ UNCHANGED <<home, nextId, subs, reqQ, delQ, sent, sid, filter, since,
                   next, stream, got>>

\* The reader breaks out of its loop for a reason of its own.
Leave(c) ==
    /\ client[c] = "open"
    /\ client' = [client EXCEPT ![c] = "leaving"]
    /\ UNCHANGED <<home, nextId, subs, reqQ, delQ, sent, sid, filter, since,
                   next, stream, errC, got>>

\* The deferred Subscription.Unsubscribe: a blocking send on DeleteC.
Unsubscribe(c) ==
    /\ client[c] = "leaving"
    /\ Len(delQ) < DelCap
    /\ delQ' = Append(delQ, sid[c])
    /\ client' = [client EXCEPT ![c] = "gone"]
    /\ UNCHANGED <<home, nextId, subs, reqQ, sent, sid, filter, since, next,
                   stream, errC, got>>

-----------------------------------------------------------------------------
(* The home goroutine.                                                     *)

\* The home is in its select: it is not replaying its history to anybody.
AtSelect == home = "run" /\ \A c \in Clients : next[c] = 0

\* SubHome.Receive that counts its ids on by step.
ReceiveWithStep(step) ==
    /\ AtSelect
    /\ reqQ # <<>>
    /\ LET c == Head(reqQ) IN
       /\ sid' = [sid EXCEPT ![c] = nextId]
       /\ nextId' = nextId + step
       /\ subs' = {d \in subs : sid[d] # nextId} \cup {c}
       /\ since' = [since EXCEPT ![c] = sent]
       /\ next' = [next EXCEPT ![c] = IF Replays /\ sent > 0 THEN 1 ELSE 0]
       /\ client' = [client EXCEPT ![c] = "open"]
    /\ reqQ' = Tail(reqQ)
    /\ UNCHANGED <<home, delQ, sent, filter, stream, errC, got>>

\* Mutant: the id is not counted on.
ReceiveSameId == ReceiveWithStep(0)

\* SubHome.Receive: the subscription goes to the client, which may use it at
\* once, and into the map.
Receive == ReceiveWithStep(1)

\* One round of the loop over in.history.Array() that follows Receive in the
\* schedulers, with room for at most cap values in the stream: what does not
\* fit is dropped.  The filter is not asked.
ReplayWithRoom(c, cap) ==
    /\ next[c] # 0
    /\ stream' = IF Len(stream[c]) < cap
                 THEN [stream EXCEPT ![c] = Append(@, next[c])]
                 ELSE stream
    /\ next' = [next EXCEPT ![c] = IF @ = sent THEN 0 ELSE @ + 1]
    /\ UNCHANGED <<home, nextId, subs, reqQ, delQ, sent, client, sid, filter,
                   since, errC, got>>

\* Mutant: the replay leaves the last place of the stream free.
ReplayShort(c) == ReplayWithRoom(c, BufSize - 1)

Replay(c) == ReplayWithRoom(c, BufSize)

\* SubHome.Delete.  The send on ErrorC is a blocking one.
Delete ==
    /\ AtSelect
    /\ delQ # <<>>
    /\ LET out == {d \in subs : sid[d] = Head(delQ)} IN
       /\ \A d \in out : errC[d] = <<>>
       /\ errC' = [d \in Clients |->
                     IF d \in out THEN Append(errC[d], "nil") ELSE errC[d]]
       /\ subs' = subs \ out
    /\ delQ' = Tail(delQ)
    /\ UNCHANGED <<home, nextId, reqQ, sent, client, sid, filter, since, next,
                   stream, got>>

\* Subscriptions whose filter accepts the value that is broadcast next.
Wanting == {d \in subs : sent + 1 \in filter[d]}

\* Mutant: off by one.
FullOffByOne == {d \in Wanting : Len(stream[d]) > BufSize}

\* Subscriptions the select of SubHome.Broadcast finds full.
Full == {d \in Wanting : Len(stream[d]) >= BufSize}

\* One call of SubHome.Broadcast that keeps the subscriptions kept in the map
\* and puts an error on the channels of those in told.
BroadcastTo(kept, told) ==
    /\ AtSelect
    /\ sent < MaxBroadcast
    /\ \A d \in told : errC[d] = <<>>
    /\ sent' = sent + 1
    /\ stream' = [d \in Clients |->
                    IF d \in Wanting \ Full THEN Append(stream[d], sent + 1)
                                            ELSE stream[d]]
    /\ errC' = [d \in Clients |->
                  IF d \in told THEN Append(errC[d], "full") ELSE errC[d]]
    /\ subs' = kept
    /\ UNCHANGED <<home, nextId, reqQ, delQ, client, sid, filter, since, next,
                   got>>

\* Mutants: a full subscription stays in the map; it is dropped silently.
BroadcastKeepsFull == BroadcastTo(subs, Full)
BroadcastSilent == BroadcastTo(subs \ Full, {})

\* SubHome.Broadcast: non-blocking on the streams, blocking on the error
\* channels of the subscriptions it throws out.
Broadcast == BroadcastTo(subs \ Full, Full)

\* The owner's loop breaks; most owners run the deferred SubHome.Close.
Exit ==
    /\ AtSelect
    /\ home' = "exit"
    /\ IF ClosesOnExit
       THEN /\ \A d \in subs : errC[d] = <<>>
            /\ errC' = [d \in Clients |->
                          IF d \in subs THEN Append(errC[d], "nil")
                                        ELSE errC[d]]
            /\ subs' = {}
       ELSE UNCHANGED <<errC, subs>>
    /\ UNCHANGED <<nextId, reqQ, delQ, sent, client, sid, filter, since, next,
                   stream, got>>

-----------------------------------------------------------------------------
Home ==
    \/ Receive \/ Delete \/ Broadcast \/ Exit
    \/ \E c \in Clients : Replay(c)

Client(c) ==
    \/ SubscriptionRequest(c)
    \/ Take(c)
    \/ TakeError(c)
    \/ Leave(c)
    \/ Unsubscribe(c)

Next == Home \/ \E c \in Clients : Client(c)

Spec == Init /\ [][Next]_vars

\* What must not stop: the home serves both channels (Go's select picks
\* fairly among the ready cases), and a client does not hold an error or an
\* Unsubscribe back.  Nothing forces a client to subscribe, to leave or to
\* read, nor the owner to broadcast or to exit.  No step can be repeated for
\* ever, so fairness of Run is fairness of each of its steps.
Run ==
    \/ Receive \/ Delete
    \/ \E c \in Clients : Replay(c) \/ TakeError(c) \/ Unsubscribe(c)

FairSpec == Spec /\ WF_vars(Run)

-----------------------------------------------------------------------------
\* The variables hold values of the shapes the Go types allow, and no channel
\* holds more than its capacity.
TypeOK ==
    /\ home \in {"run", "exit"}
    /\ nextId \in Nat
    /\ subs \in SUBSET Clients
    /\ reqQ \in Seq(Clients)
    /\ Len(reqQ) <= ReqCap
    /\ delQ \in Seq(Nat)
    /\ Len(delQ) <= DelCap
    /\ sent \in 0 .. MaxBroadcast
    /\ client \in [Clients -> ClientStates]
    /\ sid \in [Clients -> Nat]
    /\ filter \in [Clients -> Filters \cup {{}}]
    /\ since \in [Clients -> Nat]
    /\ next \in [Clients -> Nat]
    /\ stream \in [Clients -> Seq(Nat)]
    /\ \A c \in Clients : Len(stream[c]) <= BufSize
    /\ errC \in [Clients -> Seq(Errors)]
    /\ \A c \in Clients : Len(errC[c]) <= 1
    /\ got \in [Clients -> Seq(Nat)]

\* "errorC guaranteed to have 1 empty space" (sub.go:90): a subscription
\* that is still in the map has an empty error channel, so the blocking sends
\* on it in Broadcast, Delete and Close never block the home.
ErrorRoom == \A c \in subs : errC[c] = <<>>

\* Two subscriptions in the map never share an id, and no Unsubscribe that
\* is still in DeleteC can remove a subscription other than its sender's.
DeleteHitsOwner ==
    /\ \A c, d \in subs : sid[c] = sid[d] => c = d
    /\ \A i \in DOMAIN delQ : \A c \in subs :
            delQ[i] = sid[c] => client[c] = "gone"

\* What a subscriber has received and still has in its stream.
Feed(c) == got[c] \o stream[c]

Has(s, v) == \E i \in 1 .. Len(s) : s[i] = v

\* What reaches a subscriber while its subscription is in the map: values that
\* were broadcast, each at most once and in their order; of those broadcast
\* since it joined exactly the ones its filter accepts; and of the earlier
\* ones, where the owner replays its history, at least as many from the
\* beginning as the stream has places.  The rest of a longer history reaches
\* it only as far as it reads while the owner replays; an owner that does not
\* replay sends none of it.
FeedExact ==
    \A c \in subs :
        /\ \A i \in 1 .. Len(Feed(c)) : Feed(c)[i] \in 1 .. sent
        /\ \A i, j \in 1 .. Len(Feed(c)) : i < j => Feed(c)[i] < Feed(c)[j]
        /\ \A v \in 1 .. sent :
              IF v > since[c] THEN Has(Feed(c), v) <=> v \in filter[c]
              ELSE IF Replays
                   THEN v <= BufSize /\ (next[c] = 0 \/ v < next[c])
                          => Has(Feed(c), v)
                   ELSE ~Has(Feed(c), v)

\* A client thrown out of the map is told so through its error channel: once
\* it is out it has an error to read or it has already left the loop.
DroppedIsTold ==
    \A c \in Clients :
        client[c] = "open" => c \in subs \/ errC[c] # <<>>

\* While the home runs every request on ReqC gets its answer on respC.
Answered(c) == client[c] # "waiting" \/ home = "exit"
RequestAnswered == \A c \in Clients : client[c] = "waiting" ~> Answered(c)

\* Unsubscribe returns, and the home forgets the subscription, unless the
\* home has exited.
UnsubscribeReturns ==
    \A c \in Clients :
        client[c] = "leaving" ~> (c \notin subs \/ home = "exit")
=============================================================================
