--------------------------- MODULE SubHomeProofs ---------------------------
(***************************************************************************)
(* Proofs about SubHome, for every set of clients and every capacity.      *)
(*                                                                         *)
(* TypeOK and ErrorRoom are not inductive together: ErrorRoom needs that a *)
(* client which enters the map brings an empty error channel, that is, has *)
(* never been in the map before; DeleteHitsOwner needs that ids are never  *)
(* handed out twice.  IInv adds these facts.                               *)
(***************************************************************************)
EXTENDS SubHome, SequenceFacts, TLAPS

Received == {"open", "leaving", "gone"}

\* Only clients that have been received are in the map.
MapReceived == \A c \in subs : client[c] \in Received

\* A client that has not been received has an untouched error channel.
FreshErrC == \A c \in Clients : client[c] \notin Received => errC[c] = <<>>

\* The clients on ReqC are waiting, each of them once.
QueueWaits ==
    /\ \A i \in 1 .. Len(reqQ) : client[reqQ[i]] = "waiting"
    /\ \A i, j \in 1 .. Len(reqQ) : reqQ[i] = reqQ[j] => i = j

\* Received clients have ids below nextId, no two of them the same.
IdsDistinct ==
    /\ \A c \in Clients : client[c] \in Received => sid[c] < nextId
    /\ \A c, d \in Clients :
          client[c] \in Received /\ client[d] \in Received /\ sid[c] = sid[d]
            => c = d

\* What is on DeleteC was put there by clients that are gone.
DeletesOwned ==
    \A i \in 1 .. Len(delQ) :
        /\ delQ[i] < nextId
        /\ \A c \in Clients :
              client[c] \in Received /\ sid[c] = delQ[i] => client[c] = "gone"

\* The inductive invariant.
IInv ==
    /\ TypeOK
    /\ ErrorRoom
    /\ MapReceived
    /\ FreshErrC
    /\ QueueWaits
    /\ IdsDistinct
    /\ DeletesOwned

-----------------------------------------------------------------------------
\* The elements of ReqC are clients.
LEMMA QueueTyped ==
  ASSUME IInv PROVE \A i \in 1 .. Len(reqQ) : reqQ[i] \in Clients
  BY ElementOfSeq DEF IInv, TypeOK

\* SubscriptionRequest preserves the inductive invariant.
LEMMA SubscriptionRequestStep == ASSUME IInv, NEW c \in Clients, SubscriptionRequest(c) PROVE IInv'
<1>1. TypeOK'
  <2>1. CASE Len(reqQ) < ReqCap
    <3>1. reqQ \in Seq(Clients) /\ reqQ' = Append(reqQ, c)
      BY <2>1 DEF IInv, TypeOK, SubscriptionRequest
    <3>2. /\ reqQ' \in Seq(Clients)
          /\ Len(reqQ') = Len(reqQ) + 1
          /\ Len(reqQ) \in Nat
      BY <3>1, AppendProperties
    <3>3. Len(reqQ') <= ReqCap
      BY <2>1, <3>2, SubHomeAssumption
    <3>4. /\ client' \in [Clients -> ClientStates]
          /\ filter' \in [Clients -> Filters \cup {{}}]
      BY <2>1 DEF IInv, TypeOK, ClientStates, SubscriptionRequest
    <3>5. QED
      BY <3>2, <3>3, <3>4 DEF IInv, TypeOK, SubscriptionRequest
  <2>2. CASE ~(Len(reqQ) < ReqCap)
    BY <2>2, SubHomeAssumption
    DEF IInv, TypeOK, ClientStates, Errors, SubscriptionRequest
  <2>3. QED
    BY <2>1, <2>2
<1>2. ErrorRoom'
  BY SubHomeAssumption DEF IInv, TypeOK, ErrorRoom, MapReceived, FreshErrC, QueueWaits, Received, SubscriptionRequest
<1>3. MapReceived'
  BY SubHomeAssumption DEF IInv, TypeOK, MapReceived, Received, SubscriptionRequest
<1>4. FreshErrC'
  BY SubHomeAssumption DEF IInv, TypeOK, FreshErrC, Received, SubscriptionRequest
<1>5. QueueWaits'
  <2>1. \A i \in 1 .. Len(reqQ) : reqQ[i] \in Clients /\ reqQ[i] # c
    BY QueueTyped DEF IInv, QueueWaits, SubscriptionRequest
  <2>2. CASE Len(reqQ) < ReqCap
    <3> reqQ \in Seq(Clients) /\ reqQ' = Append(reqQ, c)
      BY <2>2 DEF IInv, TypeOK, SubscriptionRequest
    <3>1. /\ Len(reqQ') = Len(reqQ) + 1
          /\ \A i \in 1 .. Len(reqQ) : reqQ'[i] = reqQ[i]
          /\ reqQ'[Len(reqQ) + 1] = c
          /\ Len(reqQ) \in Nat
      BY AppendProperties
    <3>2. /\ client' \in [Clients -> ClientStates]
          /\ client'[c] = "waiting"
          /\ \A d \in Clients : d # c => client'[d] = client[d]
      BY <2>2 DEF IInv, TypeOK, ClientStates, SubscriptionRequest
    <3>3. \A i \in 1 .. Len(reqQ') :
             \/ i = Len(reqQ) + 1 /\ reqQ'[i] = c
             \/ i \in 1 .. Len(reqQ) /\ reqQ'[i] = reqQ[i]
      BY <3>1
    <3>4. QED
      BY <2>1, <3>1, <3>2, <3>3 DEF IInv, QueueWaits
  <2>3. CASE ~(Len(reqQ) < ReqCap)
    <3>1. /\ reqQ' = reqQ
          /\ \A d \in Clients : d # c => client'[d] = client[d]
      BY <2>3 DEF IInv, TypeOK, SubscriptionRequest
    <3>2. QED
      BY <2>1, <3>1 DEF IInv, QueueWaits
  <2>4. QED
    BY <2>2, <2>3
<1>6. IdsDistinct'
  <2>1. /\ nextId' = nextId /\ sid' = sid
        /\ client[c] = "idle" /\ client'[c] \notin Received
        /\ \A d \in Clients : d # c => client'[d] = client[d]
    BY DEF IInv, TypeOK, Received, SubscriptionRequest
  <2>2. QED
    BY <2>1 DEF IInv, IdsDistinct
<1>7. DeletesOwned'
  <2>1. /\ delQ' = delQ /\ nextId' = nextId /\ sid' = sid
        /\ client[c] = "idle" /\ client'[c] \notin Received
        /\ \A d \in Clients : d # c => client'[d] = client[d]
    BY DEF IInv, TypeOK, Received, SubscriptionRequest
  <2>2. QED
    BY <2>1 DEF IInv, DeletesOwned, Received
<1>8. QED
  BY <1>1, <1>2, <1>3, <1>4, <1>5, <1>6, <1>7 DEF IInv
-----------------------------------------------------------------------------
\* Take preserves the inductive invariant.
LEMMA TakeStep == ASSUME IInv, NEW c \in Clients, Take(c) PROVE IInv'
<1>1. TypeOK'
  <2>1. /\ stream[c] \in Seq(Nat) /\ stream[c] # <<>>
        /\ Len(stream[c]) <= BufSize /\ got[c] \in Seq(Nat)
    BY DEF IInv, TypeOK, Take
  <2>2. /\ Head(stream[c]) \in Nat
        /\ Tail(stream[c]) \in Seq(Nat)
        /\ Len(Tail(stream[c])) <= BufSize
    BY <2>1, HeadTailProperties, SubHomeAssumption
  <2>3. Append(got[c], Head(stream[c])) \in Seq(Nat)
    BY <2>1, <2>2, AppendProperties
  <2>4. got' \in [Clients -> Seq(Nat)]
    BY <2>3 DEF IInv, TypeOK, Take
  <2>5. /\ stream' \in [Clients -> Seq(Nat)]
        /\ \A d \in Clients : Len(stream'[d]) <= BufSize
    BY <2>2 DEF IInv, TypeOK, Take
  <2>6. QED
    BY <2>4, <2>5 DEF IInv, TypeOK, Take
<1>2. ErrorRoom'
  BY SubHomeAssumption DEF IInv, TypeOK, ErrorRoom, MapReceived, FreshErrC, QueueWaits, Received, Take
<1>3. MapReceived'
  BY SubHomeAssumption DEF IInv, TypeOK, MapReceived, Received, Take
<1>4. FreshErrC'
  BY SubHomeAssumption DEF IInv, TypeOK, FreshErrC, Received, Take
<1>5. QueueWaits'
  BY SubHomeAssumption DEF IInv, TypeOK, QueueWaits, Take
<1>6. IdsDistinct'
  BY SubHomeAssumption DEF IInv, TypeOK, IdsDistinct, Received, QueueWaits, Take
<1>7. DeletesOwned'
  BY SubHomeAssumption DEF IInv, TypeOK, DeletesOwned, Received, IdsDistinct, QueueWaits, Take
<1>8. QED
  BY <1>1, <1>2, <1>3, <1>4, <1>5, <1>6, <1>7 DEF IInv
-----------------------------------------------------------------------------
\* TakeError preserves the inductive invariant.
LEMMA TakeErrorStep == ASSUME IInv, NEW c \in Clients, TakeError(c) PROVE IInv'
<1>1. TypeOK'
  BY SubHomeAssumption DEF IInv, TypeOK, ClientStates, Errors, TakeError
<1>2. ErrorRoom'
  BY SubHomeAssumption DEF IInv, TypeOK, ErrorRoom, MapReceived, FreshErrC, QueueWaits, Received, TakeError
<1>3. MapReceived'
  BY SubHomeAssumption DEF IInv, TypeOK, MapReceived, Received, TakeError
<1>4. FreshErrC'
  BY SubHomeAssumption DEF IInv, TypeOK, FreshErrC, Received, TakeError
<1>5. QueueWaits'
  <2>1. \A i \in 1 .. Len(reqQ) : reqQ[i] \in Clients /\ reqQ[i] # c
    BY QueueTyped DEF IInv, QueueWaits, TakeError
  <2>2. /\ reqQ' = reqQ
        /\ \A d \in Clients : d # c => client'[d] = client[d]
    BY DEF IInv, TypeOK, TakeError
  <2>3. QED
    BY <2>1, <2>2 DEF IInv, QueueWaits
<1>6. IdsDistinct'
  <2>1. /\ nextId' = nextId /\ sid' = sid
        /\ client[c] = "open"
        /\ \A d \in Clients : d # c => client'[d] = client[d]
    BY DEF IInv, TypeOK, TakeError
  <2>2. QED
    BY <2>1 DEF IInv, IdsDistinct, Received
<1>7. DeletesOwned'
  <2>1. /\ delQ' = delQ /\ nextId' = nextId /\ sid' = sid
        /\ client[c] = "open" /\ client'[c] = "leaving"
        /\ \A d \in Clients : d # c => client'[d] = client[d]
    BY DEF IInv, TypeOK, TakeError
  <2>2. \A i \in 1 .. Len(delQ) : sid[c] # delQ[i]
    BY <2>1 DEF IInv, DeletesOwned, Received
  <2>3. QED
    BY <2>1, <2>2 DEF IInv, DeletesOwned, Received
<1>8. QED
  BY <1>1, <1>2, <1>3, <1>4, <1>5, <1>6, <1>7 DEF IInv
-----------------------------------------------------------------------------
\* Leave preserves the inductive invariant.
LEMMA LeaveStep == ASSUME IInv, NEW c \in Clients, Leave(c) PROVE IInv'
<1>1. TypeOK'
  BY SubHomeAssumption DEF IInv, TypeOK, ClientStates, Errors, Leave
<1>2. ErrorRoom'
  BY SubHomeAssumption DEF IInv, TypeOK, ErrorRoom, MapReceived, FreshErrC, QueueWaits, Received, Leave
<1>3. MapReceived'
  BY SubHomeAssumption DEF IInv, TypeOK, MapReceived, Received, Leave
<1>4. FreshErrC'
  BY SubHomeAssumption DEF IInv, TypeOK, FreshErrC, Received, Leave
<1>5. QueueWaits'
  <2>1. \A i \in 1 .. Len(reqQ) : reqQ[i] \in Clients /\ reqQ[i] # c
    BY QueueTyped DEF IInv, QueueWaits, Leave
  <2>2. /\ reqQ' = reqQ
        /\ \A d \in Clients : d # c => client'[d] = client[d]
    BY DEF IInv, TypeOK, Leave
  <2>3. QED
    BY <2>1, <2>2 DEF IInv, QueueWaits
<1>6. IdsDistinct'
  <2>1. /\ nextId' = nextId /\ sid' = sid
        /\ client[c] = "open"
        /\ \A d \in Clients : d # c => client'[d] = client[d]
    BY DEF IInv, TypeOK, Leave
  <2>2. QED
    BY <2>1 DEF IInv, IdsDistinct, Received
<1>7. DeletesOwned'
  <2>1. /\ delQ' = delQ /\ nextId' = nextId /\ sid' = sid
        /\ client[c] = "open" /\ client'[c] = "leaving"
        /\ \A d \in Clients : d # c => client'[d] = client[d]
    BY DEF IInv, TypeOK, Leave
  <2>2. \A i \in 1 .. Len(delQ) : sid[c] # delQ[i]
    BY <2>1 DEF IInv, DeletesOwned, Received
  <2>3. QED
    BY <2>1, <2>2 DEF IInv, DeletesOwned, Received
<1>8. QED
  BY <1>1, <1>2, <1>3, <1>4, <1>5, <1>6, <1>7 DEF IInv
-----------------------------------------------------------------------------
\* Unsubscribe preserves the inductive invariant.
LEMMA UnsubscribeStep == ASSUME IInv, NEW c \in Clients, Unsubscribe(c) PROVE IInv'
<1>1. TypeOK'
  <2>1. delQ' \in Seq(Nat) /\ Len(delQ') = Len(delQ) + 1
    BY AppendProperties DEF IInv, TypeOK, Unsubscribe
  <2>2. QED
    BY <2>1, SubHomeAssumption
    DEF IInv, TypeOK, ClientStates, Errors, Unsubscribe
<1>2. ErrorRoom'
  BY SubHomeAssumption DEF IInv, TypeOK, ErrorRoom, MapReceived, FreshErrC, QueueWaits, Received, Unsubscribe
<1>3. MapReceived'
  BY SubHomeAssumption DEF IInv, TypeOK, MapReceived, Received, Unsubscribe
<1>4. FreshErrC'
  BY SubHomeAssumption DEF IInv, TypeOK, FreshErrC, Received, Unsubscribe
<1>5. QueueWaits'
  <2>1. \A i \in 1 .. Len(reqQ) : reqQ[i] \in Clients /\ reqQ[i] # c
    BY QueueTyped DEF IInv, QueueWaits, Unsubscribe
  <2>2. /\ reqQ' = reqQ
        /\ \A d \in Clients : d # c => client'[d] = client[d]
    BY DEF IInv, TypeOK, Unsubscribe
  <2>3. QED
    BY <2>1, <2>2 DEF IInv, QueueWaits
<1>6. IdsDistinct'
  <2>1. /\ nextId' = nextId /\ sid' = sid
        /\ client[c] = "leaving"
        /\ \A d \in Clients : d # c => client'[d] = client[d]
    BY DEF IInv, TypeOK, Unsubscribe
  <2>2. QED
    BY <2>1 DEF IInv, IdsDistinct, Received
<1>7. DeletesOwned'
  <2>1. /\ nextId' = nextId /\ sid' = sid
        /\ client[c] = "leaving" /\ client'[c] = "gone"
        /\ \A d \in Clients : d # c => client'[d] = client[d]
    BY DEF IInv, TypeOK, Unsubscribe
  <2>2. delQ \in Seq(Nat) /\ sid[c] \in Nat /\ delQ' = Append(delQ, sid[c])
    BY DEF IInv, TypeOK, Unsubscribe
  <2>3. /\ Len(delQ) \in Nat
        /\ Len(delQ') = Len(delQ) + 1
        /\ \A i \in 1 .. Len(delQ) : delQ'[i] = delQ[i]
        /\ delQ'[Len(delQ) + 1] = sid[c]
    BY <2>2, AppendProperties
  <2>4. \A i \in 1 .. Len(delQ') :
           \/ delQ'[i] = sid[c]
           \/ i \in 1 .. Len(delQ) /\ delQ'[i] = delQ[i]
    BY <2>3
  <2>5. sid[c] < nextId
    BY <2>1 DEF IInv, IdsDistinct, Received
  <2>6. ASSUME NEW d \in Clients, client'[d] \in Received, sid'[d] = sid[c]
        PROVE  client'[d] = "gone"
    BY <2>1, <2>6 DEF IInv, IdsDistinct, Received
  <2>7. ASSUME NEW i \in 1 .. Len(delQ),
               NEW d \in Clients, client'[d] \in Received, sid'[d] = delQ[i]
        PROVE  client'[d] = "gone"
    BY <2>1, <2>7 DEF IInv, DeletesOwned, Received
  <2>8. \A i \in 1 .. Len(delQ) : delQ[i] < nextId
    BY DEF IInv, DeletesOwned
  <2>9. QED
    BY <2>1, <2>4, <2>5, <2>6, <2>7, <2>8 DEF DeletesOwned
<1>8. QED
  BY <1>1, <1>2, <1>3, <1>4, <1>5, <1>6, <1>7 DEF IInv
-----------------------------------------------------------------------------
\* The client whose request is answered is waiting.
LEMMA ReceiveHead ==
  ASSUME IInv, Receive
  PROVE  Head(reqQ) \in Clients /\ client[Head(reqQ)] = "waiting"
<1>1. Len(reqQ) \in Nat \ {0} /\ Head(reqQ) = reqQ[1] /\ Head(reqQ) \in Clients
  BY HeadTailProperties DEF IInv, TypeOK, Receive, ReceiveWithStep
<1>2. QED
  BY <1>1 DEF IInv, QueueWaits

\* Receive preserves the inductive invariant.
LEMMA ReceiveStep == ASSUME IInv, Receive PROVE IInv'
<1>1. TypeOK'
  <2>1. /\ Head(reqQ) \in Clients
        /\ reqQ' \in Seq(Clients)
        /\ Len(reqQ') = Len(reqQ) - 1
    BY HeadTailProperties DEF IInv, TypeOK, Receive, ReceiveWithStep
  <2>3. next' \in [Clients -> Nat]
    BY <2>1 DEF IInv, TypeOK, Receive, ReceiveWithStep
  <2>4. QED
    <3>1. /\ nextId' \in Nat
          /\ sid' \in [Clients -> Nat]
          /\ since' \in [Clients -> Nat]
      BY <2>1 DEF IInv, TypeOK, Receive, ReceiveWithStep
    <3>2. client' \in [Clients -> ClientStates]
      BY <2>1 DEF IInv, TypeOK, ClientStates, Receive, ReceiveWithStep
    <3>3. subs' \in SUBSET Clients
      BY <2>1 DEF IInv, TypeOK, Receive, ReceiveWithStep
    <3>4. Len(reqQ') <= ReqCap
      <4>1. Len(reqQ) \in Nat /\ Len(reqQ) <= ReqCap
        BY LenProperties DEF IInv, TypeOK
      <4>2. QED
        BY <2>1, <4>1, SubHomeAssumption
    <3>5. /\ home' = home /\ delQ' = delQ /\ sent' = sent
          /\ errC' = errC /\ got' = got /\ filter' = filter
          /\ stream' = stream
      BY DEF Receive, ReceiveWithStep
    <3>6. QED
      BY <2>1, <2>3, <3>1, <3>2, <3>3, <3>4, <3>5 DEF IInv, TypeOK
<1>2. ErrorRoom'
  <2>1. Head(reqQ) \in Clients /\ client[Head(reqQ)] = "waiting"
    BY ReceiveHead
  <2>2. errC[Head(reqQ)] = <<>>
    BY <2>1 DEF IInv, FreshErrC, Received
  <2>3. QED
    BY <2>2 DEF IInv, ErrorRoom, Receive, ReceiveWithStep
<1>3. MapReceived'
  <2>1. Head(reqQ) \in Clients
    BY ReceiveHead
  <2>2. /\ client'[Head(reqQ)] = "open"
        /\ \A d \in Clients : d # Head(reqQ) => client'[d] = client[d]
        /\ subs \subseteq Clients
        /\ subs' \subseteq subs \cup {Head(reqQ)}
    BY <2>1 DEF IInv, TypeOK, Receive, ReceiveWithStep
  <2>3. QED
    BY <2>2 DEF IInv, MapReceived, Received
<1>4. FreshErrC'
  BY SubHomeAssumption DEF IInv, TypeOK, FreshErrC, Received, Receive, ReceiveWithStep
<1>5. QueueWaits'
  <2>1. /\ Len(reqQ) \in Nat \ {0}
        /\ Len(reqQ') = Len(reqQ) - 1
        /\ \A i \in 1 .. Len(reqQ') : reqQ'[i] = reqQ[i + 1]
        /\ Head(reqQ) = reqQ[1]
    BY HeadTailProperties DEF IInv, TypeOK, Receive, ReceiveWithStep
  <2>2. \A i \in 1 .. Len(reqQ') : i + 1 \in 1 .. Len(reqQ)
    BY <2>1
  <2>3. \A i \in 1 .. Len(reqQ') :
           reqQ'[i] \in Clients /\ reqQ'[i] # Head(reqQ)
    <3> TAKE i \in 1 .. Len(reqQ')
    <3>1. /\ i \in Nat /\ 1 <= i
          /\ 1 \in 1 .. Len(reqQ) /\ i + 1 \in 1 .. Len(reqQ)
          /\ reqQ'[i] = reqQ[i + 1] /\ i + 1 # 1
      BY <2>1, <2>2
    <3>2. reqQ[i + 1] \in Clients
      BY <3>1, QueueTyped
    <3>3. reqQ[i + 1] # reqQ[1]
      <4>1. QueueWaits
        BY DEF IInv
      <4>2. QED
        BY <3>1, <4>1 DEF QueueWaits
    <3>4. QED
      BY <2>1, <3>1, <3>2, <3>3
  <2>4. \A d \in Clients : d # Head(reqQ) => client'[d] = client[d]
    BY DEF IInv, TypeOK, Receive, ReceiveWithStep
  <2>5. \A i \in 1 .. Len(reqQ') : client'[reqQ'[i]] = "waiting"
    BY <2>1, <2>2, <2>3, <2>4 DEF IInv, QueueWaits
  <2>6. \A i, j \in 1 .. Len(reqQ') : reqQ'[i] = reqQ'[j] => i = j
    BY <2>1, <2>2 DEF IInv, QueueWaits
  <2>7. QED
    BY <2>5, <2>6 DEF QueueWaits
<1>6. IdsDistinct'
  <2>1. Head(reqQ) \in Clients /\ client[Head(reqQ)] = "waiting"
    BY ReceiveHead
  <2>2. /\ client'[Head(reqQ)] = "open" /\ sid'[Head(reqQ)] = nextId
        /\ nextId' = nextId + 1 /\ nextId \in Nat /\ delQ' = delQ
        /\ \A d \in Clients : d # Head(reqQ) =>
              client'[d] = client[d] /\ sid'[d] = sid[d] /\ sid[d] \in Nat
    BY <2>1 DEF IInv, TypeOK, Receive, ReceiveWithStep
  <2>3. QED
    BY <2>1, <2>2 DEF IInv, IdsDistinct
<1>7. DeletesOwned'
  <2>1. Head(reqQ) \in Clients /\ client[Head(reqQ)] = "waiting"
    BY ReceiveHead
  <2>2. /\ client'[Head(reqQ)] = "open" /\ sid'[Head(reqQ)] = nextId
        /\ nextId' = nextId + 1 /\ nextId \in Nat /\ delQ' = delQ
        /\ \A d \in Clients : d # Head(reqQ) =>
              client'[d] = client[d] /\ sid'[d] = sid[d] /\ sid[d] \in Nat
    BY <2>1 DEF IInv, TypeOK, Receive, ReceiveWithStep
  <2>3. \A i \in 1 .. Len(delQ) : delQ[i] \in Nat /\ delQ[i] < nextId
    BY DEF IInv, TypeOK, DeletesOwned
  <2>4. QED
    BY <2>1, <2>2, <2>3 DEF IInv, DeletesOwned
<1>8. QED
  BY <1>1, <1>2, <1>3, <1>4, <1>5, <1>6, <1>7 DEF IInv
-----------------------------------------------------------------------------
\* Replay preserves the inductive invariant.
LEMMA ReplayStep == ASSUME IInv, NEW c \in Clients, Replay(c) PROVE IInv'
<1>1. /\ UNCHANGED <<home, nextId, subs, reqQ, delQ, sent, client, sid, filter,
                     since, errC, got>>
      /\ stream' = IF Len(stream[c]) < BufSize
                   THEN [stream EXCEPT ![c] = Append(@, next[c])] ELSE stream
      /\ next' = [next EXCEPT ![c] = IF @ = sent THEN 0 ELSE @ + 1]
  BY DEF Replay, ReplayWithRoom
<1>2. next' \in [Clients -> Nat]
  <2>1. next \in [Clients -> Nat]
    BY DEF IInv, TypeOK
  <2> DEFINE m == IF next[c] = sent THEN 0 ELSE next[c] + 1
  <2>2. m \in Nat /\ next' = [next EXCEPT ![c] = m]
    BY <1>1, <2>1
  <2> HIDE DEF m
  <2>3. QED
    BY <2>1, <2>2
<1>3. /\ stream' \in [Clients -> Seq(Nat)]
      /\ \A d \in Clients : Len(stream'[d]) <= BufSize
  <2>1. CASE stream' = stream
    BY <2>1 DEF IInv, TypeOK
  <2>2. CASE /\ Len(stream[c]) < BufSize
             /\ stream' = [stream EXCEPT ![c] = Append(@, next[c])]
    <3>1. /\ Append(stream[c], next[c]) \in Seq(Nat)
          /\ Len(Append(stream[c], next[c])) = Len(stream[c]) + 1
          /\ Len(stream[c]) \in Nat
      BY AppendProperties DEF IInv, TypeOK
    <3>2. Len(Append(stream[c], next[c])) <= BufSize
      BY <2>2, <3>1, SubHomeAssumption
    <3> DEFINE more == Append(stream[c], next[c])
    <3>3. stream' = [stream EXCEPT ![c] = more]
      BY <2>2
    <3> HIDE DEF more
    <3>4. stream'[c] = more /\ \A d \in Clients : d # c => stream'[d] = stream[d]
      BY <3>3 DEF IInv, TypeOK
    <3>5. stream' \in [Clients -> Seq(Nat)]
      BY <3>1, <3>3 DEF IInv, TypeOK, more
    <3>6. QED
      BY <3>1, <3>2, <3>4, <3>5 DEF IInv, TypeOK, more
  <2>3. QED
    BY <1>1, <2>1, <2>2
<1>4. TypeOK'
  BY <1>1, <1>2, <1>3 DEF IInv, TypeOK
<1>5. ErrorRoom' /\ MapReceived' /\ FreshErrC' /\ QueueWaits' /\ IdsDistinct'
        /\ DeletesOwned'
  BY <1>1 DEF IInv, ErrorRoom, MapReceived, FreshErrC, QueueWaits, IdsDistinct,
              DeletesOwned
<1>6. QED
  BY <1>4, <1>5 DEF IInv
-----------------------------------------------------------------------------
\* An error put on empty error channels leaves every error channel typed and
\* within its capacity of one.
LEMMA ErrorsTyped ==
  ASSUME NEW f \in [Clients -> Seq(Errors)],
         \A d \in Clients : Len(f[d]) <= 1,
         NEW S, \A d \in S : f[d] = <<>>,
         NEW e \in Errors,
         NEW g,
         g = [d \in Clients |-> IF d \in S THEN Append(f[d], e) ELSE f[d]]
  PROVE  g \in [Clients -> Seq(Errors)] /\ \A d \in Clients : Len(g[d]) <= 1
<1>1. ASSUME NEW d \in Clients PROVE g[d] \in Seq(Errors) /\ Len(g[d]) <= 1
  <2>1. CASE d \in S
    <3>1. g[d] = Append(f[d], e) /\ Len(f[d]) = 0
      BY <2>1
    <3>2. QED
      BY <3>1, AppendProperties
  <2>2. CASE d \notin S
    BY <2>2
  <2>3. QED
    BY <2>1, <2>2
<1>2. QED
  BY <1>1

\* Delete preserves the inductive invariant.
LEMMA DeleteStep == ASSUME IInv, Delete PROVE IInv'
<1>1. TypeOK'
  <2>1. /\ errC' \in [Clients -> Seq(Errors)]
        /\ \A d \in Clients : Len(errC'[d]) <= 1
    <3> DEFINE out == {d \in subs : sid[d] = Head(delQ)}
    <3>1. /\ \A d \in out : errC[d] = <<>>
          /\ errC' = [d \in Clients |->
                        IF d \in out THEN Append(errC[d], "nil") ELSE errC[d]]
      BY DEF Delete
    <3> HIDE DEF out
    <3>2. QED
      BY <3>1, ErrorsTyped DEF IInv, TypeOK, Errors
  <2>2. delQ' \in Seq(Nat) /\ Len(delQ') <= DelCap
    BY HeadTailProperties, SubHomeAssumption DEF IInv, TypeOK, Delete
  <2>3. QED
    BY <2>1, <2>2 DEF IInv, TypeOK, Delete
<1>2. ErrorRoom'
  BY SubHomeAssumption DEF IInv, TypeOK, ErrorRoom, MapReceived, FreshErrC, QueueWaits, Received, Delete
<1>3. MapReceived'
  BY SubHomeAssumption DEF IInv, TypeOK, MapReceived, Received, Delete
<1>4. FreshErrC'
  BY DEF IInv, TypeOK, FreshErrC, MapReceived, Received, Delete
<1>5. QueueWaits'
  BY SubHomeAssumption DEF IInv, TypeOK, QueueWaits, Delete
<1>6. IdsDistinct'
  BY SubHomeAssumption DEF IInv, TypeOK, IdsDistinct, Received, QueueWaits, Delete
<1>7. DeletesOwned'
  BY SubHomeAssumption DEF IInv, TypeOK, DeletesOwned, Received, IdsDistinct, QueueWaits, Delete
<1>8. QED
  BY <1>1, <1>2, <1>3, <1>4, <1>5, <1>6, <1>7 DEF IInv
-----------------------------------------------------------------------------
\* Broadcast preserves the inductive invariant.
LEMMA BroadcastStep == ASSUME IInv, Broadcast PROVE IInv'
<1>1. TypeOK'
  <2>1. sent + 1 \in Nat
    BY DEF IInv, TypeOK
  <2>2. \A d \in Clients : /\ Append(stream[d], sent + 1) \in Seq(Nat)
                           /\ Len(Append(stream[d], sent + 1))
                                = Len(stream[d]) + 1
                           /\ Len(stream[d]) \in Nat
    BY <2>1, AppendProperties DEF IInv, TypeOK
  <2>3. /\ stream' \in [Clients -> Seq(Nat)]
        /\ \A d \in Clients : Len(stream'[d]) <= BufSize
    BY <2>2, SubHomeAssumption DEF IInv, TypeOK, Broadcast, BroadcastTo, Full, Wanting
  <2>4. /\ errC' \in [Clients -> Seq(Errors)]
        /\ \A d \in Clients : Len(errC'[d]) <= 1
    <3>1. /\ \A d \in Full : errC[d] = <<>>
          /\ errC' = [d \in Clients |->
                        IF d \in Full THEN Append(errC[d], "full") ELSE errC[d]]
      BY DEF Broadcast, BroadcastTo
    <3>2. QED
      BY <3>1, ErrorsTyped DEF IInv, TypeOK, Errors
  <2>5. QED
    BY <2>1, <2>3, <2>4, SubHomeAssumption
    DEF IInv, TypeOK, Broadcast, BroadcastTo, Full, Wanting
<1>2. ErrorRoom'
  BY SubHomeAssumption DEF IInv, TypeOK, ErrorRoom, MapReceived, FreshErrC, QueueWaits, Received, Broadcast, BroadcastTo, Full, Wanting
<1>3. MapReceived'
  BY SubHomeAssumption DEF IInv, TypeOK, MapReceived, Received, Broadcast, BroadcastTo, Full, Wanting
<1>4. FreshErrC'
  BY DEF IInv, TypeOK, FreshErrC, MapReceived, Received, Broadcast, BroadcastTo, Full, Wanting
<1>5. QueueWaits'
  BY SubHomeAssumption DEF IInv, TypeOK, QueueWaits, Broadcast, BroadcastTo, Full, Wanting
<1>6. IdsDistinct'
  BY SubHomeAssumption DEF IInv, TypeOK, IdsDistinct, Received, QueueWaits, Broadcast, BroadcastTo, Full, Wanting
<1>7. DeletesOwned'
  BY SubHomeAssumption DEF IInv, TypeOK, DeletesOwned, Received, IdsDistinct, QueueWaits, Broadcast, BroadcastTo, Full, Wanting
<1>8. QED
  BY <1>1, <1>2, <1>3, <1>4, <1>5, <1>6, <1>7 DEF IInv
-----------------------------------------------------------------------------
\* Exit preserves the inductive invariant.
LEMMA ExitStep == ASSUME IInv, Exit PROVE IInv'
<1>1. TypeOK'
  <2>1. /\ errC' \in [Clients -> Seq(Errors)]
        /\ \A d \in Clients : Len(errC'[d]) <= 1
    <3>1. CASE ClosesOnExit
      <4>1. /\ \A d \in subs : errC[d] = <<>>
            /\ errC' = [d \in Clients |->
                          IF d \in subs THEN Append(errC[d], "nil") ELSE errC[d]]
        BY <3>1 DEF Exit
      <4>2. QED
        BY <4>1, ErrorsTyped DEF IInv, TypeOK, Errors
    <3>2. CASE ~ClosesOnExit
      BY <3>2 DEF IInv, TypeOK, Exit
    <3>3. QED
      BY <3>1, <3>2
  <2>2. QED
    BY <2>1 DEF IInv, TypeOK, Exit
<1>2. ErrorRoom'
  BY SubHomeAssumption DEF IInv, TypeOK, ErrorRoom, MapReceived, FreshErrC, QueueWaits, Received, Exit
<1>3. MapReceived'
  BY SubHomeAssumption DEF IInv, TypeOK, MapReceived, Received, Exit
<1>4. FreshErrC'
  BY DEF IInv, TypeOK, FreshErrC, MapReceived, Received, Exit
<1>5. QueueWaits'
  BY SubHomeAssumption DEF IInv, TypeOK, QueueWaits, Exit
<1>6. IdsDistinct'
  BY SubHomeAssumption DEF IInv, TypeOK, IdsDistinct, Received, QueueWaits, Exit
<1>7. DeletesOwned'
  BY SubHomeAssumption DEF IInv, TypeOK, DeletesOwned, Received, IdsDistinct, QueueWaits, Exit
<1>8. QED
  BY <1>1, <1>2, <1>3, <1>4, <1>5, <1>6, <1>7 DEF IInv
-----------------------------------------------------------------------------
\* The initial state satisfies the inductive invariant.
LEMMA InitIInv == Init => IInv
  BY SubHomeAssumption
  DEF Init, IInv, TypeOK, ErrorRoom, MapReceived, FreshErrC, QueueWaits,
      IdsDistinct, DeletesOwned, ClientStates, Errors, Received

\* Every step of the home and of the clients preserves it.
LEMMA NextIInv == IInv /\ [Next]_vars => IInv'
<1> SUFFICES ASSUME IInv, [Next]_vars PROVE IInv'
  OBVIOUS
<1>1. CASE Receive
  BY <1>1, ReceiveStep
<1>2. CASE Delete
  BY <1>2, DeleteStep
<1>3. CASE Broadcast
  BY <1>3, BroadcastStep
<1>4. CASE Exit
  BY <1>4, ExitStep
<1>5. ASSUME NEW c \in Clients, Client(c) \/ Replay(c) PROVE IInv'
  BY <1>5, SubscriptionRequestStep, TakeStep, TakeErrorStep, LeaveStep,
     UnsubscribeStep, ReplayStep DEF Client
<1>6. CASE UNCHANGED vars
  BY <1>6 DEF vars, IInv, TypeOK, ErrorRoom, MapReceived, FreshErrC,
     QueueWaits, IdsDistinct, DeletesOwned
<1>7. QED
  BY <1>1, <1>2, <1>3, <1>4, <1>5, <1>6 DEF Next, Home

\* The inductive invariant holds in every reachable state.
THEOREM Invariance == Spec => []IInv
  BY InitIInv, NextIInv, PTL DEF Spec

\* Type correctness: in particular no channel of sub.go ever holds more than
\* its capacity.
THEOREM TypeCorrect == Spec => []TypeOK
<1>1. IInv => TypeOK
  BY DEF IInv
<1>2. QED
  BY <1>1, Invariance, PTL

\* "errorC guaranteed to have 1 empty space" (sub.go:90), for any number of
\* clients and any capacities: the home never blocks on an error channel.
THEOREM HomeNeverBlocks == Spec => []ErrorRoom
<1>1. IInv => ErrorRoom
  BY DEF IInv
<1>2. QED
  BY <1>1, Invariance, PTL

\* An Unsubscribe removes the subscription of its sender and no other.
THEOREM DeletesAreSafe == Spec => []DeleteHitsOwner
<1>1. IInv => DeleteHitsOwner
  <2>1. IInv => \A c, d \in subs : sid[c] = sid[d] => c = d
    BY DEF IInv, TypeOK, MapReceived, IdsDistinct
  <2>2. IInv => \A i \in 1 .. Len(delQ) : \A c \in subs :
                   delQ[i] = sid[c] => client[c] = "gone"
    BY DEF IInv, TypeOK, MapReceived, DeletesOwned
  <2>3. IInv => DOMAIN delQ = 1 .. Len(delQ)
    BY DEF IInv, TypeOK
  <2>4. QED
    BY <2>1, <2>2, <2>3 DEF DeleteHitsOwner
<1>2. QED
  BY <1>1, Invariance, PTL
-----------------------------------------------------------------------------
(* What a subscriber is told and what it is fed.                           *)

\* What FeedExact says of one subscriber: f is its feed, m values have been
\* broadcast, k of them before it joined, F is its filter and n the next value
\* to be replayed to it.
Exact(f, m, k, F, n) ==
    /\ \A i \in 1 .. Len(f) : f[i] \in 1 .. m
    /\ \A i, j \in 1 .. Len(f) : i < j => f[i] < f[j]
    /\ \A v \in 1 .. m :
          IF v > k THEN Has(f, v) <=> v \in F
          ELSE IF Replays
               THEN v <= BufSize /\ (n = 0 \/ v < n) => Has(f, v)
               ELSE ~Has(f, v)

\* A client that has not been received has an empty stream and has taken
\* nothing from it.
FreshFeed ==
    \A c \in Clients : client[c] \notin Received => got[c] = <<>> /\ stream[c] = <<>>

\* Nobody joined after a broadcast that is still to come.
SincePast == \A c \in Clients : since[c] <= sent

\* While the history is replayed to a client nothing is broadcast, and the
\* client has got at most the values replayed before, one of each.
ReplayPlace ==
    \A c \in Clients : next[c] # 0 =>
        /\ Replays /\ c \in subs
        /\ since[c] = sent /\ next[c] <= sent
        /\ Len(Feed(c)) < next[c]
        /\ \A i \in 1 .. Len(Feed(c)) : Feed(c)[i] < next[c]

\* The strengthening of FeedExact and DroppedIsTold, on top of IInv.
FeedInv ==
    /\ FreshFeed
    /\ SincePast
    /\ ReplayPlace
    /\ FeedExact
    /\ DroppedIsTold

\* FeedExact, subscriber by subscriber.
LEMMA ExactEach ==
  FeedExact <=> \A c \in subs : Exact(Feed(c), sent, since[c], filter[c], next[c])
  BY DEF FeedExact, Exact

LEMMA ExactEachNext ==
  FeedExact' <=> \A c \in subs' :
                    Exact(Feed(c)', sent', since'[c], filter'[c], next'[c])
  BY DEF FeedExact, Exact, Feed

\* The feed of a client is a sequence of values.
LEMMA FeedTyped ==
  ASSUME IInv, NEW c \in Clients
  PROVE  Feed(c) \in Seq(Nat) /\ Len(Feed(c)) = Len(got[c]) + Len(stream[c])
         /\ Len(stream[c]) \in Nat /\ Len(got[c]) \in Nat
<1>1. got[c] \in Seq(Nat) /\ stream[c] \in Seq(Nat)
  BY DEF IInv, TypeOK
<1>2. QED
  BY <1>1, ConcatProperties, LenProperties DEF Feed

Rising(s) == \A i, j \in 1 .. Len(s) : i < j => s[i] < s[j]
Below(s, v) == \A i \in 1 .. Len(s) : s[i] < v

\* What is true of t when v is put at the end of s.
Grown(s, v, t) ==
    /\ Len(t) = Len(s) + 1 /\ Len(s) \in Nat
    /\ \A i \in 1 .. Len(t) :
          (i \in 1 .. Len(s) /\ t[i] = s[i]) \/ (i = Len(s) + 1 /\ t[i] = v)
    /\ Rising(s) => Rising(t)
    /\ \A w : Has(t, w) <=> Has(s, w) \/ w = v

\* A feed that grows by a value larger than all it holds.
LEMMA FeedGrows ==
  ASSUME NEW s \in Seq(Nat), NEW v \in Nat,
         Below(s, v),
         NEW t, t = Append(s, v)
  PROVE  Grown(s, v, t)
<1>1. /\ t \in Seq(Nat) /\ Len(t) = Len(s) + 1 /\ Len(s) \in Nat
      /\ \A i \in 1 .. Len(s) : t[i] = s[i]
      /\ t[Len(s) + 1] = v
  BY AppendTyped
<1>2. \A i \in 1 .. Len(t) : (i \in 1 .. Len(s) /\ t[i] = s[i]) \/ (i = Len(s) + 1 /\ t[i] = v)
  BY <1>1
<1>3. ASSUME \A i, j \in 1 .. Len(s) : i < j => s[i] < s[j],
             NEW i \in 1 .. Len(t), NEW j \in 1 .. Len(t), i < j
      PROVE  t[i] < t[j]
  <2>1. i \in 1 .. Len(s) /\ t[i] = s[i]
    BY <1>1, <1>3
  <2>2. CASE j \in 1 .. Len(s)
    BY <1>1, <1>3, <2>1, <2>2
  <2>3. CASE j = Len(s) + 1
    BY <1>1, <2>1, <2>3 DEF Below
  <2>4. QED
    BY <1>2, <2>2, <2>3
<1>4. ASSUME NEW w PROVE Has(t, w) <=> Has(s, w) \/ w = v
  <2>1. ASSUME Has(t, w) PROVE Has(s, w) \/ w = v
    BY <1>2, <2>1 DEF Has
  <2>2. ASSUME Has(s, w) PROVE Has(t, w)
    <3>1. PICK i \in 1 .. Len(s) : s[i] = w
      BY <2>2 DEF Has
    <3>2. i \in 1 .. Len(t) /\ t[i] = w
      BY <1>1, <3>1
    <3>3. QED
      BY <3>2 DEF Has
  <2>3. ASSUME w = v PROVE Has(t, w)
    <3>1. Len(s) + 1 \in 1 .. Len(t)
      BY <1>1
    <3>2. QED
      BY <1>1, <2>3, <3>1 DEF Has
  <2>4. QED
    BY <2>1, <2>2, <2>3
<1>5. QED
  BY <1>1, <1>2, <1>3, <1>4 DEF Rising, Grown

\* A value put on the stream is put on the feed.
LEMMA FeedAppends ==
  ASSUME IInv, NEW c \in Clients, NEW v \in Nat, got'[c] = got[c],
         stream'[c] = Append(stream[c], v)
  PROVE  Feed(c)' = Append(Feed(c), v)
<1>1. got[c] \in Seq(Nat) /\ stream[c] \in Seq(Nat)
  BY DEF IInv, TypeOK
<1> DEFINE a == got[c]
           b == stream[c]
<1>2. a \in Seq(Nat) /\ b \in Seq(Nat) /\ got'[c] = a /\ stream'[c] = Append(b, v)
  BY <1>1
<1>3. Feed(c)' = got'[c] \o stream'[c] /\ Feed(c) = a \o b
  BY DEF Feed
<1> HIDE DEF a, b
<1>4. a \o Append(b, v) = Append(a \o b, v)
  BY <1>2, ConcatAppend
<1>5. QED
  BY <1>2, <1>3, <1>4

\* A step that leaves the streams, what was taken from them and the replay
\* alone leaves what is fed alone.
LEMMA FeedKept ==
  ASSUME IInv, FeedInv, subs' \subseteq subs,
         \A c \in subs : next[c] # 0 => c \in subs',
         UNCHANGED <<sent, since, next, stream, got>>,
         \A c \in subs : filter'[c] = filter[c]
  PROVE  FeedExact' /\ SincePast' /\ ReplayPlace'
<1>1. \A c : Feed(c)' = Feed(c)
  BY DEF Feed
<1>2. \A c \in subs : Exact(Feed(c), sent, since[c], filter[c], next[c])
  BY ExactEach DEF FeedInv
<1>3. \A c \in subs' : Exact(Feed(c)', sent', since'[c], filter'[c], next'[c])
  BY <1>1, <1>2
<1>4. FeedExact'
  BY <1>3, ExactEachNext
<1>5. SincePast' /\ ReplayPlace'
  BY <1>1 DEF FeedInv, SincePast, ReplayPlace
<1>6. QED
  BY <1>4, <1>5

\* Requests and departures touch no stream.
LEMMA ClientFeed ==
  ASSUME IInv, FeedInv, NEW c \in Clients,
         \/ SubscriptionRequest(c) \/ TakeError(c)
         \/ Leave(c) \/ Unsubscribe(c)
  PROVE  FeedInv'
<1>1. subs' = subs /\ UNCHANGED <<sent, since, next, stream, got>>
  BY DEF SubscriptionRequest, TakeError, Leave, Unsubscribe
<1>2. \A d \in subs : filter'[d] = filter[d]
  <2>1. CASE SubscriptionRequest(c)
    <3>1. c \notin subs
      BY <2>1 DEF SubscriptionRequest, IInv, MapReceived, Received
    <3>2. \A d \in Clients : d # c => filter'[d] = filter[d]
      BY <2>1 DEF SubscriptionRequest, IInv, TypeOK
    <3>3. QED
      BY <3>1, <3>2 DEF IInv, TypeOK
  <2>2. CASE TakeError(c) \/ Leave(c) \/ Unsubscribe(c)
    BY <2>2 DEF TakeError, Leave, Unsubscribe
  <2>3. QED
    BY <2>1, <2>2
<1>3. FeedExact' /\ SincePast' /\ ReplayPlace'
  BY <1>1, <1>2, FeedKept
<1>4. /\ \A d \in Clients : d # c => client'[d] = client[d] /\ errC'[d] = errC[d]
      /\ client'[c] # "open"
      /\ client'[c] \notin Received => client[c] \notin Received
  BY DEF IInv, TypeOK, Received, SubscriptionRequest, TakeError, Leave,
         Unsubscribe
<1>5. FreshFeed'
  BY <1>1, <1>4 DEF FeedInv, FreshFeed
<1>6. DroppedIsTold'
  BY <1>1, <1>4 DEF FeedInv, DroppedIsTold
<1>7. QED
  BY <1>3, <1>5, <1>6 DEF FeedInv

\* A value taken from the stream stays in the feed.
LEMMA TakeFeed == ASSUME IInv, FeedInv, NEW c \in Clients, Take(c) PROVE FeedInv'
<1>1. /\ stream[c] \in Seq(Nat) /\ stream[c] # <<>> /\ got[c] \in Seq(Nat)
      /\ got'[c] = Append(got[c], Head(stream[c]))
      /\ stream'[c] = Tail(stream[c])
      /\ \A d \in Clients : d # c => got'[d] = got[d] /\ stream'[d] = stream[d]
      /\ client[c] = "open"
      /\ UNCHANGED <<subs, sent, filter, since, next, client, errC>>
      /\ subs \subseteq Clients
  BY DEF IInv, TypeOK, Take
<1>2. got'[c] \o stream'[c] = got[c] \o stream[c]
  BY <1>1, MoveHead
<1>3. \A d \in Clients : Feed(d)' = Feed(d)
  BY <1>1, <1>2 DEF Feed
<1>4. FeedExact'
  <2>1. \A d \in subs : Exact(Feed(d), sent, since[d], filter[d], next[d])
    BY ExactEach DEF FeedInv
  <2>2. \A d \in subs' : Exact(Feed(d)', sent', since'[d], filter'[d], next'[d])
    BY <1>1, <1>3, <2>1
  <2>3. QED
    BY <2>2, ExactEachNext
<1>5. SincePast' /\ ReplayPlace'
  BY <1>1, <1>3 DEF FeedInv, SincePast, ReplayPlace
<1>6. FreshFeed' /\ DroppedIsTold'
  BY <1>1 DEF FeedInv, FreshFeed, DroppedIsTold, Received
<1>7. QED
  BY <1>4, <1>5, <1>6 DEF FeedInv

\* A client that is received starts with an empty feed, and its id is nobody
\* else's.
LEMMA ReceiveFeed == ASSUME IInv, FeedInv, Receive PROVE FeedInv'
<1>0. PICK h \in Clients : h = Head(reqQ)
  BY ReceiveHead
<1>1. h \in Clients /\ client[h] = "waiting"
  BY <1>0, ReceiveHead
<1>2. /\ client'[h] = "open" /\ since'[h] = sent
      /\ \A d \in Clients : d # h =>
            client'[d] = client[d] /\ since'[d] = since[d] /\ next'[d] = next[d]
      /\ next'[h] = IF Replays /\ sent > 0 THEN 1 ELSE 0
      /\ UNCHANGED <<sent, filter, stream, errC, got>>
      /\ subs' = {d \in subs : sid[d] # nextId} \cup {h}
      /\ subs \subseteq Clients /\ sent \in Nat
      /\ nextId \in Nat
      /\ \A d \in Clients : sid[d] \in Nat
  <2>1. /\ client \in [Clients -> ClientStates] /\ since \in [Clients -> Nat]
        /\ next \in [Clients -> Nat]
        /\ subs \subseteq Clients /\ sent \in Nat /\ nextId \in Nat
        /\ sid \in [Clients -> Nat]
    BY DEF IInv, TypeOK
  <2>2. /\ client' = [client EXCEPT ![h] = "open"]
        /\ since' = [since EXCEPT ![h] = sent]
        /\ next' = [next EXCEPT ![h] = IF Replays /\ sent > 0 THEN 1 ELSE 0]
        /\ UNCHANGED <<sent, filter, stream, errC, got>>
        /\ subs' = {d \in subs : sid[d] # nextId} \cup {h}
    BY <1>0 DEF Receive, ReceiveWithStep
  <2>3. QED
    BY <1>1, <2>1, <2>2
<1>3. \A d \in subs : sid[d] # nextId /\ d # h
  BY <1>1, <1>2 DEF IInv, MapReceived, IdsDistinct, Received
<1>4. subs' = subs \cup {h} /\ h \notin subs
  BY <1>2, <1>3
<1>5. FreshFeed' /\ SincePast'
  BY <1>1, <1>2 DEF FeedInv, FreshFeed, SincePast, Received
<1>6. DroppedIsTold'
  BY <1>1, <1>2, <1>4 DEF FeedInv, DroppedIsTold
<1>7. /\ \A d \in Clients : Feed(d)' = Feed(d)
      /\ Feed(h) = <<>> /\ Len(Feed(h)) = 0
  <2>1. got[h] = <<>> /\ stream[h] = <<>>
    BY <1>1 DEF FeedInv, FreshFeed, Received
  <2>2. Feed(h) = <<>>
    BY <2>1, ConcatEmptySeq DEF Feed
  <2>3. QED
    BY <1>2, <2>2 DEF Feed
<1>8. ReplayPlace'
  <2>1. ASSUME NEW d \in Clients, next'[d] # 0
        PROVE  /\ Replays /\ d \in subs'
               /\ since'[d] = sent' /\ next'[d] <= sent'
               /\ Len(Feed(d)') < next'[d]
               /\ \A i \in 1 .. Len(Feed(d)') : Feed(d)'[i] < next'[d]
    <3>1. CASE d = h
      BY <1>1, <1>2, <1>4, <1>7, <2>1, <3>1
    <3>2. CASE d # h
      BY <1>2, <1>4, <1>7, <2>1, <3>2 DEF FeedInv, ReplayPlace
    <3>3. QED
      BY <3>1, <3>2
  <2>2. QED
    BY <2>1 DEF ReplayPlace
<1>9. FeedExact'
  <2>1. \A d \in subs : Exact(Feed(d), sent, since[d], filter[d], next[d])
    BY ExactEach DEF FeedInv
  <2>2. \A d \in subs : Exact(Feed(d)', sent', since'[d], filter'[d], next'[d])
    BY <1>2, <1>3, <1>7, <2>1
  <2>3. Exact(Feed(h)', sent', since'[h], filter'[h], next'[h])
    <3>1. /\ Feed(h)' = <<>> /\ Len(Feed(h)') = 0 /\ sent' = sent
          /\ since'[h] = sent /\ sent \in Nat
      BY <1>1, <1>2, <1>7
    <3>2. \A v : ~Has(Feed(h)', v)
      BY <3>1 DEF Has
    <3>3. ASSUME Replays, NEW v \in 1 .. sent PROVE ~(next'[h] = 0 \/ v < next'[h])
      BY <1>2, <3>3
    <3>4. QED
      BY <3>1, <3>2, <3>3 DEF Exact
  <2>4. QED
    BY <1>4, <2>2, <2>3, ExactEachNext
<1>10. QED
  BY <1>5, <1>6, <1>8, <1>9 DEF FeedInv

\* One value is replayed: among the first BufSize values it finds room, since
\* the client has at most the earlier ones in its stream.
LEMMA ReplayFeed == ASSUME IInv, FeedInv, NEW c \in Clients, Replay(c) PROVE FeedInv'
<1>1. /\ UNCHANGED <<subs, sent, client, filter, since, errC, got>>
      /\ next' = [next EXCEPT ![c] = IF @ = sent THEN 0 ELSE @ + 1]
      /\ stream' = IF Len(stream[c]) < BufSize
                   THEN [stream EXCEPT ![c] = Append(@, next[c])] ELSE stream
      /\ next[c] # 0 /\ next[c] \in Nat /\ sent \in Nat
      /\ subs \subseteq Clients
  BY DEF Replay, ReplayWithRoom, IInv, TypeOK
<1> DEFINE n == next[c]
<1>2. /\ Replays /\ c \in subs /\ since[c] = sent /\ n <= sent /\ n \in 1 .. sent
      /\ Len(Feed(c)) < n /\ \A i \in 1 .. Len(Feed(c)) : Feed(c)[i] < n
  BY <1>1 DEF FeedInv, ReplayPlace
<1>3. /\ \A d \in Clients : d # c => next'[d] = next[d] /\ stream'[d] = stream[d]
                                       /\ Feed(d)' = Feed(d)
      /\ next'[c] = IF n = sent THEN 0 ELSE n + 1
      /\ stream'[c] = IF Len(stream[c]) < BufSize THEN Append(stream[c], n) ELSE stream[c]
  <2>1. next'[c] = IF n = sent THEN 0 ELSE n + 1
    BY <1>1 DEF IInv, TypeOK
  <2>2. \A d \in Clients : d # c => next'[d] = next[d] /\ stream'[d] = stream[d]
    BY <1>1 DEF IInv, TypeOK
  <2>3. stream'[c] = IF Len(stream[c]) < BufSize THEN Append(stream[c], n) ELSE stream[c]
    BY <1>1 DEF IInv, TypeOK
  <2>4. \A d \in Clients : d # c => Feed(d)' = Feed(d)
    BY <1>1, <2>2 DEF Feed
  <2>5. QED
    BY <2>1, <2>2, <2>3, <2>4
<1>4. Exact(Feed(c), sent, sent, filter[c], n)
  BY <1>2, ExactEach DEF FeedInv
<1>5. Feed(c) \in Seq(Nat) /\ Len(stream[c]) <= Len(Feed(c)) /\ Len(Feed(c)) \in Nat
  <2>1. /\ Feed(c) \in Seq(Nat) /\ Len(Feed(c)) = Len(got[c]) + Len(stream[c])
        /\ Len(stream[c]) \in Nat /\ Len(got[c]) \in Nat
    BY FeedTyped
  <2> DEFINE x == Len(Feed(c))
             y == Len(got[c])
             z == Len(stream[c])
  <2>2. x = y + z /\ y \in Nat /\ z \in Nat
    BY <2>1
  <2> HIDE DEF x, y, z
  <2>3. z <= x /\ x \in Nat
    BY <2>2
  <2>4. QED
    BY <2>1, <2>3 DEF x, z
<1> HIDE DEF n
<1>6. /\ Exact(Feed(c)', sent, sent, filter[c], next'[c])
      /\ next'[c] # 0 => /\ next'[c] = n + 1 /\ n + 1 <= sent
                         /\ Len(Feed(c)') < n + 1
                         /\ \A i \in 1 .. Len(Feed(c)') : Feed(c)'[i] < n + 1
  <2>1. CASE Len(stream[c]) < BufSize
    <3>1. n \in Nat /\ got'[c] = got[c] /\ stream'[c] = Append(stream[c], n)
      BY <1>1, <1>3, <2>1 DEF n
    <3>2. Feed(c)' = Append(Feed(c), n)
      BY <3>1, FeedAppends
    <3> DEFINE s == Feed(c)
               t == Feed(c)'
    <3>a. Below(s, n)
      BY <1>2 DEF Below
    <3>b. Grown(s, n, t)
      BY <1>5, <3>1, <3>2, <3>a, FeedGrows
    <3>3. /\ Len(t) = Len(s) + 1 /\ Len(s) \in Nat
          /\ \A i \in 1 .. Len(t) : (i \in 1 .. Len(s) /\ t[i] = s[i]) \/ (i = Len(s) + 1 /\ t[i] = n)
          /\ Rising(s) => Rising(t)
          /\ \A w : Has(t, w) <=> Has(s, w) \/ w = n
      BY <3>b DEF Grown
    <3>4. /\ Len(s) < n /\ n \in 1 .. sent /\ \A i \in 1 .. Len(s) : s[i] < n
          /\ Exact(s, sent, sent, filter[c], n) /\ Replays
      BY <1>2, <1>4
    <3> HIDE DEF s, t
    <3>5. Exact(t, sent, sent, filter[c], next'[c])
      <4>1. \A i \in 1 .. Len(t) : t[i] \in 1 .. sent
        BY <3>3, <3>4 DEF Exact
      <4>2. \A i, j \in 1 .. Len(t) : i < j => t[i] < t[j]
        BY <3>3, <3>4 DEF Exact, Rising
      <4>3. ASSUME NEW v \in 1 .. sent, v <= BufSize, next'[c] = 0 \/ v < next'[c]
            PROVE  Has(t, v)
        <5>1. v < n \/ v = n
          BY <1>1, <1>3, <3>1, <4>3
        <5>2. QED
          BY <1>1, <3>1, <3>3, <3>4, <4>3, <5>1 DEF Exact
      <4>4. QED
        BY <1>1, <3>4, <4>1, <4>2, <4>3 DEF Exact
    <3>6. next'[c] # 0 => /\ next'[c] = n + 1 /\ n + 1 <= sent
                          /\ Len(t) < n + 1
                          /\ \A i \in 1 .. Len(t) : t[i] < n + 1
      <4>1. ASSUME NEW i \in 1 .. Len(t) PROVE t[i] < n + 1
        <5>1. CASE i \in 1 .. Len(s) /\ t[i] = s[i]
          <6>1. s[i] < n /\ s[i] \in 1 .. sent
            BY <3>4, <5>1 DEF Exact
          <6>2. QED
            BY <3>1, <5>1, <6>1
        <5>2. CASE t[i] = n
          BY <3>1, <5>2
        <5>3. QED
          BY <3>3, <5>1, <5>2
      <4>2. QED
        BY <1>1, <1>3, <3>1, <3>3, <3>4, <4>1
    <3>7. QED
      BY <3>5, <3>6 DEF t
  <2>2. CASE ~(Len(stream[c]) < BufSize)
    <3>1. Feed(c)' = Feed(c)
      BY <1>1, <1>3, <2>2 DEF Feed
    <3>2. BufSize < n
      <4>1. Len(stream[c]) \in Nat /\ BufSize \in Nat /\ n \in Nat
        BY <1>1, FeedTyped, SubHomeAssumption DEF n
      <4>2. QED
        BY <1>2, <1>5, <2>2, <4>1
    <3>3. ASSUME NEW v \in 1 .. sent, v <= BufSize PROVE v < n
      BY <1>1, <3>2, <3>3, SubHomeAssumption DEF n
    <3>4. Exact(Feed(c), sent, sent, filter[c], next'[c])
      <4>1. \A v \in 1 .. sent : v <= BufSize => Has(Feed(c), v)
        BY <1>1, <1>2, <1>4, <3>3 DEF Exact
      <4>2. QED
        BY <1>1, <1>2, <1>4, <4>1 DEF Exact
    <3>5. \A i \in 1 .. Len(Feed(c)) : Feed(c)[i] \in Nat
      BY <1>5
    <3>6. n \in Nat
      BY <1>1 DEF n
    <3>7. QED
      BY <1>1, <1>2, <1>3, <1>5, <3>1, <3>4, <3>5, <3>6
  <2>3. QED
    BY <2>1, <2>2
<1>7. FeedExact'
  <2>1. \A d \in subs : Exact(Feed(d), sent, since[d], filter[d], next[d])
    BY ExactEach DEF FeedInv
  <2>2. \A d \in subs' : d # c =>
           Exact(Feed(d)', sent', since'[d], filter'[d], next'[d])
    BY <1>1, <1>3, <2>1
  <2>3. Exact(Feed(c)', sent', since'[c], filter'[c], next'[c])
    BY <1>1, <1>2, <1>6
  <2>4. QED
    BY <2>2, <2>3, ExactEachNext
<1>8. ReplayPlace'
  <2>1. ASSUME NEW d \in Clients, d # c, next'[d] # 0
        PROVE  /\ Replays /\ d \in subs'
               /\ since'[d] = sent' /\ next'[d] <= sent'
               /\ Len(Feed(d)') < next'[d]
               /\ \A i \in 1 .. Len(Feed(d)') : Feed(d)'[i] < next'[d]
    BY <1>1, <1>3, <2>1 DEF FeedInv, ReplayPlace
  <2>2. QED
    BY <1>1, <1>2, <1>6, <2>1 DEF ReplayPlace
<1>9. FreshFeed'
  <2>1. client[c] \in Received
    BY <1>2 DEF IInv, MapReceived
  <2>2. QED
    BY <1>1, <1>3, <2>1 DEF FeedInv, FreshFeed
<1>10. SincePast' /\ DroppedIsTold'
  BY <1>1 DEF FeedInv, SincePast, DroppedIsTold
<1>11. QED
  BY <1>7, <1>8, <1>9, <1>10 DEF FeedInv

\* Delete removes subscriptions whose client is gone, and only those.
LEMMA DeleteFeed == ASSUME IInv, FeedInv, Delete PROVE FeedInv'
<1> DEFINE out == {d \in subs : sid[d] = Head(delQ)}
<1>1. /\ subs' = subs \ out
      /\ errC' = [d \in Clients |->
                    IF d \in out THEN Append(errC[d], "nil") ELSE errC[d]]
      /\ UNCHANGED <<sent, filter, since, next, stream, got, client>>
      /\ \A d \in Clients : next[d] = 0
      /\ subs \subseteq Clients
  BY DEF Delete, AtSelect, IInv, TypeOK
<1>2. \A d \in out : client[d] = "gone"
  <2>1. Len(delQ) \in Nat \ {0} /\ Head(delQ) = delQ[1]
    BY HeadTailProperties, EmptySeq DEF IInv, TypeOK, Delete
  <2>2. 1 \in 1 .. Len(delQ)
    BY <2>1
  <2>3. QED
    BY <2>1, <2>2 DEF IInv, TypeOK, MapReceived, DeletesOwned
<1> HIDE DEF out
<1>3. FeedExact' /\ SincePast' /\ ReplayPlace'
  BY <1>1, FeedKept
<1>4. FreshFeed'
  BY <1>1 DEF FeedInv, FreshFeed
<1>5. DroppedIsTold'
  BY <1>1, <1>2 DEF FeedInv, DroppedIsTold
<1>6. QED
  BY <1>3, <1>4, <1>5 DEF FeedInv

\* Broadcast feeds every subscription that wants the value and has room, and
\* tells every one it drops.
LEMMA BroadcastFeed == ASSUME IInv, FeedInv, Broadcast PROVE FeedInv'
<1>1. /\ subs' = subs \ Full /\ sent' = sent + 1 /\ sent \in Nat
      /\ stream' = [d \in Clients |->
                       IF d \in Wanting \ Full THEN Append(stream[d], sent + 1)
                                               ELSE stream[d]]
      /\ errC' = [d \in Clients |->
                    IF d \in Full THEN Append(errC[d], "full") ELSE errC[d]]
      /\ UNCHANGED <<filter, since, next, got, client>>
      /\ subs \subseteq Clients /\ Wanting \subseteq subs
      /\ \A d \in Clients : next[d] = 0
      /\ \A d \in Clients : /\ since[d] \in Nat /\ errC[d] \in Seq(Errors)
                            /\ stream[d] \in Seq(Nat) /\ got[d] \in Seq(Nat)
  BY DEF IInv, TypeOK, Broadcast, BroadcastTo, AtSelect, Wanting
<1>2. FreshFeed' /\ SincePast' /\ ReplayPlace'
  <2>1. \A d \in Clients : client[d] \notin Received => stream'[d] = stream[d]
    BY <1>1 DEF IInv, MapReceived
  <2>2. FreshFeed'
    BY <1>1, <2>1 DEF FeedInv, FreshFeed
  <2>3. SincePast'
    BY <1>1 DEF FeedInv, SincePast, IInv, TypeOK
  <2>4. ReplayPlace'
    BY <1>1 DEF ReplayPlace
  <2>5. QED
    BY <2>2, <2>3, <2>4
<1>3. DroppedIsTold'
  <2>1. \A d \in Full \cap Clients : errC'[d] # <<>>
    <3> TAKE d \in Full \cap Clients
    <3>1. errC[d] \in Seq(Errors) /\ errC'[d] = Append(errC[d], "full")
      BY <1>1
    <3>2. QED
      BY <3>1, AppendProperties DEF Errors
  <2>2. QED
    BY <1>1, <2>1 DEF FeedInv, DroppedIsTold
<1>4. FeedExact'
  <2> DEFINE v == sent + 1
  <2>1. v \in Nat /\ 1 .. v = (1 .. sent) \cup {v} /\ v \notin 1 .. sent
    BY <1>1
  <2>2. ASSUME NEW d \in subs'
        PROVE  Exact(Feed(d)', v, since[d], filter[d], 0)
    <3>1. /\ d \in Clients /\ d \in subs /\ d \notin Full /\ got'[d] = got[d]
          /\ since[d] \in Nat /\ since[d] <= sent /\ next[d] = 0
      BY <1>1 DEF FeedInv, SincePast
    <3>2. Exact(Feed(d), sent, since[d], filter[d], 0)
      BY <3>1, ExactEach DEF FeedInv
    <3> DEFINE s == Feed(d)
               t == Feed(d)'
               k == since[d]
    <3>3. s \in Seq(Nat)
      BY <3>1, FeedTyped
    <3>4. \A i \in 1 .. Len(s) : s[i] < v
      BY <1>1, <3>2 DEF Exact
    <3>5. k < v
      BY <1>1, <3>1
    <3>6. ~Has(s, v)
      BY <2>1, <3>3, <3>4 DEF Has
    <3>7. CASE d \in Wanting
      <4>1. stream'[d] = Append(stream[d], v) /\ v \in filter[d]
        BY <1>1, <3>1, <3>7 DEF Wanting
      <4>2. t = Append(s, v)
        BY <2>1, <3>1, <4>1, FeedAppends
      <4> HIDE DEF v, s, t
      <4>a. Below(s, v)
        BY <3>4 DEF Below
      <4>b. Grown(s, v, t)
        BY <2>1, <3>3, <4>2, <4>a, FeedGrows
      <4>3. /\ Len(t) = Len(s) + 1 /\ Len(s) \in Nat
            /\ \A i \in 1 .. Len(t) : (i \in 1 .. Len(s) /\ t[i] = s[i]) \/ (i = Len(s) + 1 /\ t[i] = v)
            /\ Rising(s) => Rising(t)
            /\ \A w : Has(t, w) <=> Has(s, w) \/ w = v
        BY <4>b DEF Grown
      <4>4. Exact(s, sent, k, filter[d], 0)
        BY <3>2 DEF s
      <4>5. \A i \in 1 .. Len(t) : t[i] \in 1 .. v
        BY <2>1, <4>3, <4>4 DEF Exact
      <4>6. \A i, j \in 1 .. Len(t) : i < j => t[i] < t[j]
        BY <4>3, <4>4 DEF Exact, Rising
      <4>7. ASSUME NEW w \in 1 .. v
            PROVE  IF w > k THEN Has(t, w) <=> w \in filter[d]
                   ELSE IF Replays THEN w <= BufSize => Has(t, w) ELSE ~Has(t, w)
        <5>1. CASE w = v
          BY <3>1, <3>5, <4>1, <4>3, <5>1
        <5>2. CASE w \in 1 .. sent
          <6>1. w # v /\ (Has(t, w) <=> Has(s, w))
            BY <2>1, <4>3, <5>2
          <6>2. QED
            BY <4>4, <5>2, <6>1 DEF Exact
        <5>3. QED
          BY <2>1, <5>1, <5>2
      <4>8. Exact(t, v, k, filter[d], 0)
        BY <4>5, <4>6, <4>7 DEF Exact
      <4>9. QED
        BY <4>8 DEF t
    <3>8. CASE d \notin Wanting
      <4>1. stream'[d] = stream[d] /\ v \notin filter[d]
        BY <1>1, <3>1, <3>8 DEF Wanting
      <4>2. t = s
        BY <3>1, <4>1 DEF Feed
      <4> HIDE DEF v, s, t
      <4>3. Exact(s, sent, k, filter[d], 0)
        BY <3>2 DEF s
      <4>4. ASSUME NEW w \in 1 .. v
            PROVE  IF w > k THEN Has(s, w) <=> w \in filter[d]
                   ELSE IF Replays THEN w <= BufSize => Has(s, w) ELSE ~Has(s, w)
        <5>1. CASE w = v
          BY <3>1, <3>5, <3>6, <4>1, <5>1
        <5>2. CASE w \in 1 .. sent
          BY <4>3, <5>2 DEF Exact
        <5>3. QED
          BY <2>1, <5>1, <5>2
      <4>5. Exact(s, v, k, filter[d], 0)
        BY <2>1, <4>3, <4>4 DEF Exact
      <4>6. QED
        BY <4>2, <4>5 DEF t
    <3>9. QED
      BY <3>7, <3>8
  <2>3. \A d \in subs' : Exact(Feed(d)', sent', since'[d], filter'[d], next'[d])
    BY <1>1, <2>2
  <2>4. QED
    BY <2>3, ExactEachNext
<1>5. QED
  BY <1>2, <1>3, <1>4 DEF FeedInv

\* An owner that closes its home tells everyone who is still in the map.
LEMMA ExitFeed == ASSUME IInv, FeedInv, Exit PROVE FeedInv'
<1>1. /\ UNCHANGED <<sent, filter, since, next, stream, got, client>>
      /\ subs' \subseteq subs
      /\ \A c \in Clients : next[c] = 0
      /\ subs \subseteq Clients
  BY DEF Exit, AtSelect, IInv, TypeOK
<1>2. FeedExact' /\ SincePast' /\ ReplayPlace'
  BY <1>1, FeedKept
<1>3. FreshFeed'
  BY <1>1 DEF FeedInv, FreshFeed
<1>4. DroppedIsTold'
  <2>1. CASE ClosesOnExit
    <3>1. /\ errC' = [d \in Clients |->
                        IF d \in subs THEN Append(errC[d], "nil") ELSE errC[d]]
          /\ \A d \in Clients : errC[d] \in Seq(Errors)
      BY <2>1 DEF Exit, IInv, TypeOK
    <3>2. \A d \in subs \cap Clients : errC'[d] # <<>>
      BY <3>1, AppendProperties DEF Errors
    <3>3. QED
      BY <1>1, <3>1, <3>2 DEF FeedInv, DroppedIsTold
  <2>2. CASE ~ClosesOnExit
    BY <1>1, <2>2 DEF FeedInv, DroppedIsTold, Exit
  <2>3. QED
    BY <2>1, <2>2
<1>5. QED
  BY <1>2, <1>3, <1>4 DEF FeedInv

\* The initial state has no subscription and no client that has taken any.
LEMMA InitFeed == Init => FeedInv
  BY DEF Init, FeedInv, FreshFeed, SincePast, ReplayPlace, FeedExact,
         DroppedIsTold

\* Every step preserves FeedInv in a state that satisfies IInv.
LEMMA NextFeed == IInv /\ FeedInv /\ [Next]_vars => FeedInv'
<1> SUFFICES ASSUME IInv, FeedInv, [Next]_vars PROVE FeedInv'
  OBVIOUS
<1>1. CASE Home
  BY <1>1, ReceiveFeed, ReplayFeed, DeleteFeed, BroadcastFeed, ExitFeed DEF Home
<1>2. ASSUME NEW c \in Clients, Client(c) PROVE FeedInv'
  BY <1>2, ClientFeed, TakeFeed DEF Client
<1>3. CASE UNCHANGED vars
  <2>1. FeedExact' /\ SincePast' /\ ReplayPlace'
    BY <1>3, FeedKept DEF vars
  <2>2. QED
    BY <1>3, <2>1 DEF vars, FeedInv, FreshFeed, DroppedIsTold
<1>4. QED
  BY <1>1, <1>2, <1>3 DEF Next

\* What a subscriber is fed while it is in the map, for any buffer size, any
\* filters and however many clients come, read and leave while the owner is
\* replaying: values in their order and none twice, every later broadcast its
\* filter accepts and no other, and at least the first BufSize values of a
\* history that is replayed (SubHome.Receive, Broadcast and the loop over
\* in.history.Array() in the schedulers).
THEOREM FeedIsExact == Spec => []FeedExact
<1>1. FeedInv => FeedExact
  BY DEF FeedInv
<1>2. QED
  BY <1>1, InitFeed, NextFeed, Invariance, PTL DEF Spec

\* A subscriber that Broadcast, Delete or Close takes out of the map while it
\* is still in its loop has an error to read.
THEOREM DroppedAreTold == Spec => []DroppedIsTold
<1>1. FeedInv => DroppedIsTold
  BY DEF FeedInv
<1>2. QED
  BY <1>1, InitFeed, NextFeed, Invariance, PTL DEF Spec
=============================================================================
