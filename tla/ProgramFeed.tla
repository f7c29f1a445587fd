---------------------------- MODULE ProgramFeed ----------------------------
(***************************************************************************)
(* The feed of program accounts (src/state/sub/sub.go): a snapshot of all  *)
(* accounts (FetchProgramAll) and a websocket subscription whose loop      *)
(* (loopSubscribePipeline) sorts the updates by type of account and        *)
(* broadcasts each type in its own home.                                   *)
(*                                                                         *)
(* The one subscriber modelled is the router, whose nine subscriptions are *)
(* requested one after the other in CreateRouter, after the snapshot.      *)
(* What an account contains is its version; the accounts it names are      *)
(* given by the relation Refers.                                           *)
(***************************************************************************)
EXTENDS Integers, Sequences, FiniteSets

CONSTANTS
    Accounts,    \* the accounts of the program that may exist
    Kind,        \* Accounts -> Kinds: the discriminator of the account
    Refers,      \* <<a, b>>: the data of account a names account b
    Chain0,      \* sets of accounts that may be open when CreateRouter starts
    StreamCap,   \* capacity of a subscription's StreamC
    MaxChange    \* bound on the number of changes on chain

Kinds == {"validator", "pipeline", "refund", "bidList", "periodRing",
          "staker", "stakerReceipt", "receipt", "payout"}

\* The order in which CreateRouter requests its subscriptions.
SubOrder == <<"validator", "pipeline", "refund", "bidList", "periodRing",
              "staker", "stakerReceipt", "receipt", "payout">>

ASSUME FeedAssumption ==
    /\ Kind \in [Accounts -> Kinds]
    /\ Refers \subseteq Accounts \X Accounts
    /\ Chain0 \subseteq SUBSET Accounts
    /\ \A S \in Chain0, p \in Refers : p[1] \in S => p[2] \in S
    /\ StreamCap \in Nat \ {0}
    /\ MaxChange \in Nat

Closed == -1

VARIABLES
    chain,     \* 0 before it exists, its version, or Closed
    changes,   \* number of changes on chain
    wire,      \* updates on the websocket: [id, ver], ver = Closed if short
    snapshot,  \* ProgramAllResult: the version of each account, 0 if none
    boot,      \* progress of CreateRouter
    subs,      \* how many subscriptions of SubOrder are registered
    tracking,  \* keys of trackingAccounts
    feed,      \* "run" until loopSubscribePipeline has returned
    stream,    \* contents of the router's nine StreamC
    full,      \* kinds whose subscription was evicted: ErrorC holds an error
    early,     \* (history) accounts whose last change fell between the
               \* snapshot and the start of the router
    mute       \* (history) accounts whose closing the feed did not report

feedVars == <<chain, changes, wire, snapshot, boot, subs, tracking, feed,
              stream, full, early, mute>>

Open(a) == chain[a] > 0
Referred(a) == {b \in Accounts : <<a, b>> \in Refers}
Referring(a) == {b \in Accounts : <<b, a>> \in Refers}
Update == [id : Accounts, ver : {Closed} \cup (Nat \ {0})]

FeedTypeOK ==
    /\ chain \in [Accounts -> {Closed} \cup Nat]
    /\ changes \in 0 .. MaxChange
    /\ wire \in Seq(Update)
    /\ snapshot \in [Accounts -> Nat]
    /\ boot \in {"ws", "fetched", "ready", "run", "failed"}
    /\ subs \in 0 .. Len(SubOrder)
    /\ tracking \subseteq Accounts
    /\ feed \in {"run", "dead"}
    /\ stream \in [Kinds -> Seq(Update)]
    /\ full \subseteq Kinds
    /\ early \subseteq Accounts /\ mute \subseteq Accounts

\* CreateRouter after ProgramSubscribe has succeeded.
FeedInit ==
    /\ \E S \in Chain0 : chain = [a \in Accounts |-> IF a \in S THEN 1 ELSE 0]
    /\ changes = 0
    /\ wire = <<>>
    /\ snapshot = [a \in Accounts |-> 0]
    /\ boot = "ws"
    /\ subs = 0
    /\ tracking = {}
    /\ feed = "run"
    /\ stream = [k \in Kinds |-> <<>>]
    /\ full = {}
    /\ early = {} /\ mute = {}

-----------------------------------------------------------------------------
(* The chain.  An account is created after those it names and closed       *)
(* before them.                                                            *)

ChainSet(a, v) ==
    /\ changes < MaxChange
    /\ changes' = changes + 1
    /\ chain' = [chain EXCEPT ![a] = v]
    /\ wire' = Append(wire, [id |-> a, ver |-> v])
    /\ early' = IF boot \in {"fetched", "ready"}
                THEN early \cup {a} ELSE early \ {a}
    /\ UNCHANGED <<snapshot, boot, subs, tracking, feed, stream, full, mute>>

ChainCreate(a) ==
    /\ chain[a] = 0
    /\ \A b \in Referred(a) : Open(b)
    /\ ChainSet(a, 1)

ChainUpdate(a) ==
    /\ Open(a)
    /\ ChainSet(a, chain[a] + 1)

ChainClose(a) ==
    /\ Open(a)
    /\ \A b \in Referring(a) : ~Open(b)
    /\ ChainSet(a, Closed)

-----------------------------------------------------------------------------
(* CreateRouter.                                                           *)

\* One RPC: every account with lamports, decoded by its discriminator.
FetchProgramAll ==
    /\ boot = "ws"
    /\ snapshot' = [a \in Accounts |-> IF Open(a) THEN chain[a] ELSE 0]
    /\ boot' = "fetched"
    /\ UNCHANGED <<chain, changes, wire, subs, tracking, feed, stream, full,
                   early, mute>>

\* The RPC fails, an account is too small or the controller is missing.
FetchFails ==
    /\ boot = "ws"
    /\ boot' = "failed"
    /\ UNCHANGED <<chain, changes, wire, snapshot, subs, tracking, feed,
                   stream, full, early, mute>>

\* dssub.SubscriptionRequest, answered by the feed's loop.
Subscribe ==
    /\ boot = "fetched"
    /\ feed = "run"
    /\ subs' = subs + 1
    /\ boot' = IF subs' = Len(SubOrder) THEN "ready" ELSE boot
    /\ UNCHANGED <<chain, changes, wire, snapshot, tracking, feed, stream,
                   full, early, mute>>

-----------------------------------------------------------------------------
(* loopSubscribePipeline.                                                  *)

Subscribed(k) == \E i \in 1 .. subs : SubOrder[i] = k

\* SubHome.Broadcast to the router: a full stream is evicted.
Broadcast(u) ==
    LET k == Kind[u.id] IN
    IF ~Subscribed(k) \/ k \in full
    THEN UNCHANGED <<stream, full>>
    ELSE IF Len(stream[k]) < StreamCap
         THEN /\ stream' = [stream EXCEPT ![k] = Append(@, u)]
              /\ UNCHANGED full
         ELSE /\ full' = full \cup {k}
              /\ UNCHANGED stream

\* The account has data: broadcast by type; bid lists and period rings are
\* not tracked.
FeedOpen(u) ==
    /\ u.ver # Closed
    /\ Broadcast(u)
    /\ tracking' = IF Kind[u.id] \in {"bidList", "periodRing"}
                   THEN tracking ELSE tracking \cup {u.id}
    /\ UNCHANGED mute

\* The account has no data any more: the type comes from trackingAccounts,
\* and only five types are reported as closed.  An account that still has
\* data but no lamports is not reported either.
FeedClose(u) ==
    /\ u.ver = Closed
    /\ \/ /\ u.id \in tracking
          /\ Kind[u.id] \in {"validator", "pipeline", "staker", "payout",
                             "receipt"}
          /\ Broadcast(u)
          /\ mute' = IF Subscribed(Kind[u.id]) THEN mute ELSE mute \cup {u.id}
       \/ /\ mute' = mute \cup {u.id}
          /\ UNCHANGED <<stream, full>>
    /\ UNCHANGED tracking

FeedStep ==
    /\ feed = "run"
    /\ wire # <<>>
    /\ wire' = Tail(wire)
    /\ FeedOpen(Head(wire)) \/ FeedClose(Head(wire))
    /\ UNCHANGED <<chain, changes, snapshot, boot, subs, feed, early>>

\* The websocket closes, or an account cannot be decoded.
FeedError ==
    /\ feed = "run"
    /\ feed' = "dead"
    /\ UNCHANGED <<chain, changes, wire, snapshot, boot, subs, tracking,
                   stream, full, early, mute>>

FeedNext ==
    \/ \E a \in Accounts : ChainCreate(a) \/ ChainUpdate(a) \/ ChainClose(a)
    \/ FetchProgramAll \/ FetchFails \/ Subscribe
    \/ FeedStep \/ FeedError
=============================================================================
