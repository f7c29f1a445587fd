------------------------------- MODULE Router -------------------------------
(***************************************************************************)
(* The router (src/state/router): it turns the account updates of          *)
(* ProgramFeed into objects (pipeline, payout, receipt, staker,            *)
(* validator), tells each object of the ones that refer to it, and drops   *)
(* the objects whose account is closed.                                    *)
(*                                                                         *)
(* The feed has a channel per type and Go's select reads ready channels in *)
(* any order, so an account may arrive before the accounts it names: it    *)
(* then waits in one of the xWithNoY maps.  The pairs <<owner, member>> of *)
(* all those maps are in `waiting'; those of which the owner has been told *)
(* are in `links'.                                                         *)
(***************************************************************************)
EXTENDS ProgramFeed

CONSTANT MaxBlind   \* bound on the loopDelete goroutines that fail by themselves

ASSUME MaxBlindAssumption == MaxBlind \in Nat

VARIABLES
    router,    \* loopInternal: "off", "run", "dead"
    known,     \* keys of the byId maps
    held,      \* version of the data inside each object
    ref,       \* version in refPayout.data / refValidator.data
    indexed,   \* objects in byPipeline, byVote and byStake
    links,     \* <<owner, member>>: the owner's object was told of member
    waiting,   \* <<owner, member>>: entries of the xWithNoY maps
    delivered, \* bid list / period ring: version given to its owner's object
    stashed,   \* bid list / period ring: version that waits, 0 if none
    made,      \* how many times an object was created for the account
    watch,     \* loopDelete goroutines: <<id, creation, state>>
    closeC,    \* contents of the closeC channels, capacity one per kind
    blind      \* (history) accounts whose object lost its loopDelete unheard

routerVars == <<router, known, held, ref, indexed, links, waiting, delivered,
                stashed, made, watch, closeC, blind>>
vars == <<feedVars, routerVars>>

Objects == {a \in Accounts :
              Kind[a] \in {"validator", "pipeline", "payout", "receipt", "staker"}}
Lists == {a \in Accounts : Kind[a] \in {"bidList", "periodRing"}}
OfKind(k) == {a \in Accounts : Kind[a] = k}

\* A bid list has one Payout, a period ring one Pipeline.
ASSUME RouterAssumption ==
    \A b \in Lists : \E o \in Accounts :
        Referred(b) = {o} /\ Kind[o] = IF Kind[b] = "bidList" THEN "payout" ELSE "pipeline"

\* The key an absent map entry yields: the zero public key.
ZeroKey == "zero"

\* The account of kind k that a names.
Names(a, k) == {b \in Referred(a) : Kind[b] = k}

TypeOK ==
    /\ FeedTypeOK
    /\ router \in {"off", "run", "dead"}
    /\ known \subseteq Objects
    /\ held \in [Accounts -> Nat]
    /\ ref \in [Accounts -> Nat]
    /\ indexed \subseteq Objects
    /\ links \subseteq Accounts \X Accounts
    /\ waiting \subseteq (Accounts \cup {ZeroKey}) \X Accounts
    /\ delivered \in [Lists -> Nat]
    /\ stashed \in [Lists -> Nat]
    /\ made \in [Objects -> Nat]
    /\ watch \subseteq Objects \X (Nat \ {0}) \X {"start", "on", "zero"}
    /\ closeC \in [Kinds -> Seq(Objects)]
    /\ \A k \in Kinds : \A i \in DOMAIN closeC[k] : Kind[closeC[k][i]] = k
    /\ blind \subseteq Objects

Init ==
    /\ FeedInit
    /\ router = "off"
    /\ known = {}
    /\ held = [a \in Accounts |-> 0]
    /\ ref = [a \in Accounts |-> 0]
    /\ indexed = {}
    /\ links = {}
    /\ waiting = {}
    /\ delivered = [a \in Lists |-> 0]
    /\ stashed = [a \in Lists |-> 0]
    /\ made = [a \in Objects |-> 0]
    /\ watch = {}
    /\ closeC = [k \in Kinds |-> <<>>]
    /\ blind = {}

-----------------------------------------------------------------------------
(* CreateRouter starts loopInternal, whose init goes through the snapshot: *)
(* stakers, receipts, payouts, pipelines, validators, in this order.  The  *)
(* staker receipts of the snapshot are not used, its bid lists and period  *)
(* rings go to maps that nothing reads.                                    *)

\* Mutant: the validators of the snapshot do not get into byVote.
SnappedNoVote(k) == {a \in OfKind(k) : k # "validator" /\ snapshot[a] > 0}

Snapped(k) == {a \in OfKind(k) : snapshot[a] > 0}

\* Pairs of a snapshot member and the owner of kind k it names.
SnappedPairs(m, k) ==
    {p \in Accounts \X Accounts :
        /\ p[2] \in Snapped(m)
        /\ p[1] \in Names(p[2], k)}

init ==
    /\ boot = "ready"
    /\ router = "off"
    /\ boot' = "run"
    /\ router' = "run"
    /\ known' = {a \in Objects : snapshot[a] > 0}
    /\ held' = snapshot
    /\ ref' = snapshot
    /\ indexed' = Snapped("payout") \cup Snapped("validator") \cup Snapped("staker")
    /\ links' = {p \in SnappedPairs("receipt", "payout")
                       \cup SnappedPairs("receipt", "validator")
                       \cup SnappedPairs("payout", "pipeline") : p[1] \in known'}
    /\ waiting' = SnappedPairs("receipt", "payout")
                    \cup {p \in SnappedPairs("receipt", "validator")
                                  \cup SnappedPairs("payout", "pipeline") :
                              p[1] \notin known'}
    /\ made' = [a \in Objects |-> IF a \in known' THEN 1 ELSE 0]
    /\ watch' = {<<a, 1, "start">> : a \in known'}
    /\ UNCHANGED <<chain, changes, wire, snapshot, subs, tracking, feed,
                   stream, full, early, mute, delivered, stashed, closeC,
                   blind>>

-----------------------------------------------------------------------------
(* One case of the select of loopInternal per type of update.              *)

\* <-xG.StreamC
Receives(k) ==
    /\ router = "run"
    /\ stream[k] # <<>>
    /\ stream' = [stream EXCEPT ![k] = Tail(@)]
    /\ UNCHANGED <<chain, changes, wire, snapshot, boot, subs, tracking,
                   feed, full, early, mute>>

\* x.Close() and delete(byId, id): the object's loop ends, and with it what
\* it was told and what others were told of it.
Drops(a) ==
    /\ known' = known \ {a}
    /\ links' = {p \in links : a \notin {p[1], p[2]}}

\* CreateX: a new object and its loopDelete.
Creates(a) ==
    /\ known' = known \cup {a}
    /\ made' = [made EXCEPT ![a] = @ + 1]
    /\ watch' = watch \cup {<<a, made[a] + 1, "start">>}

\* Mutant: a receipt waits for an owner only if somebody else does already.
WaitOwnersListed(a, owners) ==
    {<<o, a>> : o \in {x \in owners \ known : \E p \in waiting : p[1] = x}}

\* The owners that exist are told of a, the others' entries wait.
TellOwners(a, owners) == {<<o, a>> : o \in owners \cap known}
WaitOwners(a, owners) == {<<o, a>> : o \in owners \ known}

\* Members of kind k that wait for a.
WaitingFor(a, k) == {p \in waiting : p[1] = a /\ Kind[p[2]] = k}

\* The branch !IsOpen of the five handlers.
OnClosed(a) ==
    /\ IF a \in known THEN Drops(a) ELSE UNCHANGED <<known, links>>
    /\ waiting' = IF Kind[a] = "staker" /\ a \in known
                  THEN waiting \ WaitingFor(a, "stakerReceipt") ELSE waiting
    /\ UNCHANGED <<held, ref, indexed, delivered, stashed, made, watch>>

\* The lists of owner a that waited are handed over.
HandOver(a) ==
    LET mine == {b \in Lists : a \in Referred(b) /\ stashed[b] > 0} IN
    /\ delivered' = [b \in Lists |-> IF b \in mine THEN stashed[b] ELSE delivered[b]]
    /\ stashed' = [b \in Lists |-> IF b \in mine THEN 0 ELSE stashed[b]]

\* on_payout, IsOpen.  The receipts that wait are told but keep waiting:
\* what is deleted is an entry of receiptWithNoValidator that is not there.
OnPayoutOpen(u) ==
    LET new == u.id \notin known IN
    /\ IF new THEN Creates(u.id) ELSE UNCHANGED <<known, made, watch>>
    /\ held' = [held EXCEPT ![u.id] = u.ver]
    /\ ref' = IF new THEN [ref EXCEPT ![u.id] = u.ver] ELSE ref
    /\ indexed' = IF new THEN indexed \cup {u.id} ELSE indexed
    /\ HandOver(u.id)
    /\ links' = links \cup WaitingFor(u.id, "receipt")
                      \cup TellOwners(u.id, Names(u.id, "pipeline"))
    /\ waiting' = waiting \cup WaitOwners(u.id, Names(u.id, "pipeline"))

on_payout ==
    LET u == Head(stream["payout"]) IN
        /\ Receives("payout")
        /\ IF u.ver = Closed THEN OnClosed(u.id) ELSE OnPayoutOpen(u)
        /\ UNCHANGED <<router, closeC, blind>>

\* on_pipeline, IsOpen: the data of a pipeline that exists is not updated.
OnPipelineOpen(u) ==
    LET new == u.id \notin known IN
    /\ IF new THEN Creates(u.id) ELSE UNCHANGED <<known, made, watch>>
    /\ held' = IF new THEN [held EXCEPT ![u.id] = u.ver] ELSE held
    /\ HandOver(u.id)
    /\ links' = links \cup WaitingFor(u.id, "payout")
    /\ waiting' = waiting \ WaitingFor(u.id, "payout")
    /\ UNCHANGED <<ref, indexed>>

on_pipeline ==
    LET u == Head(stream["pipeline"]) IN
        /\ Receives("pipeline")
        /\ IF u.ver = Closed THEN OnClosed(u.id) ELSE OnPipelineOpen(u)
        /\ UNCHANGED <<router, closeC, blind>>

\* on_receipt, IsOpen.
OnReceiptOpen(u) ==
    LET new == u.id \notin known
        owners == Names(u.id, "payout") \cup Names(u.id, "validator") IN
    /\ IF new THEN Creates(u.id) ELSE UNCHANGED <<known, made, watch>>
    /\ held' = [held EXCEPT ![u.id] = u.ver]
    /\ links' = links \cup WaitingFor(u.id, "stakerReceipt")
                      \cup (IF new THEN TellOwners(u.id, owners) ELSE {})
    /\ waiting' = (waiting \ WaitingFor(u.id, "stakerReceipt"))
                      \cup (IF new THEN WaitOwners(u.id, owners) ELSE {})
    /\ UNCHANGED <<ref, indexed, delivered, stashed>>

on_receipt ==
    LET u == Head(stream["receipt"]) IN
        /\ Receives("receipt")
        /\ IF u.ver = Closed THEN OnClosed(u.id) ELSE OnReceiptOpen(u)
        /\ UNCHANGED <<router, closeC, blind>>

\* on_validator, IsOpen: the data of a validator that exists is not updated.
\* The receipts in its ring, chosen by the chain, lead to the pipelines that
\* are told of the validator.
OnValidatorOpen(u, ring) ==
    LET new == u.id \notin known
        payouts == known \cap UNION {Names(r, "payout") : r \in ring \cap known}
        pipelines == known \cap UNION {Names(p, "pipeline") : p \in payouts} IN
    /\ IF new THEN Creates(u.id) ELSE UNCHANGED <<known, made, watch>>
    /\ held' = IF new THEN [held EXCEPT ![u.id] = u.ver] ELSE held
    /\ ref' = IF new THEN [ref EXCEPT ![u.id] = u.ver] ELSE ref
    /\ indexed' = IF new THEN indexed \cup {u.id} ELSE indexed
    /\ links' = links \cup WaitingFor(u.id, "receipt")
                      \cup {<<p, u.id>> : p \in pipelines}
    /\ waiting' = waiting \ WaitingFor(u.id, "receipt")
    /\ UNCHANGED <<delivered, stashed>>

on_validator ==
    LET u == Head(stream["validator"]) IN
        /\ Receives("validator")
        /\ IF u.ver = Closed
           THEN OnClosed(u.id)
           ELSE \E ring \in SUBSET {r \in Referring(u.id) : Kind[r] = "receipt"} :
                    OnValidatorOpen(u, ring)
        /\ UNCHANGED <<router, closeC, blind>>

\* on_stake_receipt_extra: the receipt is told of the stake.  When it is
\* not there the entry goes under the zero key, where nobody looks.
Extra(sr) ==
    LET receipts == Names(sr, "receipt") IN
    [links |-> TellOwners(sr, receipts),
     waiting |-> IF receipts \subseteq known THEN {} ELSE {<<ZeroKey, sr>>}]

\* on_stake, IsOpen.
OnStakeOpen(u) ==
    LET new == u.id \notin known
        mine == IF new THEN {p[2] : p \in WaitingFor(u.id, "stakerReceipt")}
                ELSE {} IN
    /\ IF new THEN Creates(u.id) ELSE UNCHANGED <<known, made, watch>>
    /\ held' = [held EXCEPT ![u.id] = u.ver]
    /\ indexed' = IF new THEN indexed \cup {u.id} ELSE indexed
    /\ links' = links \cup {<<u.id, sr>> : sr \in mine}
                      \cup UNION {Extra(sr).links : sr \in mine}
    /\ waiting' = (waiting \ {<<u.id, sr>> : sr \in mine})
                      \cup UNION {Extra(sr).waiting : sr \in mine}
    /\ UNCHANGED <<ref, delivered, stashed>>

on_stake ==
    LET u == Head(stream["staker"]) IN
        /\ Receives("staker")
        /\ IF u.ver = Closed THEN OnClosed(u.id) ELSE OnStakeOpen(u)
        /\ UNCHANGED <<router, closeC, blind>>

on_stake_receipt ==
    LET u == Head(stream["stakerReceipt"]) IN
        /\ Receives("stakerReceipt")
        /\ LET managers == Names(u.id, "staker") IN
           IF managers \subseteq known
           THEN /\ links' = links \cup TellOwners(u.id, managers)
                                  \cup Extra(u.id).links
                /\ waiting' = waiting \cup Extra(u.id).waiting
           ELSE /\ waiting' = waiting \cup WaitOwners(u.id, managers)
                /\ UNCHANGED links
        /\ UNCHANGED <<router, known, held, ref, indexed, delivered, stashed,
                       made, watch, closeC, blind>>

\* on_bid and on_period: handed to the owner, or stashed.
OnList(u) ==
    IF Referred(u.id) \subseteq known
    THEN /\ delivered' = [delivered EXCEPT ![u.id] = u.ver]
         /\ UNCHANGED stashed
    ELSE /\ stashed' = [stashed EXCEPT ![u.id] = u.ver]
         /\ UNCHANGED delivered

on_bid ==
    LET u == Head(stream["bidList"]) IN
        /\ Receives("bidList")
        /\ OnList(u)
        /\ UNCHANGED <<router, known, held, ref, indexed, links, waiting, made,
                       watch, closeC, blind>>

on_period ==
    LET u == Head(stream["periodRing"]) IN
        /\ Receives("periodRing")
        /\ OnList(u)
        /\ UNCHANGED <<router, known, held, ref, indexed, links, waiting, made,
                       watch, closeC, blind>>

\* on_refund does nothing.
on_refund ==
    /\ Receives("refund")
    /\ UNCHANGED routerVars

-----------------------------------------------------------------------------
(* loopDelete, one goroutine per object, with its own account subscription.*)

\* The n-th object of the account, if it is the one the router has now.
Current(a, n) == {b \in {a} \cap known : made[b] = n}

\* AccountSubscribe: only a close after this point is reported.
WatchStart(a, n) ==
    /\ <<a, n, "start">> \in watch
    /\ watch' = (watch \ {<<a, n, "start">>})
                  \cup (IF Open(a) THEN {<<a, n, "on">>} ELSE {})
    /\ blind' = IF Open(a) THEN blind ELSE blind \cup Current(a, n)
    /\ UNCHANGED <<feedVars, router, known, held, ref, indexed, links,
                   waiting, delivered, stashed, made, closeC>>

\* Lamports = 0
WatchZero(a, n) ==
    /\ <<a, n, "on">> \in watch
    /\ chain[a] = Closed
    /\ watch' = (watch \ {<<a, n, "on">>}) \cup {<<a, n, "zero">>}
    /\ UNCHANGED <<feedVars, router, known, held, ref, indexed, links,
                   waiting, delivered, stashed, made, closeC, blind>>

\* deleteC <- id
WatchSend(a, n) ==
    /\ <<a, n, "zero">> \in watch
    /\ closeC[Kind[a]] = <<>>
    /\ closeC' = [closeC EXCEPT ![Kind[a]] = <<a>>]
    /\ watch' = watch \ {<<a, n, "zero">>}
    /\ UNCHANGED <<feedVars, router, known, held, ref, indexed, links,
                   waiting, delivered, stashed, made, blind>>

\* The object is closed, or its own account subscription fails, which nobody
\* is told of.
WatchQuit(a, n, s) ==
    /\ s # "zero"
    /\ <<a, n, s>> \in watch
    /\ Current(a, n) # {} => Cardinality(blind) < MaxBlind
    /\ watch' = watch \ {<<a, n, s>>}
    /\ blind' = blind \cup Current(a, n)
    /\ UNCHANGED <<feedVars, router, known, held, ref, indexed, links,
                   waiting, delivered, stashed, made, closeC>>

\* The close cases of the select.  The second level index is cleared for
\* payouts and validators only.
OnCloseC(a) ==
    /\ IF a \in known THEN Drops(a) ELSE UNCHANGED <<known, links>>
    /\ indexed' = IF a \in known /\ Kind[a] \in {"payout", "validator"}
                  THEN indexed \ {a} ELSE indexed
    /\ waiting' = CASE Kind[a] = "payout" -> waiting \ WaitingFor(a, "receipt")
                    [] Kind[a] = "receipt" -> waiting \ WaitingFor(a, "stakerReceipt")
                    [] OTHER -> waiting

ReceiveClose(k) ==
    /\ router = "run"
    /\ closeC[k] # <<>>
    /\ OnCloseC(Head(closeC[k]))
    /\ closeC' = [closeC EXCEPT ![k] = Tail(@)]
    /\ UNCHANGED <<feedVars, router, held, ref, delivered, stashed, made,
                   watch, blind>>

-----------------------------------------------------------------------------
(* Requests of the router's users: functions sent on internalC, which the *)
(* loop runs between two updates.  Absent is the error a caller gets.      *)

Absent == 0

PayoutById(a) == IF a \in known THEN ref[a] ELSE Absent
PayoutByPipelineIdAndStart(a) == IF a \in indexed THEN ref[a] ELSE Absent
PipelineById(a) == IF a \in known THEN held[a] ELSE Absent
ValidatorById(a) == IF a \in known THEN ref[a] ELSE Absent
ValidatorByVote(a) == IF a \in indexed THEN ref[a] ELSE Absent
StakerByStake(a) == IF a \in indexed THEN held[a] ELSE Absent
ReceiptById(a) == IF a \in known THEN held[a] ELSE Absent

\* The answers a caller gets for one account, by id and by its other key.
\* The second ones may outlive the account: a close that comes with the feed
\* clears byId only.
LookUps(a) ==
    CASE Kind[a] = "payout" -> {PayoutById(a), PayoutByPipelineIdAndStart(a)}
      [] Kind[a] = "validator" -> {ValidatorById(a), ValidatorByVote(a)}
      [] Kind[a] = "pipeline" -> {PipelineById(a)}
      [] Kind[a] = "receipt" -> {ReceiptById(a)}
      [] Kind[a] = "staker" -> {StakerByStake(a)}
      [] OTHER -> {}

\* allErrorC, an evicted subscription or the context: finish.
RouterEnds ==
    /\ router = "run"
    /\ feed = "dead" \/ full # {}
    /\ router' = "dead"
    /\ UNCHANGED <<feedVars, known, held, ref, indexed, links, waiting,
                   delivered, stashed, made, watch, closeC, blind>>

-----------------------------------------------------------------------------

Loop ==
    \/ on_payout \/ on_pipeline \/ on_receipt \/ on_validator \/ on_stake
    \/ on_stake_receipt \/ on_bid \/ on_period \/ on_refund
    \/ \E k \in Kinds : ReceiveClose(k)
    \/ RouterEnds

Watchers ==
    \E w \in watch :
        \/ WatchStart(w[1], w[2]) \/ WatchZero(w[1], w[2]) \/ WatchSend(w[1], w[2])
        \/ WatchQuit(w[1], w[2], w[3])

Next ==
    \/ FeedNext /\ UNCHANGED routerVars
    \/ init
    \/ Loop
    \/ Watchers

Spec == Init /\ [][Next]_vars

-----------------------------------------------------------------------------
(* Properties.                                                             *)

\* Nothing is under way between the chain and the router.
Quiet ==
    /\ router = "run"
    /\ feed = "run"
    /\ full = {}
    /\ wire = <<>>
    /\ \A k \in Kinds : stream[k] = <<>> /\ closeC[k] = <<>>
    /\ \A w \in watch : w[3] = "on" /\ Open(w[1])

LinkKinds == {<<"receipt", "payout">>, <<"receipt", "validator">>,
              <<"payout", "pipeline">>}

\* However the types of accounts overtake each other between the feed and
\* the router, a payout is told of its receipts, a validator of its receipts
\* and a pipeline of its payouts: the entries that wait for an owner are
\* handed over when it comes (on_receipt, on_payout, on_pipeline,
\* on_validator and init).
LinksComplete ==
    router = "run" =>
        \A p \in Refers :
            /\ <<Kind[p[1]], Kind[p[2]]>> \in LinkKinds
            /\ p[1] \in known /\ p[2] \in known
            /\ Open(p[1]) /\ Open(p[2])
            => <<p[2], p[1]>> \in links

\* When nothing is under way every open account has its object, which callers
\* find under each of its keys; a payout, receipt or staker has its latest
\* data (the objects of pipelines and validators keep the data they were made
\* with).  What changed between the snapshot and the subscriptions may be
\* missing, but only until the account changes again.  An object whose
\* account is closed is left over only if both sources of closings failed:
\* the feed did not report it (mute), and its loopDelete came too late or
\* lost its own subscription (blind).  However the two sources and the five
\* streams race, one of them is enough.
Converged ==
    Quiet => \A a \in Objects :
                /\ Open(a) /\ a \notin early =>
                     /\ a \in known /\ Absent \notin LookUps(a)
                     /\ Kind[a] \in {"payout", "receipt", "staker"}
                          => held[a] = chain[a]
                /\ a \in known => Open(a) \/ a \in blind \cap mute

\* A bid list or period ring that changed after the subscription is given
\* to its payout or pipeline in its latest version, also when it arrives
\* before its owner (bidListWithNoPayout, periodRingWithNoPipeline).
ListsDelivered ==
    Quiet => \A b \in Lists \ early :
                chain[b] > snapshot[b]
                  /\ Referred(b) \subseteq known
                  => delivered[b] = chain[b]

\* Once nothing is under way the router holds the open accounts, with the
\* latest data of payouts, receipts and stakers, and a closed one only if
\* both the feed and its loopDelete missed the closing; every bid list or
\* period ring, also one that came before its owner, was handed on in its
\* latest version.  An account whose last change fell between the snapshot
\* and the start of the router is excepted until it changes again.
RouterConverged == Converged /\ ListsDelivered

\* Comment at src/state/router/staker.go:106, "tell the receipt that there is
\* stake for the validator": a receipt the router knows is told of every
\* open staker receipt that names it.
StakeReachesReceipt ==
    Quiet => \A p \in Refers :
        /\ Kind[p[1]] = "stakerReceipt" /\ Kind[p[2]] = "receipt"
        /\ Open(p[1]) /\ p[1] \notin early /\ snapshot[p[1]] = 0
        /\ ReceiptById(p[2]) # Absent
        /\ Names(p[1], "staker") \subseteq known
        => <<p[2], p[1]>> \in links
=============================================================================
