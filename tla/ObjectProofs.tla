---------------------------- MODULE ObjectProofs ----------------------------
(***************************************************************************)
(* Proofs about the router and the state objects it makes, for every set   *)
(* of accounts and every relation between them, every number of changes    *)
(* and every capacity of the channels.                                     *)
(*                                                                         *)
(* The router: LinksComplete and RouterConverged.  An owner and its        *)
(* members arrive on different streams and are dropped by two different    *)
(* sources of closings.  The argument is that both sources speak of        *)
(* accounts that are closed for good (Honest), that a member is never open *)
(* without its owner (OwnersOpen), and that therefore every member that is *)
(* known and open is either told to its owner or waits for it in one of    *)
(* the xWithNoY maps (Told).  Convergence, the second half, follows the    *)
(* last message about an account from the chain to its object.             *)
(*                                                                         *)
(* The objects: the linked list implements a sequence (ImplementsSeq), the *)
(* pipeline keeps its payouts in order and its index exact on such a list, *)
(* and a validator's two receipt maps and a receipt's registered stake     *)
(* agree with what they index; together they are IndexesExact.             *)
(***************************************************************************)
EXTENDS Objects, ListHeap, SequenceFacts, TLAPS

News == [id : Accounts, ver : {Closed} \cup (Nat \ {0})]

\* An update that may be under way: its account has existed, and a closing
\* is never contradicted by the chain.
Legit ==
    {u \in News : /\ chain[u.id] # 0
                  /\ u.ver = Closed => chain[u.id] = Closed}

\* Those of one type, and the accounts that are closed.
LegitOf(k) == {u \in Legit : Kind[u.id] = k}
Gone == {a \in Accounts : chain[a] = Closed}

\* Whatever reaches the router is true of the chain.
Honest ==
    /\ chain \in [Accounts -> {Closed} \cup Nat]
    /\ snapshot \in [Accounts -> Nat]
    /\ \A a \in Accounts : snapshot[a] > 0 => chain[a] # 0
    /\ wire \in Seq(Legit)
    /\ stream \in [Kinds -> Seq(News)]
    /\ \A k \in Kinds : stream[k] \in Seq(LegitOf(k))
    /\ \A w \in watch : w[1] \in Accounts /\ (w[3] = "zero" => w[1] \in Gone)
    /\ closeC \in [Kinds -> Seq(Accounts)]
    /\ \A k \in Kinds : closeC[k] \in Seq(Gone)
    /\ known \subseteq Accounts
    /\ \A a \in known : chain[a] # 0

\* A member is closed before its owner.
OwnersOpen == \A p \in Refers : Open(p[1]) => Open(p[2])

LinkPairs == {p \in Refers : <<Kind[p[1]], Kind[p[2]]>> \in LinkKinds}

\* A member that is known and open is told to its owner, or waits for it.
Told ==
    \A p \in LinkPairs : p[1] \in known /\ Open(p[1]) =>
        /\ p[2] \in known => <<p[2], p[1]>> \in links
        /\ p[2] \notin known => <<p[2], p[1]>> \in waiting

RInv == Honest /\ OwnersOpen /\ Told

-----------------------------------------------------------------------------
(* The chain and the feed.                                                 *)

\* The kinds at the two ends of a link.
LEMMA Ends ==
  ASSUME NEW p \in LinkPairs
  PROVE  /\ p \in Refers /\ p = <<p[1], p[2]>>
         /\ p[1] \in Accounts /\ p[2] \in Accounts
         /\ \/ Kind[p[1]] = "receipt" /\ Kind[p[2]] \in {"payout", "validator"}
            \/ Kind[p[1]] = "payout" /\ Kind[p[2]] = "pipeline"
  BY FeedAssumption DEF LinkPairs, LinkKinds

\* What was true of an account that has existed or is closed stays true.
LEMMA LegitGrows ==
  ASSUME \A a \in Accounts : /\ chain[a] # 0 => chain'[a] # 0
                             /\ chain[a] = Closed => chain'[a] = Closed
  PROVE  /\ Legit \subseteq Legit' /\ Gone \subseteq Gone'
         /\ \A k \in Kinds : LegitOf(k) \subseteq LegitOf(k)'
<1>1. \A u \in News : u.id \in Accounts
  BY DEF News
<1>2. QED
  BY <1>1 DEF Legit, LegitOf, Gone

\* Honest is a matter of the chain, the messages and the known accounts.
LEMMA HonestFrom ==
  ASSUME Honest,
         \A a \in Accounts : /\ chain[a] # 0 => chain'[a] # 0
                             /\ chain[a] = Closed => chain'[a] = Closed,
         chain' \in [Accounts -> {Closed} \cup Nat],
         snapshot' \in [Accounts -> Nat],
         \A a \in Accounts : snapshot'[a] > 0 => chain'[a] # 0,
         wire' \in Seq(Legit'),
         stream' \in [Kinds -> Seq(News)],
         \A k \in Kinds : stream'[k] \in Seq(LegitOf(k)),
         \A w \in watch' : w \in watch
              \/ (w[1] \in Accounts /\ (w[3] = "zero" => w[1] \in Gone)),
         closeC' \in [Kinds -> Seq(Accounts)],
         \A k \in Kinds : closeC'[k] \in Seq(Gone),
         known' \subseteq Accounts,
         \A a \in known' : a \in known \/ chain'[a] # 0
  PROVE  Honest'
<1>1. /\ Legit \subseteq Legit' /\ Gone \subseteq Gone'
      /\ \A k \in Kinds : LegitOf(k) \subseteq LegitOf(k)'
  BY LegitGrows
<1>2. \A k \in Kinds : stream'[k] \in Seq(LegitOf(k)')
  <2> TAKE k \in Kinds
  <2> DEFINE S == LegitOf(k)
             T == LegitOf(k)'
             q == stream'[k]
  <2>1. S \subseteq T /\ q \in Seq(S)
    BY <1>1
  <2> HIDE DEF S, T, q
  <2>2. q \in Seq(T)
    BY <2>1, SeqMonotone
  <2>3. QED
    BY <2>2 DEF q, T
<1>3. \A k \in Kinds : closeC'[k] \in Seq(Gone')
  <2> TAKE k \in Kinds
  <2> DEFINE S == Gone
             T == Gone'
             q == closeC'[k]
  <2>1. S \subseteq T /\ q \in Seq(S)
    BY <1>1
  <2> HIDE DEF S, T, q
  <2>2. q \in Seq(T)
    BY <2>1, SeqMonotone
  <2>3. QED
    BY <2>2 DEF q, T
<1>4. \A w \in watch' : w[1] \in Accounts /\ (w[3] = "zero" => w[1] \in Gone')
  BY <1>1 DEF Honest
<1>5. \A a \in known' : chain'[a] # 0
  BY DEF Honest
<1>6. QED
  BY <1>2, <1>3, <1>4, <1>5 DEF Honest

\* A change on chain, and what it does to one account.
LEMMA ChainEffect ==
  ASSUME Honest, NEW a \in Accounts,
         ChainCreate(a) \/ ChainUpdate(a) \/ ChainClose(a)
  PROVE  /\ chain' \in [Accounts -> {Closed} \cup Nat]
         /\ chain[a] # Closed /\ chain'[a] # 0
         /\ \A b \in Accounts : b # a => chain'[b] = chain[b]
         /\ wire' = Append(wire, [id |-> a, ver |-> chain'[a]])
         /\ UNCHANGED <<snapshot, boot, subs, tracking, feed, stream, full>>
         /\ \/ chain[a] = 0 /\ \A b \in Referred(a) : Open(b)
            \/ Open(a) /\ Open(a)'
            \/ ~Open(a)' /\ \A b \in Referring(a) : ~Open(b)
<1>1. chain \in [Accounts -> {Closed} \cup Nat]
  BY DEF Honest
<1>2. CASE ChainCreate(a)
  BY <1>1, <1>2 DEF ChainCreate, ChainSet, Closed
<1>3. CASE ChainUpdate(a)
  <2>1. chain[a] \in Nat \ {0}
    BY <1>1, <1>3 DEF ChainUpdate, Open, Closed
  <2>2. chain[a] + 1 \in Nat \ {0} /\ chain[a] # -1
    BY <2>1
  <2>3. QED
    BY <1>1, <1>3, <2>1, <2>2 DEF ChainUpdate, ChainSet, Open, Closed
<1>4. CASE ChainClose(a)
  BY <1>1, <1>4 DEF ChainClose, ChainSet, Open, Closed
<1>5. QED
  BY <1>2, <1>3, <1>4

LEMMA ChainStep ==
  ASSUME RInv, NEW a \in Accounts, UNCHANGED routerVars,
         ChainCreate(a) \/ ChainUpdate(a) \/ ChainClose(a)
  PROVE  RInv'
<1>1. Honest /\ OwnersOpen /\ Told
  BY DEF RInv
<1>2. /\ chain' \in [Accounts -> {Closed} \cup Nat]
      /\ chain[a] # Closed /\ chain'[a] # 0
      /\ \A b \in Accounts : b # a => chain'[b] = chain[b]
      /\ wire' = Append(wire, [id |-> a, ver |-> chain'[a]])
      /\ UNCHANGED <<snapshot, boot, subs, tracking, feed, stream, full>>
      /\ \/ chain[a] = 0 /\ \A b \in Referred(a) : Open(b)
         \/ Open(a) /\ Open(a)'
         \/ ~Open(a)' /\ \A b \in Referring(a) : ~Open(b)
  BY <1>1, ChainEffect
<1>3. /\ UNCHANGED <<known, links, waiting, watch, closeC>>
  BY DEF routerVars
<1>4. \A b \in Accounts : /\ chain[b] # 0 => chain'[b] # 0
                          /\ chain[b] = Closed => chain'[b] = Closed
  BY <1>2
<1>5. wire' \in Seq(Legit')
  <2> DEFINE u == [id |-> a, ver |-> chain'[a]]
             S == Legit
             T == Legit'
  <2>1. u \in T
    BY <1>2 DEF Legit, News
  <2>2. wire \in Seq(S) /\ S \subseteq T /\ wire' = Append(wire, u)
    BY <1>1, <1>2, <1>4, LegitGrows DEF Honest
  <2> HIDE DEF u, S, T
  <2>3. wire \in Seq(T)
    BY <2>2, SeqMonotone
  <2>4. wire' \in Seq(T)
    BY <2>1, <2>2, <2>3, AppendTyped
  <2>5. QED
    BY <2>4 DEF T
<1>6. Honest'
  <2>1. \A b \in Accounts : snapshot'[b] > 0 => chain'[b] # 0
    BY <1>1, <1>2, <1>4 DEF Honest
  <2>2. /\ snapshot' \in [Accounts -> Nat] /\ stream' \in [Kinds -> Seq(News)]
        /\ \A k \in Kinds : stream'[k] \in Seq(LegitOf(k))
        /\ closeC' \in [Kinds -> Seq(Accounts)]
        /\ \A k \in Kinds : closeC'[k] \in Seq(Gone)
        /\ known' \subseteq Accounts
    BY <1>1, <1>2, <1>3 DEF Honest
  <2>3. /\ \A w \in watch' : w \in watch
        /\ \A b \in known' : b \in known
    BY <1>3
  <2>4. QED
    BY <1>1, <1>2, <1>4, <1>5, <2>1, <2>2, <2>3, HonestFrom
<1>7. \A b \in Accounts : Open(b)' =>
         Open(b) \/ (b = a /\ chain[a] = 0 /\ \A c \in Referred(a) : Open(c))
  BY <1>2 DEF Open
<1>8. OwnersOpen'
  <2> SUFFICES ASSUME NEW p \in Refers, Open(p[1])' PROVE Open(p[2])'
    BY DEF OwnersOpen
  <2>1. p[1] \in Accounts /\ p[2] \in Accounts /\ p = <<p[1], p[2]>>
    BY FeedAssumption
  <2>2. p[1] = a => p[2] \in Referred(a)
    BY <2>1 DEF Referred
  <2>3. p[2] = a => p[1] \in Referring(a)
    BY <2>1 DEF Referring
  <2>4. Open(p[1]) => Open(p[2])
    BY <1>1 DEF OwnersOpen
  <2>5. Open(p[2])
    BY <1>7, <2>1, <2>2, <2>4
  <2>6. CASE p[2] # a
    BY <1>2, <2>1, <2>5, <2>6 DEF Open
  <2>7. CASE p[2] = a
    <3>1. chain[a] # 0
      BY <1>1, <2>5, <2>7 DEF Open, Honest
    <3>2. Open(p[1])
      BY <1>7, <2>1, <3>1
    <3>3. QED
      BY <1>2, <2>3, <2>7, <3>1, <3>2
  <2>8. QED
    BY <2>6, <2>7
<1>9. Told'
  <2> SUFFICES ASSUME NEW p \in LinkPairs, p[1] \in known, Open(p[1])'
               PROVE  /\ p[2] \in known => <<p[2], p[1]>> \in links
                      /\ p[2] \notin known => <<p[2], p[1]>> \in waiting
    BY <1>3 DEF Told
  <2>1. p[1] \in Accounts /\ chain[p[1]] # 0
    BY <1>1 DEF Honest
  <2>2. Open(p[1])
    BY <1>7, <2>1
  <2>3. QED
    BY <1>1, <2>2 DEF Told
<1>10. QED
  BY <1>6, <1>8, <1>9 DEF RInv

\* While the chain stands still.
LEMMA StillHonest ==
  ASSUME Honest, UNCHANGED chain,
         snapshot' \in [Accounts -> Nat],
         \A a \in Accounts : snapshot'[a] > 0 => chain[a] # 0,
         wire' \in Seq(Legit),
         stream' \in [Kinds -> Seq(News)],
         \A k \in Kinds : stream'[k] \in Seq(LegitOf(k)),
         \A w \in watch' : w \in watch
              \/ (w[1] \in Accounts /\ (w[3] = "zero" => w[1] \in Gone)),
         closeC' \in [Kinds -> Seq(Accounts)],
         \A k \in Kinds : closeC'[k] \in Seq(Gone),
         known' \subseteq Accounts,
         \A a \in known' : a \in known \/ chain[a] # 0
  PROVE  Honest'
<1>1. Legit' = Legit /\ Gone' = Gone /\ \A k \in Kinds : LegitOf(k)' = LegitOf(k)
  BY DEF Legit, Gone, LegitOf
<1>2. wire' \in Seq(Legit')
  BY <1>1
<1>3. QED
  BY <1>1 DEF Honest

\* The other two parts do not depend on the messages.
LEMMA StillTold ==
  ASSUME OwnersOpen, Told, UNCHANGED <<chain, known, links, waiting>>
  PROVE  OwnersOpen' /\ Told'
  BY DEF OwnersOpen, Told, Open

\* What Honest says of the messages, in the form in which a step that does
\* not touch them hands it on.
LEMMA MessagesKept ==
  ASSUME Honest
  PROVE  /\ UNCHANGED wire => wire' \in Seq(Legit)
         /\ UNCHANGED stream => /\ stream' \in [Kinds -> Seq(News)]
                                /\ \A k \in Kinds : stream'[k] \in Seq(LegitOf(k))
         /\ UNCHANGED closeC => /\ closeC' \in [Kinds -> Seq(Accounts)]
                                /\ \A k \in Kinds : closeC'[k] \in Seq(Gone)
         /\ UNCHANGED snapshot =>
               /\ snapshot' \in [Accounts -> Nat]
               /\ \A a \in Accounts : snapshot'[a] > 0 => chain[a] # 0
         /\ UNCHANGED known => /\ known' \subseteq Accounts
                               /\ \A a \in known' : a \in known
         /\ UNCHANGED watch => \A w \in watch' : w \in watch
  BY DEF Honest

\* The snapshot, the subscriptions and the death of the feed.
LEMMA BootSteps ==
  ASSUME RInv, UNCHANGED routerVars,
         FetchProgramAll \/ FetchFails \/ Subscribe \/ FeedError
  PROVE  RInv'
<1>1. Honest /\ OwnersOpen /\ Told
  BY DEF RInv
<1>2. /\ UNCHANGED <<chain, wire, stream, known, links, waiting, watch, closeC>>
      /\ \/ UNCHANGED snapshot
         \/ snapshot' = [a \in Accounts |-> IF Open(a) THEN chain[a] ELSE 0]
  BY DEF FetchProgramAll, FetchFails, Subscribe, FeedError, routerVars
<1>3. /\ snapshot' \in [Accounts -> Nat]
      /\ \A a \in Accounts : snapshot'[a] > 0 => chain[a] # 0
  <2>1. CASE UNCHANGED snapshot
    BY <1>1, <2>1, MessagesKept
  <2>2. CASE snapshot' = [a \in Accounts |-> IF Open(a) THEN chain[a] ELSE 0]
    BY <1>1, <2>2 DEF Honest, Open, Closed
  <2>3. QED
    BY <1>2, <2>1, <2>2
<1>4. /\ wire' \in Seq(Legit) /\ stream' \in [Kinds -> Seq(News)]
      /\ \A k \in Kinds : stream'[k] \in Seq(LegitOf(k))
      /\ closeC' \in [Kinds -> Seq(Accounts)]
      /\ \A k \in Kinds : closeC'[k] \in Seq(Gone)
      /\ known' \subseteq Accounts /\ (\A a \in known' : a \in known)
      /\ \A w \in watch' : w \in watch
  BY <1>1, <1>2, MessagesKept
<1>5. Honest'
  BY <1>1, <1>2, <1>3, <1>4, StillHonest
<1>6. QED
  BY <1>1, <1>2, <1>5, StillTold DEF RInv

\* The feed sorts an update into its stream, or drops it.
LEMMA FeedStepStep ==
  ASSUME RInv, UNCHANGED routerVars, FeedStep PROVE RInv'
<1>1. Honest /\ OwnersOpen /\ Told
  BY DEF RInv
<1>2. /\ UNCHANGED <<chain, snapshot, known, links, waiting, watch, closeC>>
      /\ wire # <<>> /\ wire' = Tail(wire)
      /\ UNCHANGED stream \/ Broadcast(Head(wire))
  BY DEF FeedStep, FeedOpen, FeedClose, routerVars
<1>3. Head(wire) \in Legit /\ wire' \in Seq(Legit)
  <2> DEFINE S == Legit
  <2>1. wire \in Seq(S)
    BY <1>1 DEF Honest
  <2> HIDE DEF S
  <2>2. Head(wire) \in S /\ Tail(wire) \in Seq(S)
    BY <1>2, <2>1, TailTyped
  <2>3. QED
    BY <1>2, <2>2 DEF S
<1> DEFINE u == Head(wire)
           k == Kind[u.id]
<1>4. /\ u \in LegitOf(k) /\ u \in News /\ k \in Kinds
  BY <1>3, FeedAssumption DEF LegitOf, Legit, News
<1>5. UNCHANGED stream \/ stream' = [stream EXCEPT ![k] = Append(@, u)]
  BY <1>2 DEF Broadcast
<1> HIDE DEF u, k
<1>6. /\ stream' \in [Kinds -> Seq(News)]
      /\ \A j \in Kinds : stream'[j] \in Seq(LegitOf(j))
  <2>1. CASE UNCHANGED stream
    BY <1>1, <2>1, MessagesKept
  <2>2. CASE stream' = [stream EXCEPT ![k] = Append(@, u)]
    <3> DEFINE q == stream[k]
               S == LegitOf(k)
    <3>1. stream \in [Kinds -> Seq(News)] /\ q \in Seq(S) /\ q \in Seq(News)
          /\ u \in S /\ \A j \in Kinds : stream[j] \in Seq(LegitOf(j))
      BY <1>1, <1>4 DEF Honest
    <3>2. stream' = [stream EXCEPT ![k] = Append(q, u)]
      BY <2>2
    <3> HIDE DEF q, S
    <3>3. Append(q, u) \in Seq(S) /\ Append(q, u) \in Seq(News)
      BY <1>4, <3>1, AppendTyped
    <3>4. Append(q, u) \in Seq(LegitOf(k))
      BY <3>3 DEF S
    <3>5. QED
      BY <1>4, <3>1, <3>2, <3>3, <3>4
  <2>3. QED
    BY <1>5, <2>1, <2>2
<1>7. /\ closeC' \in [Kinds -> Seq(Accounts)]
      /\ \A j \in Kinds : closeC'[j] \in Seq(Gone)
      /\ known' \subseteq Accounts /\ (\A a \in known' : a \in known)
      /\ \A w \in watch' : w \in watch
      /\ snapshot' \in [Accounts -> Nat]
      /\ \A a \in Accounts : snapshot'[a] > 0 => chain[a] # 0
  BY <1>1, <1>2, MessagesKept
<1>8. Honest'
  BY <1>1, <1>2, <1>3, <1>6, <1>7, StillHonest
<1>9. QED
  BY <1>1, <1>2, <1>8, StillTold DEF RInv

-----------------------------------------------------------------------------
(* The router.                                                             *)

\* loopInternal goes through the snapshot.
LEMMA InitStep == ASSUME RInv, init PROVE RInv'
<1>1. Honest /\ OwnersOpen /\ Told
  BY DEF RInv
<1>2. /\ UNCHANGED <<chain, wire, snapshot, stream, closeC>>
      /\ known' = {a \in Objects : snapshot[a] > 0}
      /\ links' = {p \in SnappedPairs("receipt", "payout")
                         \cup SnappedPairs("receipt", "validator")
                         \cup SnappedPairs("payout", "pipeline") : p[1] \in known'}
      /\ waiting' = SnappedPairs("receipt", "payout")
                      \cup {p \in SnappedPairs("receipt", "validator")
                                    \cup SnappedPairs("payout", "pipeline") :
                                p[1] \notin known'}
      /\ watch' = {<<a, 1, "start">> : a \in known'}
  BY DEF init
<1>3. /\ known' \subseteq Accounts
      /\ \A a \in known' : snapshot[a] > 0 /\ chain[a] # 0
      /\ \A w \in watch' : w[1] \in Accounts /\ w[3] # "zero"
  BY <1>1, <1>2 DEF Honest, Objects
<1>4. /\ wire' \in Seq(Legit) /\ stream' \in [Kinds -> Seq(News)]
      /\ \A k \in Kinds : stream'[k] \in Seq(LegitOf(k))
      /\ closeC' \in [Kinds -> Seq(Accounts)]
      /\ \A k \in Kinds : closeC'[k] \in Seq(Gone)
      /\ snapshot' \in [Accounts -> Nat]
      /\ \A a \in Accounts : snapshot'[a] > 0 => chain[a] # 0
  BY <1>1, <1>2, MessagesKept
<1>5. Honest'
  BY <1>1, <1>2, <1>3, <1>4, StillHonest
<1>6. OwnersOpen'
  BY <1>1, <1>2 DEF OwnersOpen, Open
<1>7. Told'
  <2> SUFFICES ASSUME NEW p \in LinkPairs, p[1] \in known'
               PROVE  /\ p[2] \in known' => <<p[2], p[1]>> \in links'
                      /\ p[2] \notin known' => <<p[2], p[1]>> \in waiting'
    BY DEF Told
  <2>1. /\ p \in Refers /\ p = <<p[1], p[2]>>
        /\ p[1] \in Accounts /\ p[2] \in Accounts
        /\ \/ Kind[p[1]] = "receipt" /\ Kind[p[2]] \in {"payout", "validator"}
           \/ Kind[p[1]] = "payout" /\ Kind[p[2]] = "pipeline"
    BY Ends
  <2> DEFINE q == <<p[2], p[1]>>
  <2>2. /\ q \in Accounts \X Accounts /\ q[1] = p[2] /\ q[2] = p[1]
    BY <2>1
  <2>3. q[2] \in Snapped(Kind[p[1]]) /\ q[1] \in Names(q[2], Kind[p[2]])
    BY <1>3, <2>1, <2>2 DEF Snapped, OfKind, Names, Referred
  <2>4. q \in SnappedPairs(Kind[p[1]], Kind[p[2]])
    BY <2>2, <2>3 DEF SnappedPairs
  <2>5. q \in SnappedPairs("receipt", "payout")
               \cup SnappedPairs("receipt", "validator")
               \cup SnappedPairs("payout", "pipeline")
    BY <2>1, <2>4
  <2>6. QED
    BY <1>2, <2>2, <2>5
<1>8. QED
  BY <1>5, <1>6, <1>7 DEF RInv

\* The update a handler takes is true of the chain, and its account is of
\* the handler's type.
LEMMA ReceivesEffect ==
  ASSUME Honest, NEW k \in Kinds, Receives(k)
  PROVE  /\ Head(stream[k]) \in LegitOf(k)
         /\ UNCHANGED <<chain, wire, snapshot>>
         /\ stream' \in [Kinds -> Seq(News)]
         /\ \A j \in Kinds : stream'[j] \in Seq(LegitOf(j))
<1> DEFINE q == stream[k]
           S == LegitOf(k)
<1>1. /\ stream \in [Kinds -> Seq(News)] /\ q \in Seq(S) /\ q \in Seq(News)
      /\ q # <<>> /\ \A j \in Kinds : stream[j] \in Seq(LegitOf(j))
  BY DEF Honest, Receives
<1>2. stream' = [stream EXCEPT ![k] = Tail(q)] /\ UNCHANGED <<chain, wire, snapshot>>
  BY DEF Receives
<1> HIDE DEF q, S
<1>3. Head(q) \in S /\ Tail(q) \in Seq(S) /\ Tail(q) \in Seq(News)
  BY <1>1, TailTyped
<1>4. Head(stream[k]) \in LegitOf(k) /\ Tail(q) \in Seq(LegitOf(k))
  BY <1>3 DEF q, S
<1>5. QED
  BY <1>1, <1>2, <1>3, <1>4

\* A handler adds at most the account of its update and its loopDelete.
LEMMA HandlerHonest ==
  ASSUME Honest, NEW k \in Kinds, Receives(k), UNCHANGED closeC,
         NEW a, a = Head(stream[k]).id,
         \A b \in known' : b \in known \/ b = a,
         \A w \in watch' : w \in watch \/ (w[1] = a /\ w[3] # "zero")
  PROVE  Honest'
<1>1. /\ Head(stream[k]) \in LegitOf(k) /\ UNCHANGED <<chain, wire, snapshot>>
      /\ stream' \in [Kinds -> Seq(News)]
      /\ \A j \in Kinds : stream'[j] \in Seq(LegitOf(j))
  BY ReceivesEffect
<1>2. a \in Accounts /\ chain[a] # 0
  BY <1>1 DEF LegitOf, Legit, News
<1>3. /\ wire' \in Seq(Legit)
      /\ closeC' \in [Kinds -> Seq(Accounts)]
      /\ \A j \in Kinds : closeC'[j] \in Seq(Gone)
      /\ snapshot' \in [Accounts -> Nat]
      /\ \A b \in Accounts : snapshot'[b] > 0 => chain[b] # 0
  BY <1>1, MessagesKept
<1>4. known' \subseteq Accounts /\ (\A b \in known' : b \in known \/ chain[b] # 0)
  BY <1>2 DEF Honest
<1>5. \A w \in watch' : w \in watch
          \/ (w[1] \in Accounts /\ (w[3] = "zero" => w[1] \in Gone))
  BY <1>2
<1>6. QED
  BY <1>1, <1>3, <1>4, <1>5, StillHonest

\* An account that is closed for good is dropped.
LEMMA ToldWithout ==
  ASSUME OwnersOpen, Told, UNCHANGED chain, NEW a \in Gone,
         known' = known \ {a} \/ known' = known,
         \A p \in links : a \notin {p[1], p[2]} => p \in links',
         \A p \in waiting : p[1] # a => p \in waiting'
  PROVE  OwnersOpen' /\ Told'
<1>1. OwnersOpen'
  BY DEF OwnersOpen, Open
<1>2. ASSUME NEW p \in LinkPairs, p[1] \in known', Open(p[1])'
      PROVE  /\ p[2] \in known' => <<p[2], p[1]>> \in links'
             /\ p[2] \notin known' => <<p[2], p[1]>> \in waiting'
  <2>1. p \in Refers /\ p[1] \in known /\ Open(p[1])
    BY <1>2, Ends DEF Open
  <2>2. Open(p[2])
    BY <2>1 DEF OwnersOpen
  <2>3. ~Open(a)
    BY DEF Gone, Open, Closed
  <2>4. p[1] # a /\ p[2] # a
    BY <2>1, <2>2, <2>3
  <2>5. p[2] \in known' <=> p[2] \in known
    BY <2>4
  <2>6. /\ p[2] \in known => <<p[2], p[1]>> \in links
        /\ p[2] \notin known => <<p[2], p[1]>> \in waiting
    BY <2>1 DEF Told
  <2>7. QED
    BY <2>4, <2>5, <2>6
<1>3. QED
  BY <1>1, <1>2 DEF Told

\* An account is created or updated: if it is new, its owners are told or it
\* waits for them, and those that wait for it are handed over.
LEMMA ToldWith ==
  ASSUME OwnersOpen, Told, UNCHANGED chain, NEW a,
         known' = known \cup {a}, links \subseteq links',
         \A p \in LinkPairs : p[1] = a /\ a \notin known =>
            /\ p[2] \in known => <<p[2], a>> \in links'
            /\ p[2] \notin known => <<p[2], a>> \in waiting',
         \A p \in LinkPairs : p[2] = a /\ <<a, p[1]>> \in waiting =>
            <<a, p[1]>> \in links',
         \A p \in LinkPairs : p[2] # a /\ <<p[2], p[1]>> \in waiting =>
            <<p[2], p[1]>> \in waiting'
  PROVE  OwnersOpen' /\ Told'
<1>1. OwnersOpen'
  BY DEF OwnersOpen, Open
<1>2. ASSUME NEW p \in LinkPairs, p[1] \in known', Open(p[1])'
      PROVE  /\ p[2] \in known' => <<p[2], p[1]>> \in links'
             /\ p[2] \notin known' => <<p[2], p[1]>> \in waiting'
  <2>1. Open(p[1]) /\ p[1] # p[2]
    BY <1>2, Ends DEF Open
  <2>2. CASE p[1] \in known
    <3>1. /\ p[2] \in known => <<p[2], p[1]>> \in links
          /\ p[2] \notin known => <<p[2], p[1]>> \in waiting
      BY <2>1, <2>2 DEF Told
    <3>2. QED
      BY <3>1
  <2>3. CASE p[1] \notin known
    <3>1. p[1] = a /\ p[2] # a
      BY <1>2, <2>1, <2>3
    <3>2. QED
      BY <2>3, <3>1
  <2>4. QED
    BY <2>2, <2>3
<1>3. QED
  BY <1>1, <1>2 DEF Told

\* The branch !IsOpen.
LEMMA ClosedHandler ==
  ASSUME RInv, NEW k \in Kinds, Receives(k), UNCHANGED closeC,
         Head(stream[k]).ver = Closed, OnClosed(Head(stream[k]).id)
  PROVE  RInv'
<1>1. Honest /\ OwnersOpen /\ Told
  BY DEF RInv
<1>2. PICK a : a = Head(stream[k]).id
  OBVIOUS
<1>3. Head(stream[k]) \in LegitOf(k) /\ UNCHANGED chain
  BY <1>1, ReceivesEffect
<1>4. a \in Gone
  BY <1>2, <1>3 DEF LegitOf, Legit, News, Gone
<1>5. /\ known' = known \ {a} \/ known' = known
      /\ \A p \in links : a \notin {p[1], p[2]} => p \in links'
      /\ \A p \in waiting : p[1] # a => p \in waiting'
      /\ UNCHANGED watch
  BY <1>2 DEF OnClosed, Drops, WaitingFor
<1>6. Honest'
  <2>1. /\ \A b \in known' : b \in known \/ b = a
        /\ \A w \in watch' : w \in watch \/ (w[1] = a /\ w[3] # "zero")
    BY <1>5
  <2>2. QED
    BY <1>1, <1>2, <2>1, HandlerHonest
<1>7. QED
  BY <1>1, <1>3, <1>4, <1>5, <1>6, ToldWithout DEF RInv

\* The known accounts and the watchers after a branch IsOpen.
LEMMA CreatedOrNot ==
  ASSUME NEW a, IF a \notin known THEN Creates(a) ELSE UNCHANGED <<known, made, watch>>
  PROVE  /\ known' = known \cup {a}
         /\ \A w \in watch' : w \in watch \/ (w[1] = a /\ w[3] # "zero")
  BY DEF Creates

\* A branch IsOpen keeps the invariant if it tells owners and hands over.
LEMMA OpenHandler ==
  ASSUME RInv, NEW k \in Kinds, Receives(k), UNCHANGED closeC,
         NEW a, a = Head(stream[k]).id,
         IF a \notin known THEN Creates(a) ELSE UNCHANGED <<known, made, watch>>,
         links \subseteq links',
         \A p \in LinkPairs : p[1] = a /\ a \notin known =>
            /\ p[2] \in known => <<p[2], a>> \in links'
            /\ p[2] \notin known => <<p[2], a>> \in waiting',
         \A p \in LinkPairs : p[2] = a /\ <<a, p[1]>> \in waiting =>
            <<a, p[1]>> \in links',
         \A p \in LinkPairs : p[2] # a /\ <<p[2], p[1]>> \in waiting =>
            <<p[2], p[1]>> \in waiting'
  PROVE  RInv'
<1>1. Honest /\ OwnersOpen /\ Told
  BY DEF RInv
<1>2. UNCHANGED chain
  BY DEF Receives
<1>3. /\ known' = known \cup {a}
      /\ \A w \in watch' : w \in watch \/ (w[1] = a /\ w[3] # "zero")
  BY CreatedOrNot
<1>4. \A b \in known' : b \in known \/ b = a
  BY <1>3
<1>5. Honest'
  BY <1>1, <1>3, <1>4, HandlerHonest
<1>6. OwnersOpen' /\ Told'
  BY <1>1, <1>2, <1>3, ToldWith
<1>7. QED
  BY <1>5, <1>6 DEF RInv

\* The account of the update a handler takes.
LEMMA HandledKind ==
  ASSUME RInv, NEW k \in Kinds, Receives(k)
  PROVE  Head(stream[k]).id \in Accounts /\ Kind[Head(stream[k]).id] = k
  BY ReceivesEffect DEF RInv, LegitOf, Legit, News

\* on_payout.
LEMMA PayoutStep == ASSUME RInv, on_payout PROVE RInv'
<1>1. PICK u : u = Head(stream["payout"])
  OBVIOUS
<1>2. /\ "payout" \in Kinds /\ Receives("payout") /\ UNCHANGED closeC
      /\ IF u.ver = Closed THEN OnClosed(u.id) ELSE OnPayoutOpen(u)
  BY <1>1 DEF on_payout, Kinds
<1>3. CASE u.ver = Closed
  BY <1>1, <1>2, <1>3, ClosedHandler
<1>4. CASE u.ver # Closed
  <2>1. PICK a : a = u.id
    OBVIOUS
  <2>2. Kind[a] = "payout"
    BY <1>1, <1>2, <2>1, HandledKind
  <2>3. /\ IF a \notin known THEN Creates(a) ELSE UNCHANGED <<known, made, watch>>
        /\ links' = links \cup WaitingFor(a, "receipt")
                          \cup TellOwners(a, Names(a, "pipeline"))
        /\ waiting' = waiting \cup WaitOwners(a, Names(a, "pipeline"))
    BY <1>2, <1>4, <2>1 DEF OnPayoutOpen
  <2>4. ASSUME NEW p \in LinkPairs, p[1] = a
        PROVE  /\ p[2] \in known => <<p[2], a>> \in links'
               /\ p[2] \notin known => <<p[2], a>> \in waiting'
    <3>1. p[2] \in Names(a, "pipeline")
      BY <2>2, <2>4, Ends DEF Names, Referred
    <3>2. QED
      BY <2>3, <3>1 DEF TellOwners, WaitOwners
  <2>5. ASSUME NEW p \in LinkPairs, p[2] = a, <<a, p[1]>> \in waiting
        PROVE  <<a, p[1]>> \in links'
    <3>1. Kind[p[1]] = "receipt"
      BY <2>2, <2>5, Ends
    <3>2. <<a, p[1]>> \in WaitingFor(a, "receipt")
      BY <2>5, <3>1 DEF WaitingFor
    <3>3. QED
      BY <2>3, <3>2
  <2>6. links \subseteq links' /\ waiting \subseteq waiting'
    BY <2>3
  <2>7. QED
    BY <1>1, <1>2, <2>1, <2>3, <2>4, <2>5, <2>6, OpenHandler
<1>5. QED
  BY <1>3, <1>4

\* on_pipeline.
LEMMA PipelineStep == ASSUME RInv, on_pipeline PROVE RInv'
<1>1. PICK u : u = Head(stream["pipeline"])
  OBVIOUS
<1>2. /\ "pipeline" \in Kinds /\ Receives("pipeline") /\ UNCHANGED closeC
      /\ IF u.ver = Closed THEN OnClosed(u.id) ELSE OnPipelineOpen(u)
  BY <1>1 DEF on_pipeline, Kinds
<1>3. CASE u.ver = Closed
  BY <1>1, <1>2, <1>3, ClosedHandler
<1>4. CASE u.ver # Closed
  <2>1. PICK a : a = u.id
    OBVIOUS
  <2>2. Kind[a] = "pipeline"
    BY <1>1, <1>2, <2>1, HandledKind
  <2>3. /\ IF a \notin known THEN Creates(a) ELSE UNCHANGED <<known, made, watch>>
        /\ links' = links \cup WaitingFor(a, "payout")
        /\ waiting' = waiting \ WaitingFor(a, "payout")
    BY <1>2, <1>4, <2>1 DEF OnPipelineOpen
  <2>4. \A p \in LinkPairs : p[1] # a
    BY <2>2, Ends
  <2>5. ASSUME NEW p \in LinkPairs, p[2] = a, <<a, p[1]>> \in waiting
        PROVE  <<a, p[1]>> \in links'
    <3>1. Kind[p[1]] = "payout"
      BY <2>2, <2>5, Ends
    <3>2. <<a, p[1]>> \in WaitingFor(a, "payout")
      BY <2>5, <3>1 DEF WaitingFor
    <3>3. QED
      BY <2>3, <3>2
  <2>6. ASSUME NEW p \in LinkPairs, p[2] # a, <<p[2], p[1]>> \in waiting
        PROVE  <<p[2], p[1]>> \in waiting'
    BY <2>3, <2>6 DEF WaitingFor
  <2>7. links \subseteq links'
    BY <2>3
  <2>8. QED
    BY <1>1, <1>2, <2>1, <2>3, <2>4, <2>5, <2>6, <2>7, OpenHandler
<1>5. QED
  BY <1>3, <1>4

\* on_receipt.
LEMMA ReceiptStep == ASSUME RInv, on_receipt PROVE RInv'
<1>1. PICK u : u = Head(stream["receipt"])
  OBVIOUS
<1>2. /\ "receipt" \in Kinds /\ Receives("receipt") /\ UNCHANGED closeC
      /\ IF u.ver = Closed THEN OnClosed(u.id) ELSE OnReceiptOpen(u)
  BY <1>1 DEF on_receipt, Kinds
<1>3. CASE u.ver = Closed
  BY <1>1, <1>2, <1>3, ClosedHandler
<1>4. CASE u.ver # Closed
  <2>1. PICK a : a = u.id
    OBVIOUS
  <2>2. Kind[a] = "receipt"
    BY <1>1, <1>2, <2>1, HandledKind
  <2> DEFINE owners == Names(a, "payout") \cup Names(a, "validator")
  <2>3. /\ IF a \notin known THEN Creates(a) ELSE UNCHANGED <<known, made, watch>>
        /\ links' = links \cup WaitingFor(a, "stakerReceipt")
                          \cup (IF a \notin known THEN TellOwners(a, owners) ELSE {})
        /\ waiting' = (waiting \ WaitingFor(a, "stakerReceipt"))
                          \cup (IF a \notin known THEN WaitOwners(a, owners) ELSE {})
    BY <1>2, <1>4, <2>1 DEF OnReceiptOpen
  <2>4. ASSUME NEW p \in LinkPairs, p[1] = a, a \notin known
        PROVE  /\ p[2] \in known => <<p[2], a>> \in links'
               /\ p[2] \notin known => <<p[2], a>> \in waiting'
    <3>1. p[2] \in owners
      BY <2>2, <2>4, Ends DEF Names, Referred
    <3> HIDE DEF owners
    <3>2. QED
      BY <2>3, <2>4, <3>1 DEF TellOwners, WaitOwners
  <2> HIDE DEF owners
  <2>5. \A p \in LinkPairs : p[2] # a
    BY <2>2, Ends
  <2>6. ASSUME NEW p \in LinkPairs, <<p[2], p[1]>> \in waiting
        PROVE  <<p[2], p[1]>> \in waiting'
    BY <2>3, <2>5, <2>6 DEF WaitingFor
  <2>7. links \subseteq links'
    BY <2>3
  <2>8. QED
    BY <1>1, <1>2, <2>1, <2>3, <2>4, <2>5, <2>6, <2>7, OpenHandler
<1>5. QED
  BY <1>3, <1>4

\* on_validator.
LEMMA ValidatorStep == ASSUME RInv, on_validator PROVE RInv'
<1>1. PICK u : u = Head(stream["validator"])
  OBVIOUS
<1>2. /\ "validator" \in Kinds /\ Receives("validator") /\ UNCHANGED closeC
      /\ IF u.ver = Closed THEN OnClosed(u.id) ELSE \E ring : OnValidatorOpen(u, ring)
  BY <1>1 DEF on_validator, Kinds
<1>3. CASE u.ver = Closed
  BY <1>1, <1>2, <1>3, ClosedHandler
<1>4. CASE u.ver # Closed
  <2>1. PICK a : a = u.id
    OBVIOUS
  <2>2. Kind[a] = "validator"
    BY <1>1, <1>2, <2>1, HandledKind
  <2>3. PICK ring : OnValidatorOpen(u, ring)
    BY <1>2, <1>4
  <2>4. /\ IF a \notin known THEN Creates(a) ELSE UNCHANGED <<known, made, watch>>
        /\ links \cup WaitingFor(a, "receipt") \subseteq links'
        /\ waiting' = waiting \ WaitingFor(a, "receipt")
    BY <2>1, <2>3 DEF OnValidatorOpen
  <2>5. \A p \in LinkPairs : p[1] # a
    BY <2>2, Ends
  <2>6. ASSUME NEW p \in LinkPairs, p[2] = a, <<a, p[1]>> \in waiting
        PROVE  <<a, p[1]>> \in links'
    <3>1. Kind[p[1]] = "receipt"
      BY <2>2, <2>6, Ends
    <3>2. <<a, p[1]>> \in WaitingFor(a, "receipt")
      BY <2>6, <3>1 DEF WaitingFor
    <3>3. QED
      BY <2>4, <3>2
  <2>7. ASSUME NEW p \in LinkPairs, p[2] # a, <<p[2], p[1]>> \in waiting
        PROVE  <<p[2], p[1]>> \in waiting'
    BY <2>4, <2>7 DEF WaitingFor
  <2>8. links \subseteq links'
    BY <2>4
  <2>9. QED
    BY <1>1, <1>2, <2>1, <2>4, <2>5, <2>6, <2>7, <2>8, OpenHandler
<1>5. QED
  BY <1>3, <1>4

\* on_stake.
LEMMA StakeStep == ASSUME RInv, on_stake PROVE RInv'
<1>1. PICK u : u = Head(stream["staker"])
  OBVIOUS
<1>2. /\ "staker" \in Kinds /\ Receives("staker") /\ UNCHANGED closeC
      /\ IF u.ver = Closed THEN OnClosed(u.id) ELSE OnStakeOpen(u)
  BY <1>1 DEF on_stake, Kinds
<1>3. CASE u.ver = Closed
  BY <1>1, <1>2, <1>3, ClosedHandler
<1>4. CASE u.ver # Closed
  <2>1. PICK a : a = u.id
    OBVIOUS
  <2>2. Kind[a] = "staker"
    BY <1>1, <1>2, <2>1, HandledKind
  <2> DEFINE mine == IF a \notin known
                     THEN {p[2] : p \in WaitingFor(a, "stakerReceipt")} ELSE {}
  <2>3. /\ IF a \notin known THEN Creates(a) ELSE UNCHANGED <<known, made, watch>>
        /\ links \subseteq links'
        /\ waiting \ {<<a, sr>> : sr \in mine} \subseteq waiting'
    <3>1. /\ IF a \notin known THEN Creates(a) ELSE UNCHANGED <<known, made, watch>>
          /\ links' = links \cup {<<a, sr>> : sr \in mine}
                            \cup UNION {Extra(sr).links : sr \in mine}
          /\ waiting' = (waiting \ {<<a, sr>> : sr \in mine})
                            \cup UNION {Extra(sr).waiting : sr \in mine}
      BY <1>2, <1>4, <2>1 DEF OnStakeOpen
    <3> DEFINE A == {<<a, sr>> : sr \in mine}
               B == UNION {Extra(sr).links : sr \in mine}
               C == UNION {Extra(sr).waiting : sr \in mine}
    <3>2. links' = links \cup A \cup B /\ waiting' = (waiting \ A) \cup C
      BY <3>1
    <3> HIDE DEF A, B, C
    <3>3. links \subseteq links' /\ waiting \ A \subseteq waiting'
      BY <3>2
    <3>4. QED
      BY <3>1, <3>3 DEF A
  <2> HIDE DEF mine
  <2>4. \A p \in LinkPairs : p[1] # a /\ p[2] # a
    BY <2>2, Ends
  <2>5. ASSUME NEW p \in LinkPairs, <<p[2], p[1]>> \in waiting
        PROVE  <<p[2], p[1]>> \in waiting'
    BY <2>3, <2>4, <2>5
  <2>6. QED
    BY <1>1, <1>2, <2>1, <2>3, <2>4, <2>5, OpenHandler
<1>5. QED
  BY <1>3, <1>4

\* The handlers that know no more and no fewer objects afterwards.
LEMMA QuietSteps ==
  ASSUME RInv, on_stake_receipt \/ on_bid \/ on_period \/ on_refund PROVE RInv'
<1>1. Honest /\ OwnersOpen /\ Told
  BY DEF RInv
<1>2. /\ UNCHANGED <<known, watch, closeC>>
      /\ links \subseteq links' /\ waiting \subseteq waiting'
      /\ \E k \in Kinds : Receives(k)
  <2>1. CASE on_stake_receipt
    <3>1. "stakerReceipt" \in Kinds /\ Receives("stakerReceipt")
          /\ UNCHANGED <<known, watch, closeC>>
      BY <2>1 DEF on_stake_receipt, Kinds
    <3>2. links \subseteq links' /\ waiting \subseteq waiting'
      BY <2>1 DEF on_stake_receipt
    <3>3. QED
      BY <3>1, <3>2
  <2>2. CASE on_bid
    BY <2>2 DEF on_bid, Kinds
  <2>3. CASE on_period
    BY <2>3 DEF on_period, Kinds
  <2>4. CASE on_refund
    BY <2>4 DEF on_refund, Kinds, routerVars
  <2>5. QED
    BY <2>1, <2>2, <2>3, <2>4
<1>3. PICK k \in Kinds : Receives(k)
  BY <1>2
<1>4. UNCHANGED chain
  BY <1>3 DEF Receives
<1>5. Honest'
  <2>1. PICK a : a = Head(stream[k]).id
    OBVIOUS
  <2>2. /\ \A b \in known' : b \in known \/ b = a
        /\ \A w \in watch' : w \in watch \/ (w[1] = a /\ w[3] # "zero")
    BY <1>2
  <2>3. QED
    BY <1>1, <1>2, <1>3, <2>1, <2>2, HandlerHonest
<1>6. OwnersOpen' /\ Told'
  BY <1>1, <1>2, <1>4 DEF OwnersOpen, Told, Open
<1>7. QED
  BY <1>5, <1>6 DEF RInv

\* The close cases of the select.
LEMMA CloseStep == ASSUME RInv, NEW k \in Kinds, ReceiveClose(k) PROVE RInv'
<1>1. Honest /\ OwnersOpen /\ Told
  BY DEF RInv
<1>2. /\ closeC[k] # <<>> /\ OnCloseC(Head(closeC[k]))
      /\ closeC' = [closeC EXCEPT ![k] = Tail(@)]
      /\ UNCHANGED <<chain, wire, snapshot, stream, watch>>
  BY DEF ReceiveClose, feedVars
<1>3. /\ Head(closeC[k]) \in Gone /\ closeC' \in [Kinds -> Seq(Accounts)]
      /\ \A j \in Kinds : closeC'[j] \in Seq(Gone)
  <2> DEFINE q == closeC[k]
             S == Gone
  <2>1. /\ closeC \in [Kinds -> Seq(Accounts)] /\ q \in Seq(S)
        /\ q \in Seq(Accounts) /\ q # <<>>
        /\ \A j \in Kinds : closeC[j] \in Seq(S)
    BY <1>1, <1>2 DEF Honest
  <2>2. closeC' = [closeC EXCEPT ![k] = Tail(q)]
    BY <1>2
  <2> HIDE DEF q, S
  <2>3. Head(q) \in S /\ Tail(q) \in Seq(S) /\ Tail(q) \in Seq(Accounts)
    BY <2>1, TailTyped
  <2>4. /\ closeC' \in [Kinds -> Seq(Accounts)]
        /\ \A j \in Kinds : closeC'[j] \in Seq(S)
    BY <2>1, <2>2, <2>3
  <2>5. QED
    BY <2>3, <2>4 DEF q, S
<1>4. PICK a \in Gone : a = Head(closeC[k])
  BY <1>3
<1>5. /\ known' = known \ {a} \/ known' = known
      /\ \A p \in links : a \notin {p[1], p[2]} => p \in links'
  BY <1>2, <1>4 DEF OnCloseC, Drops
<1>6. \A p \in waiting : p[1] # a => p \in waiting'
  BY <1>2, <1>4 DEF OnCloseC, WaitingFor
<1>7. Honest'
  <2>1. /\ wire' \in Seq(Legit) /\ stream' \in [Kinds -> Seq(News)]
        /\ \A j \in Kinds : stream'[j] \in Seq(LegitOf(j))
        /\ snapshot' \in [Accounts -> Nat]
        /\ \A b \in Accounts : snapshot'[b] > 0 => chain[b] # 0
        /\ \A w \in watch' : w \in watch
    BY <1>1, <1>2, MessagesKept
  <2>2. known' \subseteq Accounts /\ (\A b \in known' : b \in known)
    BY <1>1, <1>5 DEF Honest
  <2>3. QED
    BY <1>1, <1>2, <1>3, <2>1, <2>2, StillHonest
<1>8. QED
  BY <1>1, <1>2, <1>5, <1>6, <1>7, ToldWithout DEF RInv

\* loopDelete.
LEMMA WatchSteps == ASSUME RInv, Watchers PROVE RInv'
<1>1. Honest /\ OwnersOpen /\ Told
  BY DEF RInv
<1>2. PICK v \in watch : \/ WatchStart(v[1], v[2]) \/ WatchZero(v[1], v[2])
                         \/ WatchSend(v[1], v[2]) \/ WatchQuit(v[1], v[2], v[3])
  BY DEF Watchers
<1>3. PICK a, n : a = v[1] /\ n = v[2] /\ a \in Accounts
  BY <1>1 DEF Honest
<1>4. /\ UNCHANGED <<chain, wire, snapshot, stream, known, links, waiting>>
  BY <1>2 DEF WatchStart, WatchZero, WatchSend, WatchQuit, feedVars
<1>5. \A w \in watch' : w \in watch
          \/ (w[1] \in Accounts /\ (w[3] = "zero" => w[1] \in Gone))
  <2>1. CASE WatchStart(a, n)
    BY <1>3, <2>1 DEF WatchStart
  <2>2. CASE WatchZero(a, n)
    BY <1>3, <2>2 DEF WatchZero, Gone
  <2>3. CASE WatchSend(a, n) \/ WatchQuit(a, n, v[3])
    BY <2>3 DEF WatchSend, WatchQuit
  <2>4. QED
    BY <1>2, <1>3, <2>1, <2>2, <2>3
<1>6. /\ closeC' \in [Kinds -> Seq(Accounts)]
      /\ \A j \in Kinds : closeC'[j] \in Seq(Gone)
  <2>1. CASE WatchSend(a, n)
    <3>1. <<a, n, "zero">> \in watch /\ closeC' = [closeC EXCEPT ![Kind[a]] = <<a>>]
      BY <2>1 DEF WatchSend
    <3>2. a \in Gone
      BY <1>1, <3>1 DEF Honest
    <3>3. <<a>> \in Seq(Gone) /\ <<a>> \in Seq(Accounts)
      BY <1>3, <3>2
    <3>4. Kind[a] \in Kinds
      BY <1>3, FeedAssumption
    <3>5. QED
      BY <1>1, <3>1, <3>3, <3>4 DEF Honest
  <2>2. CASE ~WatchSend(a, n)
    <3>1. UNCHANGED closeC
      BY <1>2, <1>3, <2>2 DEF WatchStart, WatchZero, WatchQuit
    <3>2. QED
      BY <1>1, <3>1, MessagesKept
  <2>3. QED
    BY <2>1, <2>2
<1>7. /\ wire' \in Seq(Legit) /\ stream' \in [Kinds -> Seq(News)]
      /\ \A j \in Kinds : stream'[j] \in Seq(LegitOf(j))
      /\ snapshot' \in [Accounts -> Nat]
      /\ \A b \in Accounts : snapshot'[b] > 0 => chain[b] # 0
      /\ known' \subseteq Accounts /\ (\A b \in known' : b \in known)
  BY <1>1, <1>4, MessagesKept
<1>8. Honest'
  BY <1>1, <1>4, <1>5, <1>6, <1>7, StillHonest
<1>9. QED
  BY <1>1, <1>4, <1>8, StillTold DEF RInv

-----------------------------------------------------------------------------
(* The theorem.                                                            *)

LEMMA InitRInv == Init => RInv
<1> SUFFICES ASSUME Init PROVE RInv
  OBVIOUS
<1>1. /\ wire = <<>> /\ snapshot = [a \in Accounts |-> 0]
      /\ stream = [k \in Kinds |-> <<>>] /\ known = {} /\ watch = {}
      /\ closeC = [k \in Kinds |-> <<>>]
  BY DEF Init, FeedInit
<1>2. PICK S \in Chain0 : chain = [a \in Accounts |-> IF a \in S THEN 1 ELSE 0]
  BY DEF Init, FeedInit
<1>3. Honest
  <2>1. chain \in [Accounts -> {Closed} \cup Nat]
    BY <1>2
  <2>2. /\ wire \in Seq(Legit) /\ stream \in [Kinds -> Seq(News)]
        /\ \A k \in Kinds : stream[k] \in Seq(LegitOf(k))
        /\ closeC \in [Kinds -> Seq(Accounts)]
        /\ \A k \in Kinds : closeC[k] \in Seq(Gone)
    BY <1>1, EmptySeq
  <2>3. QED
    BY <1>1, <2>1, <2>2 DEF Honest
<1>4. OwnersOpen
  <2> SUFFICES ASSUME NEW p \in Refers, Open(p[1]) PROVE Open(p[2])
    BY DEF OwnersOpen
  <2>1. p[1] \in Accounts /\ p[2] \in Accounts
    BY FeedAssumption
  <2>2. p[1] \in S
    BY <1>2, <2>1 DEF Open
  <2>3. p[2] \in S
    BY <2>2, FeedAssumption
  <2>4. QED
    BY <1>2, <2>1, <2>3 DEF Open
<1>5. Told
  BY <1>1 DEF Told
<1>6. QED
  BY <1>3, <1>4, <1>5 DEF RInv

LEMMA NextRInv == RInv /\ [Next]_vars => RInv'
<1> SUFFICES ASSUME RInv, [Next]_vars PROVE RInv'
  OBVIOUS
<1>1. CASE FeedNext /\ UNCHANGED routerVars
  <2>1. CASE \E a \in Accounts : ChainCreate(a) \/ ChainUpdate(a) \/ ChainClose(a)
    BY <1>1, <2>1, ChainStep
  <2>2. CASE FetchProgramAll \/ FetchFails \/ Subscribe \/ FeedError
    BY <1>1, <2>2, BootSteps
  <2>3. CASE FeedStep
    BY <1>1, <2>3, FeedStepStep
  <2>4. QED
    BY <1>1, <2>1, <2>2, <2>3 DEF FeedNext
<1>2. CASE init
  BY <1>2, InitStep
<1>3. CASE Loop
  <2>1. CASE on_payout
    BY <2>1, PayoutStep
  <2>2. CASE on_pipeline
    BY <2>2, PipelineStep
  <2>3. CASE on_receipt
    BY <2>3, ReceiptStep
  <2>4. CASE on_validator
    BY <2>4, ValidatorStep
  <2>5. CASE on_stake
    BY <2>5, StakeStep
  <2>6. CASE on_stake_receipt \/ on_bid \/ on_period \/ on_refund
    BY <2>6, QuietSteps
  <2>7. CASE \E k \in Kinds : ReceiveClose(k)
    BY <2>7, CloseStep
  <2>8. CASE RouterEnds
    <3>1. UNCHANGED <<chain, wire, snapshot, stream, known, links, waiting, watch,
                      closeC>>
      BY <2>8 DEF RouterEnds, feedVars
    <3>2. QED
      BY <3>1 DEF RInv, Honest, OwnersOpen, Told, Open, Legit, LegitOf, Gone
  <2>9. QED
    BY <1>3, <2>1, <2>2, <2>3, <2>4, <2>5, <2>6, <2>7, <2>8 DEF Loop
<1>4. CASE Watchers
  BY <1>4, WatchSteps
<1>5. CASE UNCHANGED vars
  <2>1. UNCHANGED <<chain, wire, snapshot, stream, known, links, waiting, watch,
                    closeC>>
    BY <1>5 DEF vars, feedVars, routerVars
  <2>2. QED
    BY <2>1 DEF RInv, Honest, OwnersOpen, Told, Open, Legit, LegitOf, Gone
<1>6. QED
  BY <1>1, <1>2, <1>3, <1>4, <1>5 DEF Next

\* The invariant holds in every state of the feed and the router.
THEOREM Invariance == Spec => []RInv
  BY InitRInv, NextRInv, PTL DEF Spec

\* However the nine streams and the two sources of closings overtake each
\* other, and whatever the snapshot held, the router has told every payout
\* and validator it knows of its open receipts, and every pipeline of its
\* open payouts.
THEOREM LinksAreComplete == Spec => []LinksComplete
<1>1. RInv => LinksComplete
  BY DEF RInv, Told, LinksComplete, LinkPairs
<1>2. QED
  BY <1>1, Invariance, PTL

-----------------------------------------------------------------------------
(* Convergence.  The messages about an account pass the wire and a stream  *)
(* in order, so the last one that is under way tells the truth (WireLatest,*)
(* StreamLatest); when none is under way any more, what the router holds is *)
(* what the last one said (Settled), unless the feed was silent about a    *)
(* closing (Muted), and then the object's loopDelete tells (Watched) if it *)
(* still can.                                                              *)

\* The messages of s about a, and what the last of them says.
About(s, a) == \E i \in DOMAIN s : s[i].id = a
LastIs(s, a, v) ==
    \E i \in DOMAIN s : /\ s[i].id = a /\ s[i].ver = v
                        /\ \A j \in DOMAIN s : j > i => s[j].id # a

LEMMA AboutAppend ==
  ASSUME NEW s \in Seq(News), NEW u \in News, NEW t, t = Append(s, u)
  PROVE  /\ \A a : About(t, a) <=> About(s, a) \/ u.id = a
         /\ LastIs(t, u.id, u.ver)
         /\ \A a, v : u.id # a /\ LastIs(s, a, v) => LastIs(t, a, v)
<1>1. PICK n : n = Len(s)
  OBVIOUS
<1>2. /\ n \in Nat /\ DOMAIN s = 1 .. n /\ DOMAIN t = 1 .. n + 1
      /\ \A i \in 1 .. n : t[i] = s[i]
      /\ t[n + 1] = u
  BY <1>1, AppendTyped, LenProperties
<1>3. \A a : About(t, a) <=> About(s, a) \/ u.id = a
  BY <1>2 DEF About
<1>4. LastIs(t, u.id, u.ver)
  <2>1. n + 1 \in DOMAIN t /\ t[n + 1].id = u.id /\ t[n + 1].ver = u.ver
    BY <1>2
  <2>2. \A j \in DOMAIN t : ~(j > n + 1)
    BY <1>2
  <2>3. QED
    BY <2>1, <2>2 DEF LastIs
<1>5. ASSUME NEW a, NEW v, u.id # a, LastIs(s, a, v) PROVE LastIs(t, a, v)
  <2>1. PICK i \in 1 .. n : /\ s[i].id = a /\ s[i].ver = v
                            /\ \A j \in 1 .. n : j > i => s[j].id # a
    BY <1>2, <1>5 DEF LastIs
  <2>2. i \in DOMAIN t /\ t[i].id = a /\ t[i].ver = v
    BY <1>2, <2>1
  <2>3. ASSUME NEW j \in DOMAIN t, j > i PROVE t[j].id # a
    <3>1. CASE j \in 1 .. n
      BY <1>2, <2>1, <2>3, <3>1
    <3>2. CASE j = n + 1
      BY <1>2, <1>5, <3>2
    <3>3. QED
      BY <1>2, <3>1, <3>2
  <2>4. QED
    BY <2>2, <2>3 DEF LastIs
<1>6. QED
  BY <1>3, <1>4, <1>5

LEMMA AboutTail ==
  ASSUME NEW s \in Seq(News), s # <<>>, NEW t, t = Tail(s), NEW u, u = Head(s)
  PROVE  /\ \A a : About(s, a) <=> About(t, a) \/ u.id = a
         /\ \A a, v : LastIs(s, a, v) /\ About(t, a) => LastIs(t, a, v)
         /\ \A a, v : LastIs(s, a, v) /\ ~About(t, a) => u.id = a /\ u.ver = v
<1>1. PICK n : n = Len(t)
  OBVIOUS
<1>2. /\ n \in Nat /\ DOMAIN t = 1 .. n /\ DOMAIN s = 1 .. n + 1
      /\ \A i \in 1 .. n : t[i] = s[i + 1]
      /\ s[1] = u
  BY <1>1, TailTyped, LenProperties
<1>3. \A i \in 2 .. n + 1 : i - 1 \in 1 .. n /\ t[i - 1] = s[i]
  <2> TAKE i \in 2 .. n + 1
  <2>1. i - 1 \in 1 .. n /\ (i - 1) + 1 = i
    BY <1>2
  <2>2. QED
    BY <1>2, <2>1
<1>4. ASSUME NEW a PROVE About(s, a) <=> About(t, a) \/ u.id = a
  <2>1. ASSUME About(s, a) PROVE About(t, a) \/ u.id = a
    <3>1. PICK i \in 1 .. n + 1 : s[i].id = a
      BY <1>2, <2>1 DEF About
    <3>2. i = 1 \/ i \in 2 .. n + 1
      BY <1>2
    <3>3. QED
      BY <1>2, <1>3, <3>1, <3>2 DEF About
  <2>2. ASSUME About(t, a) PROVE About(s, a)
    <3>1. PICK i \in 1 .. n : t[i].id = a
      BY <1>2, <2>2 DEF About
    <3>2. i + 1 \in DOMAIN s /\ s[i + 1].id = a
      BY <1>2, <3>1
    <3>3. QED
      BY <3>2 DEF About
  <2>3. u.id = a => About(s, a)
    <3>1. 1 \in DOMAIN s /\ s[1] = u
      BY <1>2
    <3>2. QED
      BY <3>1 DEF About
  <2>4. QED
    BY <2>1, <2>2, <2>3
<1>5. ASSUME NEW a, NEW v, LastIs(s, a, v)
      PROVE  /\ About(t, a) => LastIs(t, a, v)
             /\ ~About(t, a) => u.id = a /\ u.ver = v
  <2>1. PICK i \in 1 .. n + 1 : /\ s[i].id = a /\ s[i].ver = v
                                /\ \A j \in 1 .. n + 1 : j > i => s[j].id # a
    BY <1>2, <1>5 DEF LastIs
  <2>2. CASE i = 1
    <3>1. ~About(t, a)
      <4>1. ASSUME NEW j \in 1 .. n PROVE t[j].id # a
        <5>1. j + 1 \in 1 .. n + 1 /\ j + 1 > i /\ t[j] = s[j + 1]
          BY <1>2, <2>2
        <5>2. QED
          BY <2>1, <5>1
      <4>2. QED
        BY <1>2, <4>1 DEF About
    <3>2. QED
      BY <1>2, <2>1, <2>2, <3>1
  <2>3. CASE i # 1
    <3>1. i - 1 \in 1 .. n /\ t[i - 1].id = a /\ t[i - 1].ver = v
      BY <1>2, <1>3, <2>1, <2>3
    <3>2. ASSUME NEW j \in 1 .. n, j > i - 1 PROVE t[j].id # a
      <4>1. j + 1 \in 1 .. n + 1 /\ j + 1 > i /\ t[j] = s[j + 1]
        BY <1>2, <3>1, <3>2
      <4>2. QED
        BY <2>1, <4>1
    <3>3. LastIs(t, a, v)
      BY <1>2, <3>1, <3>2 DEF LastIs
    <3>4. About(t, a)
      BY <1>2, <3>1 DEF About
    <3>5. QED
      BY <3>3, <3>4
  <2>4. QED
    BY <2>2, <2>3
<1>6. QED
  BY <1>4, <1>5

\* The message of the wire is the only place from which news of a come.
WireLatest == \A a \in Accounts : About(wire, a) => LastIs(wire, a, chain[a])

\* A closing on which the feed is mute does not get into its stream.
StreamLatest ==
    \A a \in Accounts :
        /\ ~About(wire, a) /\ Kind[a] \notin full
        /\ About(stream[Kind[a]], a) /\ (Open(a) \/ a \notin mute)
        => LastIs(stream[Kind[a]], a, chain[a])

\* The start of the router: the snapshot is true of the accounts that are not
\* in early, and the router runs with all of its subscriptions.
Booted ==
    /\ subs \in Nat
    /\ boot \in {"ready", "run"} => \A k \in Kinds : Subscribed(k)
    /\ router # "off" => boot = "run"
    /\ boot \in {"fetched", "ready"} => \A a \in Accounts \ early :
            snapshot[a] = IF Open(a) THEN chain[a] ELSE 0
    /\ \A k \in Kinds : stream[k] # <<>> => Subscribed(k)

CFeed == WireLatest /\ StreamLatest /\ Booted

\* A change on chain puts its message last on the wire.
LEMMA ChainFeed ==
  ASSUME RInv, CFeed, NEW a \in Accounts, UNCHANGED routerVars,
         ChainCreate(a) \/ ChainUpdate(a) \/ ChainClose(a)
  PROVE  /\ CFeed'
         /\ About(wire, a)' /\ UNCHANGED mute
         /\ \A b \in Accounts : b # a => (About(wire, b)' <=> About(wire, b))
         /\ \A b \in Accounts : b # a => (b \in early' <=> b \in early)
<1>0. Honest
  BY DEF RInv
<1>1. /\ chain' \in [Accounts -> {Closed} \cup Nat]
      /\ chain'[a] # 0
      /\ \A b \in Accounts : b # a => chain'[b] = chain[b]
      /\ wire' = Append(wire, [id |-> a, ver |-> chain'[a]])
      /\ UNCHANGED <<snapshot, boot, subs, tracking, feed, stream, full>>
  BY <1>0, ChainEffect
<1>2. /\ early' = IF boot \in {"fetched", "ready"} THEN early \cup {a} ELSE early \ {a}
      /\ UNCHANGED mute
  BY DEF ChainCreate, ChainUpdate, ChainClose, ChainSet
<1>3. PICK u : u = [id |-> a, ver |-> chain'[a]]
  OBVIOUS
<1>4. u \in News /\ u.id = a /\ u.ver = chain'[a]
  BY <1>1, <1>3 DEF News
<1>5. wire \in Seq(News)
  <2>1. Legit \subseteq News
    BY DEF Legit
  <2>2. PICK S : S = Legit
    OBVIOUS
  <2>3. S \subseteq News /\ wire \in Seq(S)
    BY <1>0, <2>1, <2>2 DEF Honest
  <2>4. QED
    BY <2>3, SeqMonotone
<1>6. PICK t : t = Append(wire, u)
  OBVIOUS
<1>7. wire' = t
  BY <1>1, <1>3, <1>6
<1>8. /\ \A b : About(t, b) <=> About(wire, b) \/ a = b
      /\ LastIs(t, a, chain'[a])
      /\ \A b, v : a # b /\ LastIs(wire, b, v) => LastIs(t, b, v)
  BY <1>4, <1>5, <1>6, AboutAppend
<1>9. About(wire, a)' /\ \A b \in Accounts : b # a => (About(wire, b)' <=> About(wire, b))
  BY <1>7, <1>8 DEF About
<1>10. WireLatest'
  <2>1. ASSUME NEW b \in Accounts, About(t, b) PROVE LastIs(t, b, chain'[b])
    <3>1. CASE b = a
      BY <1>8, <3>1
    <3>2. CASE b # a
      BY <1>1, <1>8, <2>1, <3>2 DEF CFeed, WireLatest
    <3>3. QED
      BY <3>1, <3>2
  <2>2. QED
    BY <1>7, <2>1 DEF WireLatest, About, LastIs
<1>11. StreamLatest'
  <2>0. UNCHANGED <<stream, full, mute>>
    BY <1>1, <1>2
  <2>1. SUFFICES ASSUME NEW b \in Accounts, ~About(wire, b)', Kind[b] \notin full,
                        About(stream[Kind[b]], b), Open(b)' \/ b \notin mute
                 PROVE  LastIs(stream[Kind[b]], b, chain'[b])
    BY <2>0 DEF StreamLatest, About, LastIs
  <2>2. b # a /\ ~About(wire, b) /\ chain'[b] = chain[b]
    BY <1>1, <1>9, <2>1
  <2>3. Open(b) \/ b \notin mute
    BY <2>1, <2>2 DEF Open
  <2>4. QED
    BY <2>1, <2>2, <2>3 DEF CFeed, StreamLatest
<1>12. Booted'
  <2>1. UNCHANGED router
    BY DEF routerVars
  <2>2. ASSUME boot \in {"fetched", "ready"}, NEW b \in Accounts \ early'
        PROVE  snapshot[b] = IF Open(b)' THEN chain'[b] ELSE 0
    <3>1. b # a /\ b \in Accounts \ early
      BY <1>2, <2>2
    <3>2. QED
      BY <1>1, <2>2, <3>1 DEF CFeed, Booted, Open
  <2>3. QED
    BY <1>1, <2>1, <2>2 DEF CFeed, Booted, Subscribed, About
<1>13. QED
  BY <1>2, <1>9, <1>10, <1>11, <1>12 DEF CFeed, About

\* A step that leaves the messages alone.
LEMMA FeedStands ==
  ASSUME CFeed, UNCHANGED <<chain, wire, stream, full, mute>>, Booted'
  PROVE  CFeed'
  BY DEF CFeed, WireLatest, StreamLatest, About, LastIs, Open

LEMMA BootFeed ==
  ASSUME RInv, CFeed, UNCHANGED routerVars,
         FetchProgramAll \/ FetchFails \/ Subscribe \/ FeedError
  PROVE  CFeed'
<1>1. UNCHANGED <<chain, wire, stream, full, mute, router, early>>
  BY DEF FetchProgramAll, FetchFails, Subscribe, FeedError, routerVars
<1>2. CASE FetchProgramAll
  <2>1. /\ boot = "ws" /\ boot' = "fetched" /\ UNCHANGED subs
        /\ snapshot' = [a \in Accounts |-> IF Open(a) THEN chain[a] ELSE 0]
    BY <1>2 DEF FetchProgramAll
  <2>2. Booted'
    BY <1>1, <2>1 DEF CFeed, Booted, Open, Subscribed, About
  <2>3. QED
    BY <1>1, <2>2, FeedStands
<1>3. CASE FetchFails
  <2>1. boot = "ws" /\ boot' = "failed" /\ UNCHANGED <<subs, snapshot>>
    BY <1>3 DEF FetchFails
  <2>2. Booted'
    BY <1>1, <2>1 DEF CFeed, Booted, Open, Subscribed, About
  <2>3. QED
    BY <1>1, <2>2, FeedStands
<1>4. CASE Subscribe
  <2>1. /\ boot = "fetched" /\ subs' = subs + 1 /\ UNCHANGED snapshot
        /\ boot' = IF subs' = Len(SubOrder) THEN "ready" ELSE boot
    BY <1>4 DEF Subscribe
  <2>2. subs \in Nat /\ subs' \in Nat /\ router = "off"
    BY <2>1 DEF CFeed, Booted
  <2>3. \A k \in Kinds : Subscribed(k) => Subscribed(k)'
    BY <2>1, <2>2 DEF Subscribed
  <2>4. subs' = 9 => \A k \in Kinds : Subscribed(k)'
    BY DEF Subscribed, Kinds, SubOrder
  <2>5. Len(SubOrder) = 9
    BY DEF SubOrder
  <2>6. boot' \in {"ready", "run"} => \A k \in Kinds : Subscribed(k)'
    BY <2>1, <2>4, <2>5
  <2>7. boot' \in {"fetched", "ready"} => \A a \in Accounts \ early' :
            snapshot'[a] = IF Open(a)' THEN chain'[a] ELSE 0
    BY <1>1, <2>1 DEF CFeed, Booted, Open
  <2>8. Booted'
    BY <1>1, <2>2, <2>3, <2>6, <2>7 DEF CFeed, Booted, About
  <2>9. QED
    BY <1>1, <2>8, FeedStands
<1>5. CASE FeedError
  <2>1. UNCHANGED <<subs, snapshot, boot>>
    BY <1>5 DEF FeedError
  <2>2. Booted'
    BY <1>1, <2>1 DEF CFeed, Booted, Open, Subscribed, About
  <2>3. QED
    BY <1>1, <2>2, FeedStands
<1>6. QED
  BY <1>2, <1>3, <1>4, <1>5

\* Nothing about a is under way between the chain and the router.
Idle(a) == ~About(wire, a) /\ Kind[a] \notin full /\ ~About(stream[Kind[a]], a)

\* What Honest says of the sequences of messages.
LEMMA Messages ==
  ASSUME Honest
  PROVE  /\ wire \in Seq(News) /\ stream \in [Kinds -> Seq(News)]
         /\ \A k \in Kinds : \A i \in DOMAIN stream[k] :
               stream[k][i].id \in Accounts /\ Kind[stream[k][i].id] = k
         /\ wire # <<>> => Head(wire) \in News
<1>1. wire \in Seq(News)
  <2>1. PICK S : S = Legit
    OBVIOUS
  <2>2. S \subseteq News /\ wire \in Seq(S)
    BY <2>1 DEF Honest, Legit
  <2>3. QED
    BY <2>2, SeqMonotone
<1>2. ASSUME NEW k \in Kinds, NEW i \in DOMAIN stream[k]
      PROVE  stream[k][i].id \in Accounts /\ Kind[stream[k][i].id] = k
  <2>1. PICK q, S : q = stream[k] /\ S = LegitOf(k)
    OBVIOUS
  <2>2. q \in Seq(S) /\ i \in DOMAIN q
    BY <2>1 DEF Honest
  <2>3. q[i] \in S
    BY <2>2, LenProperties, ElementOfSeq
  <2>4. QED
    BY <2>1, <2>3 DEF LegitOf, Legit, News
<1>3. QED
  BY <1>1, <1>2, TailTyped DEF Honest

\* The feed hands a message on; it drops it when the stream is full, when
\* nobody has subscribed yet, or when it is a closing that is not reported.
LEMMA FeedStepFeed ==
  ASSUME RInv, CFeed, UNCHANGED routerVars, FeedStep
  PROVE  /\ CFeed'
         /\ \A a \in Accounts : Idle(a)' =>
               \/ Idle(a)
               \/ chain[a] = Closed /\ a \in mute'
               \/ router # "run" /\ chain[a] # Closed
         /\ mute \subseteq mute'
<1>0. Honest
  BY DEF RInv
<1>1. /\ feed = "run" /\ wire # <<>> /\ wire' = Tail(wire)
      /\ FeedOpen(Head(wire)) \/ FeedClose(Head(wire))
      /\ UNCHANGED <<chain, snapshot, boot, subs, feed, early, router, known, made>>
  BY DEF FeedStep, routerVars
<1>2. PICK t, u : t = Tail(wire) /\ u = Head(wire)
  OBVIOUS
<1>3. wire \in Seq(News) /\ u \in News /\ wire' = t /\ stream \in [Kinds -> Seq(News)]
  BY <1>0, <1>1, <1>2, Messages
<1>4. PICK c, k : c = u.id /\ k = Kind[c]
  OBVIOUS
<1>5. c \in Accounts /\ k \in Kinds
  BY <1>3, <1>4, FeedAssumption DEF News
<1>6. /\ \A a : About(wire, a) <=> About(t, a) \/ c = a
      /\ \A a, v : LastIs(wire, a, v) /\ About(t, a) => LastIs(t, a, v)
      /\ \A a, v : LastIs(wire, a, v) /\ ~About(t, a) => c = a /\ u.ver = v
  <2>1. wire # <<>>
    BY <1>1
  <2>2. wire \in Seq(News)
    BY <1>3
  <2>3. /\ \A a : About(wire, a) <=> About(t, a) \/ u.id = a
        /\ \A a, v : LastIs(wire, a, v) /\ About(t, a) => LastIs(t, a, v)
        /\ \A a, v : LastIs(wire, a, v) /\ ~About(t, a) => u.id = a /\ u.ver = v
    BY <1>2, <2>1, <2>2, AboutTail
  <2>4. QED
    BY <1>4, <2>3
<1>7. WireLatest'
  <2>1. \A a \in Accounts : About(t, a) => LastIs(t, a, chain[a])
    BY <1>6 DEF CFeed, WireLatest
  <2>2. QED
    BY <1>1, <1>3, <2>1 DEF WireLatest
<1>8. About(wire, c) /\ (~About(t, c) => u.ver = chain[c])
  BY <1>5, <1>6 DEF CFeed, WireLatest
<1>9. PICK q : q = Append(stream[k], u)
  OBVIOUS
<1>10. /\ \A a : About(q, a) <=> About(stream[k], a) \/ c = a
       /\ LastIs(q, c, u.ver)
       /\ \A a, v : c # a /\ LastIs(stream[k], a, v) => LastIs(q, a, v)
  BY <1>3, <1>4, <1>5, <1>9, AboutAppend
\* The three outcomes.
<1>11. \/ UNCHANGED <<stream, full>>
       \/ Subscribed(k) /\ stream' = [stream EXCEPT ![k] = q] /\ UNCHANGED full
       \/ UNCHANGED stream /\ full' = full \cup {k}
  BY <1>1, <1>2, <1>4, <1>9 DEF FeedOpen, FeedClose, Broadcast
<1>12. mute \subseteq mute'
  BY <1>1 DEF FeedOpen, FeedClose
<1>13. UNCHANGED <<stream, full>> =>
          \/ k \in full
          \/ u.ver = Closed /\ c \in mute'
          \/ ~Subscribed(k) /\ u.ver # Closed
  <2>1. CASE FeedOpen(u)
    <3>1. ASSUME Subscribed(k), k \notin full, UNCHANGED <<stream, full>> PROVE FALSE
      <4>1. \/ stream' = [stream EXCEPT ![k] = q]
            \/ full' = full \cup {k}
        BY <1>4, <1>9, <2>1, <3>1 DEF FeedOpen, Broadcast
      <4>2. CASE stream' = [stream EXCEPT ![k] = q]
        <5>1. stream[k] = q
          BY <1>3, <1>5, <3>1, <4>2
        <5>2. Len(q) = Len(stream[k]) + 1 /\ Len(stream[k]) \in Nat
          BY <1>3, <1>5, <1>9, AppendTyped
        <5>3. QED
          BY <5>1, <5>2
      <4>3. QED
        BY <3>1, <4>1, <4>2
    <3>2. u.ver # Closed
      BY <2>1 DEF FeedOpen
    <3>3. QED
      BY <3>1, <3>2
  <2>2. CASE FeedClose(u)
    <3>1. ASSUME c \notin mute', k \notin full, UNCHANGED <<stream, full>> PROVE FALSE
      <4>1. Broadcast(u) /\ Subscribed(k)
        BY <1>4, <2>2, <3>1 DEF FeedClose
      <4>2. \/ stream' = [stream EXCEPT ![k] = q]
            \/ full' = full \cup {k}
        BY <1>4, <1>9, <3>1, <4>1 DEF Broadcast
      <4>3. CASE stream' = [stream EXCEPT ![k] = q]
        <5>1. stream[k] = q
          BY <1>3, <1>5, <3>1, <4>3
        <5>2. Len(q) = Len(stream[k]) + 1 /\ Len(stream[k]) \in Nat
          BY <1>3, <1>5, <1>9, AppendTyped
        <5>3. QED
          BY <5>1, <5>2
      <4>4. QED
        BY <3>1, <4>2, <4>3
    <3>2. u.ver = Closed
      BY <2>2 DEF FeedClose
    <3>3. QED
      BY <3>1, <3>2
  <2>3. QED
    BY <1>1, <1>2, <2>1, <2>2
<1>15. \A a \in Accounts : Kind[a] \in Kinds
  BY FeedAssumption
<1>16. StreamLatest'
  <2>1. SUFFICES ASSUME NEW a \in Accounts, ~About(t, a), Kind[a] \notin full',
                        About(stream[Kind[a]], a)', Open(a) \/ a \notin mute'
                 PROVE  LastIs(stream'[Kind[a]], a, chain[a])
    BY <1>1, <1>3 DEF StreamLatest, About, LastIs, Open
  <2>2. About(stream'[Kind[a]], a) /\ Kind[a] \notin full
    BY <1>11, <2>1 DEF About
  <2>3. CASE a # c
    <3>1. ~About(wire, a)
      BY <1>6, <2>1, <2>3
    <3>2. CASE stream'[Kind[a]] = stream[Kind[a]]
      BY <1>12, <2>1, <2>2, <3>1, <3>2 DEF CFeed, StreamLatest
    <3>3. CASE Kind[a] = k /\ stream'[k] = q
      <4>1. About(stream[k], a)
        BY <1>10, <2>2, <2>3, <3>3
      <4>2. LastIs(stream[k], a, chain[a])
        BY <1>12, <2>1, <2>2, <3>1, <3>3, <4>1 DEF CFeed, StreamLatest
      <4>3. QED
        BY <1>10, <2>3, <3>3, <4>2
    <3>4. QED
      BY <1>3, <1>5, <1>11, <1>15, <2>1, <3>2, <3>3
  <2>4. CASE a = c
    <3>1. u.ver = chain[c] /\ Kind[a] = k
      BY <1>4, <1>8, <2>1, <2>4
    <3>2. CASE stream' = [stream EXCEPT ![k] = q]
      BY <1>3, <1>5, <1>10, <2>4, <3>1, <3>2
    <3>3. CASE stream' = stream
      <4>1. About(stream[k], c)
        BY <2>2, <2>4, <3>1, <3>3
      <4>2. stream[k] # <<>>
        BY <4>1 DEF About
      <4>3. Subscribed(k)
        BY <1>5, <4>2 DEF CFeed, Booted
      <4>4. k \notin full /\ k \notin full'
        BY <2>1, <2>2, <3>1
      <4>5. UNCHANGED full
        BY <1>11, <3>3, <4>4
      <4>6. u.ver = Closed /\ c \in mute'
        BY <1>13, <3>3, <4>3, <4>4, <4>5
      <4>7. ~Open(c)
        BY <3>1, <4>6 DEF Open, Closed
      <4>8. QED
        BY <2>1, <2>4, <4>6, <4>7
    <3>4. QED
      BY <1>11, <3>2, <3>3
  <2>5. QED
    BY <2>3, <2>4
<1>17. Booted'
  <2>1. \A j \in Kinds : Subscribed(j)' <=> Subscribed(j)
    BY <1>1 DEF Subscribed
  <2>2. ASSUME NEW j \in Kinds, stream'[j] # <<>> PROVE Subscribed(j)
    BY <1>3, <1>5, <1>11, <2>2 DEF CFeed, Booted
  <2>3. QED
    BY <1>1, <2>1, <2>2 DEF CFeed, Booted, Open, About
<1>18. ASSUME NEW a \in Accounts, Idle(a)', ~Idle(a)
       PROVE  \/ chain[a] = Closed /\ a \in mute'
              \/ router # "run" /\ chain[a] # Closed
  <2>1. ~About(t, a) /\ Kind[a] \notin full' /\ ~About(stream'[Kind[a]], a)
    BY <1>3, <1>18 DEF Idle, About
  <2>2. Kind[a] \notin full
    BY <1>11, <2>1
  <2>3. ~About(stream[Kind[a]], a)
    BY <1>3, <1>5, <1>10, <1>11, <1>15, <2>1
  <2>4. a = c /\ Kind[a] = k
    BY <1>4, <1>6, <1>18, <2>1, <2>2, <2>3 DEF Idle
  <2>5. u.ver = chain[a]
    BY <1>8, <2>1, <2>4
  <2>6. router = "run" => Subscribed(k)
    BY <1>5 DEF CFeed, Booted
  <2>7. UNCHANGED <<stream, full>>
    BY <1>3, <1>5, <1>10, <1>11, <2>1, <2>4
  <2>8. QED
    BY <1>13, <2>2, <2>4, <2>5, <2>6, <2>7
<1>19. QED
  BY <1>7, <1>12, <1>16, <1>17, <1>18 DEF CFeed

\* What the router holds of an open object and of a list about which nothing
\* is under way.
SettledObject(a) ==
    Open(a) => /\ a \in known
               /\ Kind[a] \in {"payout", "receipt", "staker"} => held[a] = chain[a]

ListHeld(b) == IF Referred(b) \subseteq known THEN delivered[b] = chain[b]
               ELSE stashed[b] = chain[b]

Settled ==
    router = "run" => \A a \in Accounts \ early : Idle(a) =>
        /\ a \in Objects => SettledObject(a)
        /\ a \in Lists /\ chain[a] > snapshot[a] => ListHeld(a)

\* A closed account about which nothing is under way has no object, or the
\* feed did not tell of the closing.
Muted ==
    \A a \in Objects : chain[a] = Closed /\ Idle(a) /\ (router = "off" \/ a \in known)
                      => a \in mute

\* The object of an account has its loopDelete, or its closing has already
\* been reported.
WatchedAt(a) ==
    \/ \E s \in {"start", "on", "zero"} : <<a, made[a], s>> \in watch
    \/ \E i \in DOMAIN closeC[Kind[a]] : closeC[Kind[a]][i] = a

Watched == \A a \in known \ blind : WatchedAt(a)

\* The maps of an object that is known have its entries.
FoundAt(a) ==
    /\ Kind[a] \in {"payout", "validator"} => ref[a] # 0 /\ a \in indexed
    /\ Kind[a] \in {"pipeline", "receipt", "staker"} => held[a] # 0
    /\ Kind[a] = "staker" => a \in indexed

Found == \A a \in known : FoundAt(a)

\* What belongs to a known owner is not stashed.
NoStash == \A b \in Lists : Referred(b) \subseteq known => ~(stashed[b] > 0)

CTyped ==
    /\ known \subseteq Objects
    /\ DOMAIN held = Accounts /\ DOMAIN ref = Accounts
    /\ made \in [Objects -> Nat]
    /\ DOMAIN delivered = Lists /\ DOMAIN stashed = Lists
    /\ router = "off" => known = {} /\ \A b \in Lists : stashed[b] = 0

CRouter == CTyped /\ NoStash /\ Found /\ Settled /\ Muted /\ Watched

CInv == RInv /\ CFeed /\ CRouter

\* The parts that only the router's own variables matter to.
LEMMA RouterStands ==
  ASSUME CRouter, UNCHANGED routerVars, Settled', Muted'
  PROVE  CRouter'
<1>1. UNCHANGED <<router, known, held, ref, indexed, delivered, stashed, made, watch,
                  closeC, blind>>
  BY DEF routerVars
<1>2. CTyped' /\ NoStash'
  BY <1>1 DEF CRouter, CTyped, NoStash
<1>3. Found' /\ Watched'
  BY <1>1 DEF CRouter, Found, FoundAt, Watched, WatchedAt
<1>4. QED
  BY <1>2, <1>3 DEF CRouter

\* The chain moves.
LEMMA ChainRouter ==
  ASSUME RInv, CFeed, CRouter, NEW a \in Accounts, UNCHANGED routerVars,
         ChainCreate(a) \/ ChainUpdate(a) \/ ChainClose(a)
  PROVE  CFeed' /\ CRouter'
<1>1. /\ CFeed' /\ About(wire, a)' /\ UNCHANGED mute
      /\ \A b \in Accounts : b # a => (About(wire, b)' <=> About(wire, b))
      /\ \A b \in Accounts : b # a => (b \in early' <=> b \in early)
  BY ChainFeed
<1>2. /\ \A b \in Accounts : b # a => chain'[b] = chain[b]
      /\ UNCHANGED <<snapshot, tracking, feed, stream, full>>
  BY ChainEffect DEF RInv
<1>3. UNCHANGED <<router, known, held, delivered, stashed, made, watch, closeC>>
  BY DEF routerVars
<1>4. Settled'
  <2>1. SUFFICES ASSUME router = "run", NEW b \in Accounts \ early', Idle(b)'
                 PROVE  /\ b \in Objects => SettledObject(b)'
                        /\ b \in Lists /\ chain'[b] > snapshot[b] => ListHeld(b)'
    BY <1>2, <1>3 DEF Settled
  <2>2. b # a /\ Idle(b)
    <3>1. b # a
      BY <1>1, <2>1 DEF Idle, About
    <3>2. About(wire, b)' <=> About(wire, b)
      BY <1>1, <3>1
    <3>3. QED
      BY <1>2, <2>1, <3>1, <3>2 DEF Idle, About
  <2>3. /\ b \in Objects => SettledObject(b)
        /\ b \in Lists /\ chain[b] > snapshot[b] => ListHeld(b)
    BY <1>1, <2>1, <2>2 DEF CRouter, Settled
  <2>4. chain'[b] = chain[b]
    BY <1>2, <2>2
  <2>5. QED
    BY <1>3, <2>3, <2>4 DEF SettledObject, ListHeld, Open
<1>5. Muted'
  <2>1. SUFFICES ASSUME NEW b \in Objects, chain'[b] = Closed, Idle(b)',
                        router = "off" \/ b \in known
                 PROVE  b \in mute
    BY <1>1, <1>3 DEF Muted
  <2>2. b \in Accounts
    BY DEF Objects
  <2>3. b # a /\ Idle(b) /\ chain[b] = Closed
    <3>1. b # a
      BY <1>1, <2>1 DEF Idle, About
    <3>2. About(wire, b)' <=> About(wire, b)
      BY <1>1, <2>2, <3>1
    <3>3. QED
      BY <1>2, <2>1, <2>2, <3>1, <3>2 DEF Idle, About
  <2>4. QED
    BY <2>1, <2>3 DEF CRouter, Muted
<1>6. CRouter'
  BY <1>4, <1>5, RouterStands
<1>7. QED
  BY <1>1, <1>6

LEMMA BootRouter ==
  ASSUME RInv, CFeed, CRouter, UNCHANGED routerVars,
         FetchProgramAll \/ FetchFails \/ Subscribe \/ FeedError
  PROVE  CFeed' /\ CRouter'
<1>1. CFeed'
  BY BootFeed
<1>2. UNCHANGED <<chain, wire, stream, full, mute, early>>
  BY DEF FetchProgramAll, FetchFails, Subscribe, FeedError
<1>3. UNCHANGED <<router, known, held, delivered, stashed, made, watch, closeC>>
  BY DEF routerVars
<1>4. router = "run" => UNCHANGED snapshot
  BY DEF CFeed, Booted, FetchProgramAll, FetchFails, Subscribe, FeedError
<1>5. Settled'
  BY <1>2, <1>3, <1>4
     DEF CRouter, Settled, Idle, About, SettledObject, ListHeld, Open
<1>6. Muted'
  BY <1>2, <1>3 DEF CRouter, Muted, Idle, About
<1>7. CRouter'
  BY <1>5, <1>6, RouterStands
<1>8. QED
  BY <1>1, <1>7

\* The feed moves: a message that it does not hand on to the router is a
\* closing on which it is mute.
LEMMA FeedStepRouter ==
  ASSUME RInv, CFeed, CRouter, UNCHANGED routerVars, FeedStep
  PROVE  CFeed' /\ CRouter'
<1>1. /\ CFeed'
      /\ \A a \in Accounts : Idle(a)' =>
            \/ Idle(a)
            \/ chain[a] = Closed /\ a \in mute'
            \/ router # "run" /\ chain[a] # Closed
      /\ mute \subseteq mute'
  BY FeedStepFeed
<1>2. UNCHANGED <<chain, snapshot, feed, early>>
  BY DEF FeedStep
<1>3. UNCHANGED <<router, known, held, delivered, stashed, made, watch, closeC>>
  BY DEF routerVars
<1>4. Settled'
  <2>1. SUFFICES ASSUME router = "run", NEW b \in Accounts \ early, Idle(b)'
                 PROVE  /\ b \in Objects => SettledObject(b)
                        /\ b \in Lists /\ chain[b] > snapshot[b] => ListHeld(b)
    BY <1>2, <1>3 DEF Settled, SettledObject, ListHeld, Open
  <2>2. CASE Idle(b)
    BY <2>1, <2>2 DEF CRouter, Settled
  <2>3. CASE chain[b] = Closed
    <3>1. ~Open(b)
      BY <2>3 DEF Open, Closed
    <3>2. ~(chain[b] > snapshot[b])
      BY <2>1, <2>3 DEF RInv, Honest, Closed
    <3>3. b \in Objects => SettledObject(b)
      BY <3>1 DEF SettledObject
    <3>4. QED
      BY <3>2, <3>3
  <2>4. QED
    BY <1>1, <2>1, <2>2, <2>3
<1>5. Muted'
  <2>1. SUFFICES ASSUME NEW b \in Objects, chain[b] = Closed, Idle(b)',
                        router = "off" \/ b \in known
                 PROVE  b \in mute'
    BY <1>2, <1>3 DEF Muted
  <2>2. b \in Accounts
    BY DEF Objects
  <2>3. QED
    BY <1>1, <2>1, <2>2 DEF CRouter, Muted
<1>6. CRouter'
  BY <1>4, <1>5, RouterStands
<1>7. QED
  BY <1>1, <1>6

\* A handler takes the first message of its stream.
LEMMA ReceivesFeed ==
  ASSUME RInv, CFeed, NEW k \in Kinds, Receives(k), UNCHANGED router,
         NEW u, u = Head(stream[k]), NEW a, a = u.id
  PROVE  /\ CFeed'
         /\ a \in Accounts /\ Kind[a] = k
         /\ u.ver # 0 /\ (u.ver = Closed => chain[a] = Closed)
         /\ \A b \in Accounts : b # a /\ Idle(b)' => Idle(b)
         /\ Idle(a)' /\ (Open(a) \/ a \notin mute) => u.ver = chain[a]
<1>1. /\ stream \in [Kinds -> Seq(News)] /\ Honest
      /\ \A j \in Kinds : \A i \in DOMAIN stream[j] :
            stream[j][i].id \in Accounts /\ Kind[stream[j][i].id] = j
  BY Messages DEF RInv
<1>2. PICK s, t : s = stream[k] /\ t = Tail(s)
  OBVIOUS
<1>3. /\ s \in Seq(News) /\ s # <<>> /\ stream' = [stream EXCEPT ![k] = t]
      /\ router = "run"
      /\ UNCHANGED <<chain, wire, snapshot, boot, subs, feed, full, early, mute>>
  BY <1>1, <1>2 DEF Receives
<1>4. u \in LegitOf(k)
  BY <1>1, ReceivesEffect
<1>5. a \in Accounts /\ Kind[a] = k /\ u.ver # 0 /\ (u.ver = Closed => chain[a] = Closed)
  BY <1>4 DEF LegitOf, Legit, News, Closed
<1>6. s \in Seq(News) /\ s # <<>> /\ t = Tail(s) /\ u = Head(s)
  BY <1>2, <1>3
<1>7. /\ \A b : About(s, b) <=> About(t, b) \/ u.id = b
      /\ \A b, v : LastIs(s, b, v) /\ About(t, b) => LastIs(t, b, v)
      /\ \A b, v : LastIs(s, b, v) /\ ~About(t, b) => u.id = b /\ u.ver = v
  BY <1>6, AboutTail
<1>8. \A j \in Kinds : stream'[j] = IF j = k THEN t ELSE stream[j]
  BY <1>1, <1>3
<1>9. \A b \in Accounts : Kind[b] \in Kinds
  BY FeedAssumption
<1>10. \A b \in Accounts :
          /\ About(stream'[Kind[b]], b) => About(stream[Kind[b]], b)
          /\ b # a => (About(stream'[Kind[b]], b) <=> About(stream[Kind[b]], b))
  BY <1>2, <1>7, <1>8, <1>9
<1>11. WireLatest'
  BY <1>3 DEF CFeed, WireLatest
<1>12. StreamLatest'
  <2>1. SUFFICES ASSUME NEW b \in Accounts, ~About(wire, b), Kind[b] \notin full,
                        About(stream'[Kind[b]], b), Open(b) \/ b \notin mute
                 PROVE  LastIs(stream'[Kind[b]], b, chain[b])
    BY <1>3 DEF StreamLatest, Open
  <2>2. LastIs(stream[Kind[b]], b, chain[b])
    BY <1>10, <2>1 DEF CFeed, StreamLatest
  <2>3. QED
    BY <1>2, <1>7, <1>8, <1>9, <2>1, <2>2
<1>13. Booted'
  <2>1. \A j \in Kinds : stream'[j] # <<>> => Subscribed(j)
    BY <1>3, <1>8, <1>2 DEF CFeed, Booted
  <2>2. QED
    BY <1>3, <2>1 DEF CFeed, Booted, Subscribed, Open
<1>14. \A b \in Accounts : b # a /\ Idle(b)' => Idle(b)
  BY <1>3, <1>10 DEF Idle
<1>15. Idle(a)' /\ (Open(a) \/ a \notin mute) => u.ver = chain[a]
  <2>1. SUFFICES ASSUME ~About(wire, a), Kind[a] \notin full, ~About(t, a),
                        Open(a) \/ a \notin mute
                 PROVE  u.ver = chain[a]
    BY <1>3, <1>5, <1>8 DEF Idle
  <2>2. LastIs(s, a, chain[a])
    BY <1>2, <1>5, <1>7, <2>1 DEF CFeed, StreamLatest
  <2>3. QED
    BY <1>7, <2>1, <2>2
<1>16. QED
  BY <1>5, <1>11, <1>12, <1>13, <1>14, <1>15 DEF CFeed

\* A handler settles the account of its message and leaves the others alone.
LEMMA HandlerRouter ==
  ASSUME RInv, CFeed, CRouter, NEW k \in Kinds, Receives(k),
         UNCHANGED <<router, closeC, blind>>,
         NEW u, u = Head(stream[k]), NEW a, a = u.id,
         CTyped', Found', NoStash', watch \subseteq watch',
         \A b \in Objects : b # a =>
            /\ b \in known' <=> b \in known
            /\ held'[b] = held[b] /\ made'[b] = made[b],
         a \in Objects =>
            /\ u.ver = Closed => a \notin known'
            /\ u.ver # Closed =>
                  /\ a \in known'
                  /\ Kind[a] \in {"payout", "receipt", "staker"} => held'[a] = u.ver
            /\ a \in known' =>
                  \/ a \in known /\ made'[a] = made[a]
                  \/ <<a, made'[a], "start">> \in watch',
         \A b \in Lists : b # a /\ Open(b) /\ ListHeld(b) => ListHeld(b)',
         a \in Lists /\ Open(a) /\ u.ver = chain[a] => ListHeld(a)'
  PROVE  CFeed' /\ CRouter'
<1>1. /\ CFeed'
      /\ a \in Accounts /\ Kind[a] = k
      /\ \A b \in Accounts : b # a /\ Idle(b)' => Idle(b)
      /\ Idle(a)' /\ (Open(a) \/ a \notin mute) => u.ver = chain[a]
  BY ReceivesFeed
<1>2. /\ router = "run" /\ UNCHANGED <<chain, snapshot, early, mute>>
  BY DEF Receives
<1>3. known \subseteq Objects /\ known' \subseteq Objects
  BY DEF CRouter, CTyped
<1>4. Muted'
  <2>1. SUFFICES ASSUME NEW b \in Objects, chain[b] = Closed, Idle(b)', b \in known'
                 PROVE  b \in mute
    BY <1>2 DEF Muted
  <2>2. b \in Accounts
    BY DEF Objects
  <2>3. CASE b # a
    BY <1>1, <2>1, <2>2, <2>3 DEF CRouter, Muted
  <2>4. CASE b = a
    BY <1>1, <2>1, <2>4
  <2>5. QED
    BY <2>3, <2>4
<1>5. Settled'
  <2>1. SUFFICES ASSUME NEW b \in Accounts \ early, Idle(b)'
                 PROVE  /\ b \in Objects => SettledObject(b)'
                        /\ b \in Lists /\ chain[b] > snapshot[b] => ListHeld(b)'
    BY <1>2 DEF Settled
  <2>2. ASSUME NEW c \in Accounts, chain[c] > snapshot[c] PROVE Open(c)
    <3>1. chain[c] \in {Closed} \cup Nat /\ snapshot[c] \in Nat
      BY DEF RInv, Honest
    <3>2. QED
      BY <2>2, <3>1 DEF Open, Closed
  <2>3. CASE b # a
    <3>1. /\ b \in Objects => SettledObject(b)
          /\ b \in Lists /\ chain[b] > snapshot[b] => ListHeld(b)
      BY <1>1, <1>2, <2>1, <2>3 DEF CRouter, Settled
    <3>2. b \in Objects => SettledObject(b)'
      BY <1>2, <2>3, <3>1 DEF SettledObject, Open
    <3>3. QED
      BY <2>2, <2>3, <3>1, <3>2
  <2>4. CASE b = a
    <3>1. b \in Objects => SettledObject(b)'
      BY <1>1, <1>2, <2>1, <2>4 DEF SettledObject, Open, Closed
    <3>2. QED
      BY <1>1, <2>1, <2>2, <2>4, <3>1
  <2>5. QED
    BY <2>3, <2>4
<1>6. Watched'
  <2>1. SUFFICES ASSUME NEW b \in known' \ blind PROVE WatchedAt(b)'
    BY DEF Watched
  <2>2. CASE b \in known /\ made'[b] = made[b]
    <3>1. WatchedAt(b)
      BY <2>1, <2>2 DEF CRouter, Watched
    <3>2. QED
      BY <2>2, <3>1 DEF WatchedAt
  <2>3. CASE b = a /\ <<a, made'[a], "start">> \in watch'
    BY <2>1, <2>3 DEF WatchedAt
  <2>4. QED
    BY <1>3, <2>1, <2>2, <2>3
<1>7. QED
  BY <1>1, <1>4, <1>5, <1>6 DEF CRouter

LEMMA ListOwner ==
  ASSUME NEW b \in Lists
  PROVE  \E o \in Accounts : Referred(b) = {o} /\ Kind[o] \in {"payout", "pipeline"}
<1>1. PICK o \in Accounts :
        Referred(b) = {o} /\ Kind[o] = IF Kind[b] = "bidList" THEN "payout" ELSE "pipeline"
  BY RouterAssumption
<1>2. QED
  BY <1>1

\* An object that is closed for good is dropped: no open list is its own.
LEMMA ListsWithout ==
  ASSUME OwnersOpen, NoStash, NEW a \in Gone,
         known' = known \ {a} \/ known' = known,
         UNCHANGED <<chain, delivered, stashed>>
  PROVE  /\ NoStash'
         /\ \A b \in Lists : Open(b) /\ ListHeld(b) => ListHeld(b)'
<1>1. NoStash'
  BY DEF NoStash
<1>2. ASSUME NEW b \in Lists, Open(b), ListHeld(b) PROVE ListHeld(b)'
  <2>1. PICK o \in Accounts : Referred(b) = {o}
    BY ListOwner
  <2>2. Open(o)
    <3>1. <<b, o>> \in Refers
      BY <2>1 DEF Referred
    <3>2. QED
      BY <1>2, <3>1 DEF OwnersOpen
  <2>3. ~Open(a)
    BY DEF Gone, Open, Closed
  <2>4. Referred(b) \subseteq known' <=> Referred(b) \subseteq known
    BY <2>1, <2>2, <2>3
  <2>5. QED
    BY <1>2, <2>4 DEF ListHeld
<1>3. QED
  BY <1>1, <1>2

LEMMA ClosedRouter ==
  ASSUME RInv, CFeed, CRouter, NEW k \in Kinds, Receives(k),
         UNCHANGED <<router, closeC, blind>>, k \notin {"bidList", "periodRing"},
         Head(stream[k]).ver = Closed, OnClosed(Head(stream[k]).id)
  PROVE  CFeed' /\ CRouter'
<1>1. PICK u, a : u = Head(stream[k]) /\ a = u.id
  OBVIOUS
<1>2. /\ a \in Accounts /\ Kind[a] = k /\ u.ver = Closed /\ chain[a] = Closed
      /\ router = "run" /\ UNCHANGED chain
  <2>1. /\ a \in Accounts /\ Kind[a] = k /\ (u.ver = Closed => chain[a] = Closed)
    BY <1>1, ReceivesFeed
  <2>2. u.ver = Closed /\ router = "run" /\ UNCHANGED chain
    BY <1>1 DEF Receives
  <2>3. QED
    BY <2>1, <2>2
<1>3. /\ known' = known \ {a}
      /\ UNCHANGED <<held, ref, indexed, delivered, stashed, made, watch>>
  BY <1>1 DEF OnClosed, Drops
<1>4. a \in Gone /\ a \notin Lists
  BY <1>2 DEF Gone, Lists
<1>5. /\ NoStash'
      /\ \A b \in Lists : Open(b) /\ ListHeld(b) => ListHeld(b)'
  BY <1>2, <1>3, <1>4, ListsWithout DEF RInv, CRouter
<1>6. CTyped'
  BY <1>2, <1>3 DEF CRouter, CTyped
<1>7. Found'
  BY <1>3 DEF CRouter, Found, FoundAt
<1>8. /\ \A b \in Objects : b # a =>
            /\ b \in known' <=> b \in known
            /\ held'[b] = held[b] /\ made'[b] = made[b]
      /\ a \notin known' /\ watch \subseteq watch'
  BY <1>3
<1>9. a \in Objects =>
            /\ u.ver = Closed => a \notin known'
            /\ u.ver # Closed =>
                  /\ a \in known'
                  /\ Kind[a] \in {"payout", "receipt", "staker"} => held'[a] = u.ver
            /\ a \in known' =>
                  \/ a \in known /\ made'[a] = made[a]
                  \/ <<a, made'[a], "start">> \in watch'
  BY <1>2, <1>8
<1>10. QED
  BY <1>1, <1>4, <1>5, <1>6, <1>7, <1>8, <1>9, HandlerRouter

\* The branches IsOpen.
LEMMA OpenRouter ==
  ASSUME RInv, CFeed, CRouter, NEW k \in Kinds, Receives(k),
         UNCHANGED <<router, closeC, blind>>,
         NEW u, u = Head(stream[k]), NEW a, a = u.id, u.ver # Closed, a \in Objects,
         IF a \notin known THEN Creates(a) ELSE UNCHANGED <<known, made, watch>>,
         \/ held' = [held EXCEPT ![a] = u.ver]
         \/ /\ Kind[a] \in {"pipeline", "validator"}
            /\ held' = IF a \notin known THEN [held EXCEPT ![a] = u.ver] ELSE held,
         \/ /\ Kind[a] \notin {"payout", "validator"} /\ UNCHANGED ref
         \/ ref' = IF a \notin known THEN [ref EXCEPT ![a] = u.ver] ELSE ref,
         \/ /\ Kind[a] \notin {"payout", "validator", "staker"} /\ UNCHANGED indexed
         \/ indexed' = IF a \notin known THEN indexed \cup {a} ELSE indexed,
         DOMAIN delivered' = Lists, DOMAIN stashed' = Lists, NoStash',
         \A b \in Lists : Open(b) /\ ListHeld(b) => ListHeld(b)'
  PROVE  CFeed' /\ CRouter'
<1>1. a \in Accounts /\ Kind[a] = k /\ u.ver # 0 /\ a \notin Lists
  BY ReceivesFeed DEF Lists, Objects
<1>2. /\ known' = known \cup {a} /\ watch \subseteq watch'
      /\ UNCHANGED made \/ made' = [made EXCEPT ![a] = @ + 1]
      /\ \/ a \in known /\ made' = made
         \/ a \notin known /\ <<a, made[a] + 1, "start">> \in watch'
            /\ made' = [made EXCEPT ![a] = @ + 1]
  BY DEF Creates
<1>3. /\ known \subseteq Objects /\ DOMAIN held = Accounts /\ DOMAIN ref = Accounts
      /\ made \in [Objects -> Nat] /\ Found
  BY DEF CRouter, CTyped
<1>4. made' \in [Objects -> Nat] /\ \A b \in Objects : b # a => made'[b] = made[b]
  BY <1>2, <1>3
<1>5. \/ a \in known /\ made'[a] = made[a]
      \/ <<a, made'[a], "start">> \in watch'
  BY <1>2, <1>3
<1>6. /\ DOMAIN held' = Accounts /\ DOMAIN ref' = Accounts
      /\ \A b \in Accounts : b # a => held'[b] = held[b] /\ ref'[b] = ref[b]
      /\ Kind[a] \in {"payout", "receipt", "staker"} => held'[a] = u.ver
      /\ held'[a] = u.ver \/ (a \in known /\ held'[a] = held[a])
      /\ Kind[a] \in {"payout", "validator"} =>
            ref'[a] = u.ver \/ (a \in known /\ ref'[a] = ref[a])
      /\ indexed \subseteq indexed'
      /\ Kind[a] \in {"payout", "validator", "staker"} => a \in indexed' \/ a \in known
  BY <1>1, <1>3
<1>7. CTyped'
  <2>1. router' = "run"
    BY DEF Receives
  <2>2. QED
    BY <1>2, <1>3, <1>4, <1>6, <2>1 DEF CTyped
<1>8. Found'
  <2>1. SUFFICES ASSUME NEW b \in known' PROVE FoundAt(b)'
    BY DEF Found
  <2>2. CASE b # a
    <3>1. b \in known /\ b \in Accounts /\ FoundAt(b)
      BY <1>2, <1>3, <2>2 DEF Found, Objects
    <3>2. QED
      BY <1>6, <2>2, <3>1 DEF FoundAt
  <2>3. CASE b = a
    <3>1. a \in known => FoundAt(a)
      BY <1>3 DEF Found
    <3>2. QED
      BY <1>1, <1>6, <2>3, <3>1 DEF FoundAt
  <2>4. QED
    BY <2>2, <2>3
<1>9. \A b \in Objects : b # a =>
            /\ b \in known' <=> b \in known
            /\ held'[b] = held[b] /\ made'[b] = made[b]
  BY <1>2, <1>4, <1>6 DEF Objects
<1>10. a \in Objects =>
            /\ u.ver = Closed => a \notin known'
            /\ u.ver # Closed =>
                  /\ a \in known'
                  /\ Kind[a] \in {"payout", "receipt", "staker"} => held'[a] = u.ver
            /\ a \in known' =>
                  \/ a \in known /\ made'[a] = made[a]
                  \/ <<a, made'[a], "start">> \in watch'
  BY <1>2, <1>5, <1>6
<1>11. watch \subseteq watch'
  BY <1>2
<1>12. QED
  BY <1>1, <1>7, <1>8, <1>9, <1>10, <1>11, HandlerRouter

\* on_payout and on_pipeline hand over the lists that waited.
LEMMA ListsHandedOver ==
  ASSUME NoStash, NEW a, known' = known \cup {a}, HandOver(a), UNCHANGED chain
  PROVE  /\ DOMAIN delivered' = Lists /\ DOMAIN stashed' = Lists /\ NoStash'
         /\ \A b \in Lists : Open(b) /\ ListHeld(b) => ListHeld(b)'
<1>1. PICK mine : /\ mine = {b \in Lists : a \in Referred(b) /\ stashed[b] > 0}
                  /\ delivered' = [b \in Lists |-> IF b \in mine THEN stashed[b]
                                                   ELSE delivered[b]]
                  /\ stashed' = [b \in Lists |-> IF b \in mine THEN 0 ELSE stashed[b]]
  BY DEF HandOver
<1>2. ASSUME NEW b \in Lists
      PROVE  /\ Referred(b) \subseteq known' => ~(stashed'[b] > 0)
             /\ Open(b) /\ ListHeld(b) => ListHeld(b)'
  <2>1. PICK o \in Accounts : Referred(b) = {o}
    BY ListOwner
  <2>2. /\ b \in mine <=> (o = a /\ stashed[b] > 0)
        /\ Referred(b) \subseteq known <=> o \in known
        /\ Referred(b) \subseteq known' <=> o \in known \/ o = a
    BY <1>1, <2>1
  <2>3. /\ delivered'[b] = IF b \in mine THEN stashed[b] ELSE delivered[b]
        /\ stashed'[b] = IF b \in mine THEN 0 ELSE stashed[b]
        /\ o \in known => ~(stashed[b] > 0)
    BY <1>1, <2>2 DEF NoStash
  <2>4. QED
    BY <2>2, <2>3 DEF ListHeld, Open
<1>3. QED
  BY <1>1, <1>2 DEF NoStash

\* The other objects own no list.
LEMMA ListsLeft ==
  ASSUME CTyped, NoStash, NEW a, Kind[a] \notin {"payout", "pipeline"},
         known' = known \cup {a}, UNCHANGED <<chain, delivered, stashed>>
  PROVE  /\ DOMAIN delivered' = Lists /\ DOMAIN stashed' = Lists /\ NoStash'
         /\ \A b \in Lists : Open(b) /\ ListHeld(b) => ListHeld(b)'
<1>1. ASSUME NEW b \in Lists
      PROVE  Referred(b) \subseteq known' <=> Referred(b) \subseteq known
  <2>1. PICK o \in Accounts : Referred(b) = {o} /\ Kind[o] \in {"payout", "pipeline"}
    BY ListOwner
  <2>2. QED
    BY <2>1
<1>2. QED
  BY <1>1 DEF CTyped, NoStash, ListHeld

LEMMA PayoutRouter ==
  ASSUME RInv, CFeed, CRouter, on_payout PROVE CFeed' /\ CRouter'
<1>1. PICK k, u, a : k = "payout" /\ u = Head(stream[k]) /\ a = u.id
  OBVIOUS
<1>2. /\ k \in Kinds /\ Receives(k) /\ UNCHANGED <<router, closeC, blind>>
      /\ IF u.ver = Closed THEN OnClosed(a) ELSE OnPayoutOpen(u)
  BY <1>1 DEF on_payout, Kinds
<1>3. CASE u.ver = Closed
  BY <1>1, <1>2, <1>3, ClosedRouter
<1>4. CASE u.ver # Closed
  <2>1. a \in Accounts /\ Kind[a] = "payout" /\ a \in Objects
    BY <1>1, <1>2, HandledKind DEF Objects
  <2>2. /\ IF a \notin known THEN Creates(a) ELSE UNCHANGED <<known, made, watch>>
        /\ held' = [held EXCEPT ![a] = u.ver]
        /\ ref' = IF a \notin known THEN [ref EXCEPT ![a] = u.ver] ELSE ref
        /\ indexed' = IF a \notin known THEN indexed \cup {a} ELSE indexed
        /\ HandOver(a)
    BY <1>1, <1>2, <1>4 DEF OnPayoutOpen
  <2>3. known' = known \cup {a} /\ UNCHANGED chain
    BY <1>2, <2>2 DEF Creates, Receives
  <2>4. /\ DOMAIN delivered' = Lists /\ DOMAIN stashed' = Lists /\ NoStash'
        /\ \A b \in Lists : Open(b) /\ ListHeld(b) => ListHeld(b)'
    BY <2>2, <2>3, ListsHandedOver DEF CRouter
  <2>5. QED
    BY <1>1, <1>2, <1>4, <2>1, <2>2, <2>4, OpenRouter
<1>5. QED
  BY <1>3, <1>4

LEMMA PipelineRouter ==
  ASSUME RInv, CFeed, CRouter, on_pipeline PROVE CFeed' /\ CRouter'
<1>1. PICK k, u, a : k = "pipeline" /\ u = Head(stream[k]) /\ a = u.id
  OBVIOUS
<1>2. /\ k \in Kinds /\ Receives(k) /\ UNCHANGED <<router, closeC, blind>>
      /\ IF u.ver = Closed THEN OnClosed(a) ELSE OnPipelineOpen(u)
  BY <1>1 DEF on_pipeline, Kinds
<1>3. CASE u.ver = Closed
  BY <1>1, <1>2, <1>3, ClosedRouter
<1>4. CASE u.ver # Closed
  <2>1. a \in Accounts /\ Kind[a] = "pipeline" /\ a \in Objects
    BY <1>1, <1>2, HandledKind DEF Objects
  <2>2. /\ IF a \notin known THEN Creates(a) ELSE UNCHANGED <<known, made, watch>>
        /\ held' = IF a \notin known THEN [held EXCEPT ![a] = u.ver] ELSE held
        /\ HandOver(a)
        /\ UNCHANGED <<ref, indexed>>
    BY <1>1, <1>2, <1>4 DEF OnPipelineOpen
  <2>3. known' = known \cup {a} /\ UNCHANGED chain
    BY <1>2, <2>2 DEF Creates, Receives
  <2>4. /\ DOMAIN delivered' = Lists /\ DOMAIN stashed' = Lists /\ NoStash'
        /\ \A b \in Lists : Open(b) /\ ListHeld(b) => ListHeld(b)'
    BY <2>2, <2>3, ListsHandedOver DEF CRouter
  <2>5. QED
    BY <1>1, <1>2, <1>4, <2>1, <2>2, <2>4, OpenRouter
<1>5. QED
  BY <1>3, <1>4

LEMMA ReceiptRouter ==
  ASSUME RInv, CFeed, CRouter, on_receipt PROVE CFeed' /\ CRouter'
<1>1. PICK k, u, a : k = "receipt" /\ u = Head(stream[k]) /\ a = u.id
  OBVIOUS
<1>2. /\ k \in Kinds /\ Receives(k) /\ UNCHANGED <<router, closeC, blind>>
      /\ IF u.ver = Closed THEN OnClosed(a) ELSE OnReceiptOpen(u)
  BY <1>1 DEF on_receipt, Kinds
<1>3. CASE u.ver = Closed
  BY <1>1, <1>2, <1>3, ClosedRouter
<1>4. CASE u.ver # Closed
  <2>1. a \in Accounts /\ Kind[a] = "receipt" /\ a \in Objects
    BY <1>1, <1>2, HandledKind DEF Objects
  <2>2. /\ IF a \notin known THEN Creates(a) ELSE UNCHANGED <<known, made, watch>>
        /\ held' = [held EXCEPT ![a] = u.ver]
        /\ UNCHANGED <<ref, indexed, delivered, stashed>>
    BY <1>1, <1>2, <1>4 DEF OnReceiptOpen
  <2>3. known' = known \cup {a} /\ UNCHANGED chain
    BY <1>2, <2>2 DEF Creates, Receives
  <2>4. /\ DOMAIN delivered' = Lists /\ DOMAIN stashed' = Lists /\ NoStash'
        /\ \A b \in Lists : Open(b) /\ ListHeld(b) => ListHeld(b)'
    BY <2>1, <2>2, <2>3, ListsLeft DEF CRouter
  <2>5. QED
    BY <1>1, <1>2, <1>4, <2>1, <2>2, <2>4, OpenRouter
<1>5. QED
  BY <1>3, <1>4

LEMMA ValidatorRouter ==
  ASSUME RInv, CFeed, CRouter, on_validator PROVE CFeed' /\ CRouter'
<1>1. PICK k, u, a : k = "validator" /\ u = Head(stream[k]) /\ a = u.id
  OBVIOUS
<1>2. /\ k \in Kinds /\ Receives(k) /\ UNCHANGED <<router, closeC, blind>>
      /\ IF u.ver = Closed THEN OnClosed(a) ELSE \E ring : OnValidatorOpen(u, ring)
  BY <1>1 DEF on_validator, Kinds
<1>3. CASE u.ver = Closed
  BY <1>1, <1>2, <1>3, ClosedRouter
<1>4. CASE u.ver # Closed
  <2>1. a \in Accounts /\ Kind[a] = "validator" /\ a \in Objects
    BY <1>1, <1>2, HandledKind DEF Objects
  <2>2. /\ IF a \notin known THEN Creates(a) ELSE UNCHANGED <<known, made, watch>>
        /\ held' = IF a \notin known THEN [held EXCEPT ![a] = u.ver] ELSE held
        /\ ref' = IF a \notin known THEN [ref EXCEPT ![a] = u.ver] ELSE ref
        /\ indexed' = IF a \notin known THEN indexed \cup {a} ELSE indexed
        /\ UNCHANGED <<delivered, stashed>>
    BY <1>1, <1>2, <1>4 DEF OnValidatorOpen
  <2>3. known' = known \cup {a} /\ UNCHANGED chain
    BY <1>2, <2>2 DEF Creates, Receives
  <2>4. /\ DOMAIN delivered' = Lists /\ DOMAIN stashed' = Lists /\ NoStash'
        /\ \A b \in Lists : Open(b) /\ ListHeld(b) => ListHeld(b)'
    BY <2>1, <2>2, <2>3, ListsLeft DEF CRouter
  <2>5. QED
    BY <1>1, <1>2, <1>4, <2>1, <2>2, <2>4, OpenRouter
<1>5. QED
  BY <1>3, <1>4

LEMMA StakeRouter ==
  ASSUME RInv, CFeed, CRouter, on_stake PROVE CFeed' /\ CRouter'
<1>1. PICK k, u, a : k = "staker" /\ u = Head(stream[k]) /\ a = u.id
  OBVIOUS
<1>2. /\ k \in Kinds /\ Receives(k) /\ UNCHANGED <<router, closeC, blind>>
      /\ IF u.ver = Closed THEN OnClosed(a) ELSE OnStakeOpen(u)
  BY <1>1 DEF on_stake, Kinds
<1>3. CASE u.ver = Closed
  BY <1>1, <1>2, <1>3, ClosedRouter
<1>4. CASE u.ver # Closed
  <2>1. a \in Accounts /\ Kind[a] = "staker" /\ a \in Objects
    BY <1>1, <1>2, HandledKind DEF Objects
  <2>2. /\ IF a \notin known THEN Creates(a) ELSE UNCHANGED <<known, made, watch>>
        /\ held' = [held EXCEPT ![a] = u.ver]
        /\ indexed' = IF a \notin known THEN indexed \cup {a} ELSE indexed
        /\ UNCHANGED <<ref, delivered, stashed>>
    BY <1>1, <1>2, <1>4 DEF OnStakeOpen
  <2>3. known' = known \cup {a} /\ UNCHANGED chain
    BY <1>2, <2>2 DEF Creates, Receives
  <2>4. /\ DOMAIN delivered' = Lists /\ DOMAIN stashed' = Lists /\ NoStash'
        /\ \A b \in Lists : Open(b) /\ ListHeld(b) => ListHeld(b)'
    BY <2>1, <2>2, <2>3, ListsLeft DEF CRouter
  <2>5. QED
    BY <1>1, <1>2, <1>4, <2>1, <2>2, <2>4, OpenRouter
<1>5. QED
  BY <1>3, <1>4

\* A handler that changes no object.
LEMMA ObjectsLeft ==
  ASSUME RInv, CFeed, CRouter, NEW k \in Kinds, Receives(k),
         k \notin {"validator", "pipeline", "payout", "receipt", "staker"},
         UNCHANGED <<router, closeC, blind, known, held, ref, indexed, made, watch>>,
         NEW u, u = Head(stream[k]), NEW a, a = u.id,
         DOMAIN delivered' = Lists, DOMAIN stashed' = Lists, NoStash',
         \A b \in Lists : b # a /\ Open(b) /\ ListHeld(b) => ListHeld(b)',
         a \in Lists /\ Open(a) /\ u.ver = chain[a] => ListHeld(a)'
  PROVE  CFeed' /\ CRouter'
<1>1. a \in Accounts /\ Kind[a] = k
  BY ReceivesFeed
<1>2. a \notin Objects /\ router = "run"
  BY <1>1 DEF Objects, Receives
<1>3. CTyped'
  BY <1>2 DEF CRouter, CTyped
<1>4. Found'
  BY DEF CRouter, Found, FoundAt
<1>5. /\ watch \subseteq watch'
      /\ \A b \in Objects : b # a =>
            /\ b \in known' <=> b \in known
            /\ held'[b] = held[b] /\ made'[b] = made[b]
  OBVIOUS
<1>6. QED
  BY <1>2, <1>3, <1>4, <1>5, HandlerRouter

LEMMA ListRouter ==
  ASSUME RInv, CFeed, CRouter, on_bid \/ on_period PROVE CFeed' /\ CRouter'
<1>1. PICK k \in {"bidList", "periodRing"} :
        /\ Receives(k) /\ OnList(Head(stream[k]))
        /\ UNCHANGED <<router, closeC, blind, known, held, ref, indexed, made, watch>>
  BY DEF on_bid, on_period
<1>2. PICK u, a : u = Head(stream[k]) /\ a = u.id
  OBVIOUS
<1>3. /\ k \in Kinds /\ k \notin {"validator", "pipeline", "payout", "receipt", "staker"}
      /\ UNCHANGED chain
  BY <1>1 DEF Kinds, Receives
<1>4. a \in Accounts /\ Kind[a] = k /\ a \in Lists
  BY <1>1, <1>2, <1>3, HandledKind DEF Lists
<1>5. \/ /\ Referred(a) \subseteq known
         /\ delivered' = [delivered EXCEPT ![a] = u.ver] /\ UNCHANGED stashed
      \/ /\ ~(Referred(a) \subseteq known)
         /\ stashed' = [stashed EXCEPT ![a] = u.ver] /\ UNCHANGED delivered
  BY <1>1, <1>2 DEF OnList
<1>6. DOMAIN delivered = Lists /\ DOMAIN stashed = Lists /\ NoStash
  BY DEF CRouter, CTyped
<1>7. /\ DOMAIN delivered' = Lists /\ DOMAIN stashed' = Lists
      /\ \A b \in Lists : b # a => delivered'[b] = delivered[b] /\ stashed'[b] = stashed[b]
      /\ IF Referred(a) \subseteq known
         THEN delivered'[a] = u.ver /\ stashed'[a] = stashed[a] ELSE stashed'[a] = u.ver
  BY <1>4, <1>5, <1>6
<1>8. NoStash'
  BY <1>1, <1>6, <1>7 DEF NoStash
<1>9. /\ \A b \in Lists : b # a /\ Open(b) /\ ListHeld(b) => ListHeld(b)'
      /\ a \in Lists /\ Open(a) /\ u.ver = chain[a] => ListHeld(a)'
  BY <1>1, <1>3, <1>7 DEF ListHeld
<1>10. QED
  BY <1>1, <1>2, <1>3, <1>7, <1>8, <1>9, ObjectsLeft

LEMMA OtherRouter ==
  ASSUME RInv, CFeed, CRouter, on_stake_receipt \/ on_refund PROVE CFeed' /\ CRouter'
<1>1. PICK k \in {"stakerReceipt", "refund"} :
        /\ Receives(k)
        /\ UNCHANGED <<router, closeC, blind, known, held, ref, indexed, made, watch,
                       delivered, stashed>>
  BY DEF on_stake_receipt, on_refund, routerVars
<1>2. PICK u, a : u = Head(stream[k]) /\ a = u.id
  OBVIOUS
<1>3. /\ k \in Kinds /\ k \notin {"validator", "pipeline", "payout", "receipt", "staker"}
      /\ UNCHANGED chain
  BY <1>1 DEF Kinds, Receives
<1>4. a \notin Lists
  BY <1>1, <1>2, <1>3, HandledKind DEF Lists
<1>5. DOMAIN delivered' = Lists /\ DOMAIN stashed' = Lists /\ NoStash'
  BY <1>1 DEF CRouter, CTyped, NoStash
<1>6. \A b \in Lists : b # a /\ Open(b) /\ ListHeld(b) => ListHeld(b)'
  BY <1>1, <1>3 DEF ListHeld
<1>7. QED
  BY <1>1, <1>2, <1>3, <1>4, <1>5, <1>6, ObjectsLeft

\* The close cases of the select.
LEMMA CloseRouter ==
  ASSUME RInv, CFeed, CRouter, NEW k \in Kinds, ReceiveClose(k)
  PROVE  CFeed' /\ CRouter'
<1>1. PICK q, t, a : q = closeC[k] /\ t = Tail(q) /\ a = Head(q)
  OBVIOUS
<1>2. /\ q # <<>> /\ OnCloseC(a) /\ router = "run"
      /\ closeC' = [closeC EXCEPT ![k] = t]
      /\ UNCHANGED <<chain, wire, snapshot, boot, subs, stream, full, early, mute,
                     router, held, ref, delivered, stashed, made, watch, blind>>
  BY <1>1 DEF ReceiveClose, feedVars
<1>3. /\ q \in Seq(Gone) /\ q \in Seq(Accounts) /\ closeC \in [Kinds -> Seq(Accounts)]
  BY <1>1 DEF RInv, Honest
<1>4. a \in Gone
  <2>1. PICK S : S = Gone
    OBVIOUS
  <2>2. q \in Seq(S) /\ q # <<>> /\ a = Head(q)
    BY <1>1, <1>2, <1>3, <2>1
  <2>3. a \in S
    BY <2>2, TailTyped
  <2>4. QED
    BY <2>1, <2>3
<1>5. /\ known' = known \ {a}
      /\ \A b \in indexed : b # a => b \in indexed'
  BY <1>2 DEF OnCloseC, Drops
<1>6. CFeed'
  <2>1. Booted'
    BY <1>2 DEF CFeed, Booted, Subscribed, Open, About
  <2>2. QED
    BY <1>2, <2>1, FeedStands
<1>7. CTyped' /\ Muted'
  BY <1>2, <1>5 DEF CRouter, CTyped, Muted, Idle, About
<1>8. Found'
  BY <1>2, <1>5 DEF CRouter, Found, FoundAt
<1>9. /\ NoStash'
      /\ \A b \in Lists : Open(b) /\ ListHeld(b) => ListHeld(b)'
  BY <1>2, <1>4, <1>5, ListsWithout DEF RInv, CRouter
<1>10. Settled'
  <2>1. SUFFICES ASSUME NEW b \in Accounts \ early, Idle(b)
                 PROVE  /\ b \in Objects => SettledObject(b)'
                        /\ b \in Lists /\ chain[b] > snapshot[b] => ListHeld(b)'
    BY <1>2 DEF Settled, Idle, About
  <2>2. /\ b \in Objects => SettledObject(b)
        /\ b \in Lists /\ chain[b] > snapshot[b] => ListHeld(b)
    BY <1>2, <2>1 DEF CRouter, Settled
  <2>3. ~Open(a)
    BY <1>4 DEF Gone, Open, Closed
  <2>4. b \in Objects => SettledObject(b)'
    BY <1>2, <1>5, <2>2, <2>3 DEF SettledObject, Open
  <2>5. chain[b] > snapshot[b] => Open(b)
    <3>1. chain[b] \in {Closed} \cup Nat /\ snapshot[b] \in Nat
      BY <2>1 DEF RInv, Honest
    <3>2. QED
      BY <3>1 DEF Open, Closed
  <2>6. QED
    BY <1>9, <2>2, <2>4, <2>5
<1>11. Watched'
  <2>1. SUFFICES ASSUME NEW b \in known \ blind, b # a PROVE WatchedAt(b)'
    BY <1>2, <1>5 DEF Watched
  <2>2. WatchedAt(b)
    BY <2>1 DEF CRouter, Watched
  <2>3. CASE \E s \in {"start", "on", "zero"} : <<b, made[b], s>> \in watch
    BY <1>2, <2>3 DEF WatchedAt
  <2>4. CASE \E i \in DOMAIN closeC[Kind[b]] : closeC[Kind[b]][i] = b
    <3>0. PICK j : j = Kind[b]
      OBVIOUS
    <3>1. PICK i \in DOMAIN closeC[j] : closeC[j][i] = b
      BY <2>4, <3>0
    <3>2. CASE j # k
      <4>1. closeC'[j] = closeC[j]
        BY <1>2, <1>3, <3>2
      <4>2. QED
        BY <3>0, <3>1, <4>1 DEF WatchedAt
    <3>3. CASE j = k
      <4>1. i \in DOMAIN q /\ q[i] = b /\ q[1] = a
        BY <1>1, <1>2, <1>3, <3>1, <3>3
      <4>2. i \in 1 .. Len(q) /\ i # 1
        BY <1>3, <2>1, <4>1
      <4>3. i - 1 \in DOMAIN t /\ t[i - 1] = b
        BY <1>1, <1>2, <1>3, <4>1, <4>2
      <4>4. closeC'[Kind[b]] = t
        BY <1>2, <1>3, <3>0, <3>3
      <4>5. QED
        BY <4>3, <4>4 DEF WatchedAt
    <3>4. QED
      BY <3>2, <3>3
  <2>5. QED
    BY <2>2, <2>3, <2>4 DEF WatchedAt
<1>12. QED
  BY <1>6, <1>7, <1>8, <1>9, <1>10, <1>11 DEF CRouter

\* Steps that only touch the watchers and the closings they report.
LEMMA WatchedStands ==
  ASSUME CFeed, CRouter, Watched',
         UNCHANGED <<chain, wire, snapshot, boot, subs, stream, full, early, mute, router,
                     known, held, ref, indexed, delivered, stashed, made>>
  PROVE  CFeed' /\ CRouter'
<1>1. Booted'
  BY DEF CFeed, Booted, Subscribed, Open, About
<1>2. CFeed'
  BY <1>1, FeedStands
<1>3. CTyped' /\ Muted' /\ NoStash'
  BY DEF CRouter, CTyped, Muted, Idle, About, NoStash
<1>4. Found'
  BY DEF CRouter, Found, FoundAt
<1>5. Settled'
  BY DEF CRouter, Settled, Idle, About, SettledObject, ListHeld, Open
<1>6. QED
  BY <1>2, <1>3, <1>4, <1>5 DEF CRouter

\* The loopDelete of the router's object ends by reporting the closing,
\* unless it is blind.
LEMMA WatchRouter ==
  ASSUME RInv, CFeed, CRouter, Watchers PROVE CFeed' /\ CRouter'
<1>1. PICK v \in watch : \/ WatchStart(v[1], v[2]) \/ WatchZero(v[1], v[2])
                         \/ WatchSend(v[1], v[2]) \/ WatchQuit(v[1], v[2], v[3])
  BY DEF Watchers
<1>2. PICK a, n, s : a = v[1] /\ n = v[2] /\ s = v[3] /\ a \in Accounts
  BY DEF RInv, Honest
<1>3. /\ UNCHANGED <<chain, wire, snapshot, boot, subs, stream, full, early, mute,
                     router, known, held, ref, indexed, delivered, stashed, made>>
      /\ blind \subseteq blind'
  BY <1>1 DEF WatchStart, WatchZero, WatchSend, WatchQuit, feedVars
<1>4. ASSUME NEW b \in known \ blind' PROVE WatchedAt(b)'
  <2>0. PICK m : m = made[b]
    OBVIOUS
  <2>1. WatchedAt(b) /\ made'[b] = m
    BY <1>3, <1>4, <2>0 DEF CRouter, Watched
  <2>2. CASE WatchStart(a, n)
    <3>1. /\ watch' = (watch \ {<<a, n, "start">>})
                        \cup (IF Open(a) THEN {<<a, n, "on">>} ELSE {})
          /\ blind' = IF Open(a) THEN blind ELSE blind \cup Current(a, n)
          /\ UNCHANGED closeC
      BY <2>2 DEF WatchStart
    <3>2. CASE b = a /\ n = m
      <4>1. Open(a)
        BY <1>4, <2>0, <3>1, <3>2 DEF Current
      <4>2. <<b, m, "on">> \in watch'
        BY <3>1, <3>2, <4>1
      <4>3. QED
        BY <2>1, <4>2 DEF WatchedAt
    <3>3. CASE ~(b = a /\ n = m)
      <4>1. \A x : <<b, m, x>> \in watch => <<b, m, x>> \in watch'
        BY <3>1, <3>3
      <4>2. QED
        BY <2>0, <2>1, <3>1, <4>1 DEF WatchedAt
    <3>4. QED
      BY <3>2, <3>3
  <2>3. CASE WatchZero(a, n)
    <3>1. /\ watch' = (watch \ {<<a, n, "on">>}) \cup {<<a, n, "zero">>}
          /\ UNCHANGED closeC
      BY <2>3 DEF WatchZero
    <3>2. CASE b = a /\ n = m
      BY <2>1, <3>1, <3>2 DEF WatchedAt
    <3>3. CASE ~(b = a /\ n = m)
      <4>1. \A x : <<b, m, x>> \in watch => <<b, m, x>> \in watch'
        BY <3>1, <3>3
      <4>2. QED
        BY <2>0, <2>1, <3>1, <4>1 DEF WatchedAt
    <3>4. QED
      BY <3>2, <3>3
  <2>4. CASE WatchSend(a, n)
    <3>1. /\ closeC[Kind[a]] = <<>>
          /\ closeC' = [closeC EXCEPT ![Kind[a]] = <<a>>]
          /\ watch' = watch \ {<<a, n, "zero">>}
      BY <2>4 DEF WatchSend
    <3>2. Kind[a] \in Kinds /\ DOMAIN closeC = Kinds
      BY <1>2, FeedAssumption DEF RInv, Honest
    <3>3. /\ closeC'[Kind[a]] = <<a>>
          /\ Kind[b] # Kind[a] => closeC'[Kind[b]] = closeC[Kind[b]]
      BY <3>1, <3>2
    <3>4. CASE b = a /\ n = m
      <4>1. 1 \in DOMAIN <<a>> /\ <<a>>[1] = b
        BY <3>4
      <4>2. QED
        BY <3>3, <3>4, <4>1 DEF WatchedAt
    <3>5. CASE ~(b = a /\ n = m)
      <4>1. \A x : <<b, m, x>> \in watch => <<b, m, x>> \in watch'
        BY <3>1, <3>5
      <4>2. CASE \E x \in {"start", "on", "zero"} : <<b, m, x>> \in watch
        BY <2>1, <4>1, <4>2 DEF WatchedAt
      <4>3. CASE \E i \in DOMAIN closeC[Kind[b]] : closeC[Kind[b]][i] = b
        <5>1. Kind[b] # Kind[a]
          BY <3>1, <4>3
        <5>2. QED
          BY <3>3, <4>3, <5>1 DEF WatchedAt
      <4>4. QED
        BY <2>0, <2>1, <4>2, <4>3 DEF WatchedAt
    <3>6. QED
      BY <3>4, <3>5
  <2>5. CASE WatchQuit(a, n, s)
    <3>1. /\ blind' = blind \cup Current(a, n)
          /\ watch' = watch \ {<<a, n, s>>} /\ UNCHANGED closeC
      BY <1>4, <2>5 DEF WatchQuit
    <3>2. ~(b = a /\ n = m)
      BY <1>4, <2>0, <3>1 DEF Current
    <3>3. \A x : <<b, m, x>> \in watch => <<b, m, x>> \in watch'
      BY <3>1, <3>2
    <3>4. QED
      BY <2>0, <2>1, <3>1, <3>3 DEF WatchedAt
  <2>6. QED
    BY <1>1, <1>2, <2>2, <2>3, <2>4, <2>5
<1>5. Watched'
  BY <1>3, <1>4 DEF Watched
<1>6. QED
  BY <1>3, <1>5, WatchedStands

\* init takes the snapshot over.
LEMMA InitRouter ==
  ASSUME RInv, CFeed, CRouter, init PROVE CFeed' /\ CRouter'
<1>1. /\ boot = "ready" /\ router = "off" /\ boot' = "run" /\ router' = "run"
      /\ known' = {a \in Objects : snapshot[a] > 0}
      /\ held' = snapshot /\ ref' = snapshot
      /\ indexed' = Snapped("payout") \cup Snapped("validator") \cup Snapped("staker")
      /\ made' = [a \in Objects |-> IF a \in known' THEN 1 ELSE 0]
      /\ watch' = {<<a, 1, "start">> : a \in known'}
      /\ UNCHANGED <<chain, wire, snapshot, subs, stream, full, early, mute,
                     delivered, stashed, closeC>>
  BY DEF init
<1>2. /\ chain \in [Accounts -> {Closed} \cup Nat] /\ snapshot \in [Accounts -> Nat]
      /\ \A a \in Accounts \ early : snapshot[a] = IF Open(a) THEN chain[a] ELSE 0
      /\ \A b \in Lists : stashed[b] = 0
      /\ DOMAIN delivered = Lists /\ DOMAIN stashed = Lists
  BY <1>1 DEF RInv, Honest, CFeed, Booted, CRouter, CTyped
<1>3. CFeed'
  <2>1. Booted'
    BY <1>1 DEF CFeed, Booted, Subscribed, Open, About
  <2>2. QED
    BY <1>1, <2>1, FeedStands
<1>4. CTyped' /\ NoStash'
  BY <1>1, <1>2 DEF CTyped, NoStash
<1>5. Found'
  BY <1>1, <1>2 DEF Found, FoundAt, Snapped, OfKind, Objects
<1>6. Settled'
  <2>1. SUFFICES ASSUME NEW b \in Accounts \ early
                 PROVE  /\ b \in Objects => SettledObject(b)'
                        /\ b \in Lists => ~(chain[b] > snapshot[b])
    BY <1>1 DEF Settled
  <2>2. /\ chain[b] \in {Closed} \cup Nat
        /\ snapshot[b] = IF chain[b] > 0 THEN chain[b] ELSE 0
    BY <1>2, <2>1 DEF Open
  <2>3. ~(chain[b] > snapshot[b])
    BY <2>2 DEF Closed
  <2>4. b \in Objects => (b \in known' <=> chain[b] > 0) /\ held'[b] = snapshot[b]
    BY <1>1, <2>2 DEF Closed
  <2>5. b \in Objects => SettledObject(b)'
    BY <1>1, <2>2, <2>4 DEF SettledObject, Open, Closed
  <2>6. QED
    BY <2>3, <2>5
<1>7. Watched' /\ Muted'
  <2>1. \A a \in known' : <<a, made'[a], "start">> \in watch'
    BY <1>1
  <2>2. Watched'
    BY <2>1 DEF Watched, WatchedAt
  <2>3. Muted'
    BY <1>1 DEF CRouter, Muted, Idle, About
  <2>4. QED
    BY <2>2, <2>3
<1>8. QED
  BY <1>3, <1>4, <1>5, <1>6, <1>7 DEF CRouter

LEMMA EndsRouter ==
  ASSUME CFeed, CRouter, RouterEnds PROVE CFeed' /\ CRouter'
<1>1. /\ router = "run" /\ router' = "dead"
      /\ UNCHANGED <<chain, wire, snapshot, boot, subs, stream, full, early, mute,
                     known, held, ref, indexed, delivered, stashed, made, watch,
                     closeC, blind>>
  BY DEF RouterEnds, feedVars
<1>2. Booted'
  BY <1>1 DEF CFeed, Booted, Subscribed, Open, About
<1>3. CFeed'
  BY <1>1, <1>2, FeedStands
<1>4. CTyped' /\ NoStash' /\ Settled'
  BY <1>1 DEF CRouter, CTyped, NoStash, Settled
<1>5. Found' /\ Watched' /\ Muted'
  BY <1>1 DEF CRouter, Found, FoundAt, Watched, WatchedAt, Muted, Idle, About
<1>6. QED
  BY <1>3, <1>4, <1>5 DEF CRouter

LEMMA InitCInv == Init => CInv
<1> SUFFICES ASSUME Init PROVE CInv
  OBVIOUS
<1>1. /\ wire = <<>> /\ boot = "ws" /\ subs = 0 /\ stream = [k \in Kinds |-> <<>>]
      /\ router = "off" /\ known = {}
      /\ held = [a \in Accounts |-> 0] /\ ref = [a \in Accounts |-> 0]
      /\ delivered = [a \in Lists |-> 0] /\ stashed = [a \in Lists |-> 0]
      /\ made = [a \in Objects |-> 0]
  BY DEF Init, FeedInit
<1>2. /\ ~\E a : About(wire, a)
      /\ \A k \in Kinds : stream[k] = <<>>
      /\ \A a \in Accounts : ~About(stream[Kind[a]], a)
  BY <1>1, FeedAssumption DEF About
<1>3. CFeed
  BY <1>1, <1>2 DEF CFeed, WireLatest, StreamLatest, Booted, Objects
<1>4. \A a \in Objects : chain[a] # Closed
  BY DEF Init, FeedInit, Objects, Closed
<1>5. CRouter
  BY <1>1, <1>4 DEF CRouter, CTyped, NoStash, Found, Settled, Muted, Watched
<1>6. QED
  BY <1>3, <1>5, InitRInv DEF CInv

LEMMA NextCInv == CInv /\ [Next]_vars => CInv'
<1> SUFFICES ASSUME CInv, [Next]_vars PROVE CInv'
  OBVIOUS
<1>0. RInv /\ CFeed /\ CRouter /\ RInv'
  BY NextRInv DEF CInv
<1>1. CASE FeedNext /\ UNCHANGED routerVars
  <2>1. CASE \E a \in Accounts : ChainCreate(a) \/ ChainUpdate(a) \/ ChainClose(a)
    BY <1>0, <1>1, <2>1, ChainRouter DEF CInv
  <2>2. CASE FetchProgramAll \/ FetchFails \/ Subscribe \/ FeedError
    BY <1>0, <1>1, <2>2, BootRouter DEF CInv
  <2>3. CASE FeedStep
    BY <1>0, <1>1, <2>3, FeedStepRouter DEF CInv
  <2>4. QED
    BY <1>1, <2>1, <2>2, <2>3 DEF FeedNext
<1>2. CASE init
  BY <1>0, <1>2, InitRouter DEF CInv
<1>3. CASE Loop
  <2>1. CASE on_payout
    BY <1>0, <2>1, PayoutRouter DEF CInv
  <2>2. CASE on_pipeline
    BY <1>0, <2>2, PipelineRouter DEF CInv
  <2>3. CASE on_receipt
    BY <1>0, <2>3, ReceiptRouter DEF CInv
  <2>4. CASE on_validator
    BY <1>0, <2>4, ValidatorRouter DEF CInv
  <2>5. CASE on_stake
    BY <1>0, <2>5, StakeRouter DEF CInv
  <2>6. CASE on_bid \/ on_period
    BY <1>0, <2>6, ListRouter DEF CInv
  <2>7. CASE on_stake_receipt \/ on_refund
    BY <1>0, <2>7, OtherRouter DEF CInv
  <2>8. CASE \E k \in Kinds : ReceiveClose(k)
    BY <1>0, <2>8, CloseRouter DEF CInv
  <2>9. CASE RouterEnds
    BY <1>0, <2>9, EndsRouter DEF CInv
  <2>10. QED
    BY <1>3, <2>1, <2>2, <2>3, <2>4, <2>5, <2>6, <2>7, <2>8, <2>9 DEF Loop
<1>4. CASE Watchers
  BY <1>0, <1>4, WatchRouter DEF CInv
<1>5. CASE UNCHANGED vars
  <2>1. UNCHANGED <<chain, wire, snapshot, boot, subs, tracking, feed, stream, full,
                    early, mute, router, known, held, ref, indexed, delivered, stashed,
                    made, watch, closeC, blind>>
    BY <1>5 DEF vars, feedVars, routerVars
  <2>2. Watched'
    BY <1>0, <2>1 DEF CRouter, Watched, WatchedAt
  <2>3. QED
    BY <1>0, <2>1, <2>2, WatchedStands DEF CInv
<1>6. QED
  BY <1>1, <1>2, <1>3, <1>4, <1>5 DEF Next

\* The messages under way tell the truth, and what is settled in the router
\* is what they said.
THEOREM Convergence == Spec => []CInv
  BY InitCInv, NextCInv, PTL DEF Spec

\* Whenever nothing is under way, and whatever overtook what on the way to
\* that state, every open account has its object under each of its keys, with
\* the latest data of a payout, receipt or staker; an object of a closed
\* account is left only if the feed was mute about the closing and its
\* loopDelete blind; and every bid list and period ring that changed was
\* handed to its owner in its latest version.  An account whose last change
\* fell between the snapshot and the start of the router is excepted.
THEOREM RouterConverges == Spec => []RouterConverged
<1>1. ASSUME CInv, Quiet PROVE \A a \in Accounts : Idle(a)
  <2>1. /\ wire = <<>> /\ full = {} /\ \A k \in Kinds : stream[k] = <<>>
    BY <1>1 DEF Quiet
  <2>2. \A a \in Accounts : Kind[a] \in Kinds
    BY FeedAssumption
  <2>3. QED
    BY <2>1, <2>2 DEF Idle, About
<1>2. ASSUME CInv, Quiet, NEW a \in Objects
      PROVE  /\ Open(a) /\ a \notin early =>
                  /\ a \in known /\ Absent \notin LookUps(a)
                  /\ Kind[a] \in {"payout", "receipt", "staker"} => held[a] = chain[a]
             /\ a \in known => Open(a) \/ a \in blind \cap mute
  <2>1. a \in Accounts /\ Idle(a) /\ router = "run"
    BY <1>1, <1>2 DEF Objects, Quiet
  <2>2. a \notin early => SettledObject(a)
    BY <1>2, <2>1 DEF CInv, CRouter, Settled
  <2>3. ASSUME a \in known, ~Open(a) PROVE a \in blind \cap mute
    <3>1. chain[a] \in {Closed} \cup Nat /\ chain[a] # 0
      BY <1>2, <2>1, <2>3 DEF CInv, RInv, Honest
    <3>2. chain[a] = Closed
      BY <2>3, <3>1 DEF Open
    <3>3. a \in mute
      BY <1>2, <2>1, <2>3, <3>2 DEF CInv, CRouter, Muted
    <3>4. ASSUME a \notin blind PROVE FALSE
      <4>1. WatchedAt(a)
        BY <1>2, <2>3, <3>4 DEF CInv, CRouter, Watched
      <4>2. closeC[Kind[a]] = <<>>
        BY <1>2, <2>1, FeedAssumption DEF Quiet
      <4>3. PICK q, m : q = closeC[Kind[a]] /\ m = made[a]
        OBVIOUS
      <4>4. ~\E i \in DOMAIN q : q[i] = a
        BY <4>2, <4>3
      <4>5. PICK s \in {"start", "on", "zero"} : <<a, m, s>> \in watch
        BY <4>1, <4>3, <4>4 DEF WatchedAt
      <4>6. PICK w \in watch : w = <<a, m, s>>
        BY <4>5
      <4>7. Open(w[1]) /\ w[1] = a
        BY <1>2, <4>6 DEF Quiet
      <4>8. QED
        BY <2>3, <4>7
    <3>5. QED
      BY <3>3, <3>4
  <2>4. ASSUME Open(a), a \notin early
        PROVE  /\ a \in known /\ Absent \notin LookUps(a)
               /\ Kind[a] \in {"payout", "receipt", "staker"} => held[a] = chain[a]
    <3>1. /\ a \in known
          /\ Kind[a] \in {"payout", "receipt", "staker"} => held[a] = chain[a]
      BY <2>2, <2>4 DEF SettledObject
    <3>2. FoundAt(a)
      BY <1>2, <3>1 DEF CInv, CRouter, Found
    <3>3. Absent \notin LookUps(a)
      BY <3>1, <3>2 DEF FoundAt, LookUps, Absent, PayoutById, PayoutByPipelineIdAndStart,
                  PipelineById, ValidatorById, ValidatorByVote, StakerByStake, ReceiptById
    <3>4. QED
      BY <3>1, <3>3
  <2>5. QED
    BY <2>3, <2>4
<1>3. ASSUME CInv, Quiet, NEW b \in Lists \ early, chain[b] > snapshot[b],
             Referred(b) \subseteq known
      PROVE  delivered[b] = chain[b]
  <2>1. b \in Accounts /\ Idle(b) /\ router = "run"
    BY <1>1, <1>3 DEF Lists, Quiet
  <2>2. ListHeld(b)
    BY <1>3, <2>1 DEF CInv, CRouter, Settled
  <2>3. QED
    BY <1>3, <2>2 DEF ListHeld
<1>4. CInv => RouterConverged
  BY <1>2, <1>3 DEF RouterConverged, Converged, ListsDelivered
<1>5. QED
  BY <1>4, Convergence, PTL

-----------------------------------------------------------------------------
(* The types of the router's variables.  What is not already part of the   *)
(* invariant above: a closing never reaches a bid list or a period ring,   *)
(* so that the versions handed on are those of an account; and a closeC    *)
(* channel holds objects of its own type.                                  *)

OpenNews == {u \in News : u.ver # Closed}
ObjectsOf(k) == {a \in Objects : Kind[a] = k}
Watches == Objects \X (Nat \ {0}) \X {"start", "on", "zero"}

BootTyped ==
    /\ boot \in {"ws", "fetched", "ready", "run", "failed"}
    /\ subs \in 0 .. 9 /\ (boot = "ws" => subs = 0) /\ (boot = "fetched" => subs < 9)

FeedSets ==
    /\ changes \in 0 .. MaxChange
    /\ tracking \subseteq Accounts /\ feed \in {"run", "dead"}
    /\ full \subseteq Kinds /\ early \subseteq Accounts /\ mute \subseteq Accounts

ListNews == \A k \in {"bidList", "periodRing"} : stream[k] \in Seq(OpenNews)

FeedTyped == BootTyped /\ FeedSets /\ ListNews

LinksTyped == /\ links \subseteq Accounts \X Accounts
              /\ waiting \subseteq (Accounts \cup {ZeroKey}) \X Accounts

VersionsTyped == held \in [Accounts -> Nat] /\ ref \in [Accounts -> Nat]
ListsTyped == delivered \in [Lists -> Nat] /\ stashed \in [Lists -> Nat]
ObjectsTyped == indexed \subseteq Objects /\ watch \subseteq Watches
ClosesTyped == \A k \in Kinds : closeC[k] \in Seq(ObjectsOf(k))

HeldTyped == /\ router \in {"off", "run", "dead"} /\ blind \subseteq Objects
             /\ VersionsTyped /\ ListsTyped /\ ObjectsTyped /\ ClosesTyped

TInv == FeedTyped /\ LinksTyped /\ HeldTyped

LEMMA TInvTells == CInv /\ TInv => TypeOK
<1> SUFFICES ASSUME CInv, TInv PROVE TypeOK
  OBVIOUS
<1>1. /\ chain \in [Accounts -> {Closed} \cup Nat] /\ snapshot \in [Accounts -> Nat]
      /\ wire \in Seq(Legit) /\ stream \in [Kinds -> Seq(News)]
      /\ closeC \in [Kinds -> Seq(Accounts)]
      /\ known \subseteq Objects /\ made \in [Objects -> Nat]
  BY DEF CInv, RInv, Honest, CRouter, CTyped
<1>2. FeedTyped /\ LinksTyped /\ HeldTyped
  BY DEF TInv
<1>3. News = Update
  BY DEF News, Update
<1>4. wire \in Seq(Update)
  <2>1. Legit \subseteq News
    BY DEF Legit
  <2>2. wire \in Seq(News)
    BY <1>1, <2>1, SeqMonotone
  <2>3. QED
    BY <1>3, <2>2
<1>5. Len(SubOrder) = 9
  BY DEF SubOrder
<1>6. FeedTypeOK
  BY <1>1, <1>2, <1>3, <1>4, <1>5 DEF FeedTypeOK, FeedTyped, BootTyped, FeedSets
<1>7. ASSUME NEW k \in Kinds
      PROVE  /\ closeC[k] \in Seq(Objects)
             /\ \A i \in DOMAIN closeC[k] : Kind[closeC[k][i]] = k
  <2>1. PICK q, S : q = closeC[k] /\ S = ObjectsOf(k)
    OBVIOUS
  <2>2. q \in Seq(S) /\ S \subseteq Objects
    BY <1>2, <2>1 DEF HeldTyped, ClosesTyped, ObjectsOf
  <2>3. q \in Seq(Objects)
    BY <2>2, SeqMonotone
  <2>4. \A i \in DOMAIN q : q[i] \in S
    BY <2>2, ElementOfSeq, LenProperties
  <2>5. QED
    BY <2>1, <2>3, <2>4 DEF ObjectsOf
<1>8. closeC \in [Kinds -> Seq(Objects)]
  BY <1>1, <1>7
<1>9. watch \subseteq Objects \X (Nat \ {0}) \X {"start", "on", "zero"}
  BY <1>2 DEF HeldTyped, ObjectsTyped, Watches
<1>10. QED
  BY <1>1, <1>2, <1>6, <1>7, <1>8, <1>9
     DEF TypeOK, LinksTyped, HeldTyped, VersionsTyped, ListsTyped, ObjectsTyped

LEMMA InitTInv == Init => TInv
<1> SUFFICES ASSUME Init PROVE TInv
  OBVIOUS
<1>1. FeedInit
  BY DEF Init
<1>2. /\ changes = 0 /\ boot = "ws" /\ subs = 0 /\ tracking = {} /\ feed = "run"
      /\ full = {} /\ early = {} /\ mute = {} /\ stream = [k \in Kinds |-> <<>>]
  BY <1>1 DEF FeedInit
<1>3. <<>> \in Seq(OpenNews)
  OBVIOUS
<1>4. "bidList" \in Kinds /\ "periodRing" \in Kinds
  BY DEF Kinds
<1>5. FeedTyped
  BY <1>2, <1>3, <1>4, FeedAssumption DEF FeedTyped, BootTyped, FeedSets, ListNews
<1>6. LinksTyped
  BY DEF Init, LinksTyped
<1>7. ClosesTyped
  BY DEF Init, ClosesTyped
<1>8. HeldTyped
  BY <1>7 DEF Init, HeldTyped, VersionsTyped, ListsTyped, ObjectsTyped
<1>9. QED
  BY <1>5, <1>6, <1>8 DEF TInv

\* The feed.
LEMMA FeedTypes ==
  ASSUME CInv, TInv, FeedNext, UNCHANGED routerVars
  PROVE  TInv'
<1>1. LinksTyped' /\ HeldTyped'
  BY DEF TInv, LinksTyped, HeldTyped, VersionsTyped, ListsTyped, ObjectsTyped,
         ClosesTyped, routerVars
<1>2. BootTyped /\ FeedSets /\ ListNews
  BY DEF TInv, FeedTyped
<1>3. ASSUME NEW a \in Accounts, ChainCreate(a) \/ ChainUpdate(a) \/ ChainClose(a)
      PROVE  FeedTyped'
  <2>1. PICK v : ChainSet(a, v)
    BY <1>3 DEF ChainCreate, ChainUpdate, ChainClose
  <2>2. changes' \in 0 .. MaxChange
    BY <1>2, <2>1, FeedAssumption DEF ChainSet, FeedSets
  <2>3. /\ early' \subseteq Accounts
        /\ UNCHANGED <<boot, subs, tracking, feed, full, stream, mute>>
    BY <1>2, <2>1 DEF ChainSet, FeedSets
  <2>4. FeedSets'
    BY <1>2, <2>2, <2>3 DEF FeedSets
  <2>5. BootTyped' /\ ListNews'
    BY <1>2, <2>3 DEF BootTyped, ListNews
  <2>6. QED
    BY <2>4, <2>5 DEF FeedTyped
<1>4. CASE FetchProgramAll \/ FetchFails \/ FeedError
  <2>1. UNCHANGED <<changes, subs, tracking, stream, full, early, mute>>
    BY <1>4 DEF FetchProgramAll, FetchFails, FeedError
  <2>2. feed' \in {"run", "dead"}
    BY <1>2, <1>4 DEF FetchProgramAll, FetchFails, FeedError, FeedSets
  <2>3. FeedSets' /\ ListNews'
    BY <1>2, <2>1, <2>2 DEF FeedSets, ListNews
  <2>4. \/ boot = "ws" /\ boot' \in {"fetched", "failed"}
        \/ boot' = boot
    BY <1>4 DEF FetchProgramAll, FetchFails, FeedError
  <2>5. BootTyped'
    BY <1>2, <2>1, <2>4 DEF BootTyped
  <2>6. QED
    BY <1>1, <2>3, <2>5 DEF FeedTyped, TInv
<1>5. CASE Subscribe
  <2>1. Len(SubOrder) = 9
    BY DEF SubOrder
  <2>2. /\ boot = "fetched" /\ subs' = subs + 1
        /\ boot' = (IF subs' = 9 THEN "ready" ELSE boot)
        /\ UNCHANGED <<changes, tracking, feed, stream, full, early, mute>>
    BY <1>5, <2>1 DEF Subscribe
  <2>3. BootTyped'
    BY <1>2, <2>2 DEF BootTyped
  <2>4. FeedSets' /\ ListNews'
    BY <1>2, <2>2 DEF FeedSets, ListNews
  <2>5. QED
    BY <1>1, <2>3, <2>4 DEF FeedTyped, TInv
<1>6. CASE FeedStep
  <2>1. PICK u : u = Head(wire)
    OBVIOUS
  <2>2. wire # <<>> /\ wire \in Seq(Legit)
    BY <1>6 DEF FeedStep, CInv, RInv, Honest
  <2>3. u \in Legit
    BY <2>1, <2>2, TailTyped
  <2>4. u \in News /\ u.id \in Accounts /\ Kind[u.id] \in Kinds
    BY <2>3, FeedAssumption DEF Legit, News
  <2>5. /\ UNCHANGED <<changes, boot, subs, feed, early>>
        /\ FeedOpen(u) \/ FeedClose(u)
    BY <1>6, <2>1 DEF FeedStep
  <2>6. tracking' \subseteq Accounts /\ mute' \subseteq Accounts
    BY <1>2, <2>4, <2>5 DEF FeedSets, FeedOpen, FeedClose
  <2>7. full' \subseteq Kinds
    BY <1>2, <2>4, <2>5 DEF FeedSets, FeedOpen, FeedClose, Broadcast
  <2>8. ListNews'
    <3>1. CASE UNCHANGED stream
      BY <1>2, <3>1 DEF ListNews
    <3>2. CASE stream' = [stream EXCEPT ![Kind[u.id]] = Append(@, u)]
      <4>1. ASSUME NEW k \in {"bidList", "periodRing"} PROVE stream'[k] \in Seq(OpenNews)
        <5>1. stream[k] \in Seq(OpenNews) /\ k \in Kinds /\ stream \in [Kinds -> Seq(News)]
          BY <1>2 DEF ListNews, Kinds, CInv, RInv, Honest
        <5>2. CASE k # Kind[u.id]
          BY <2>4, <3>2, <5>1, <5>2
        <5>3. CASE k = Kind[u.id]
          <6>1. u \in OpenNews
            <7>1. CASE FeedOpen(u)
              BY <2>4, <7>1 DEF FeedOpen, OpenNews
            <7>2. CASE FeedClose(u)
              <8>1. UNCHANGED stream
                BY <5>3, <7>2 DEF FeedClose
              <8>2. stream'[k] = Append(stream[k], u) /\ stream'[k] = stream[k]
                BY <3>2, <5>1, <5>3, <8>1
              <8>3. PICK q : q = stream[k]
                OBVIOUS
              <8>4. q \in Seq(News) /\ q = Append(q, u)
                BY <5>1, <8>2, <8>3
              <8>5. Len(q) \in Nat /\ Len(q) = Len(q) + 1
                BY <2>4, <8>4, AppendTyped
              <8>6. QED
                BY <8>5
            <7>3. QED
              BY <2>5, <7>1, <7>2
          <6>2. PICK q, t : q = stream[k] /\ t = Append(q, u)
            OBVIOUS
          <6>3. t \in Seq(OpenNews)
            BY <5>1, <6>1, <6>2, AppendTyped
          <6>4. stream'[k] = t
            BY <3>2, <5>1, <5>3, <6>2
          <6>5. QED
            BY <6>3, <6>4
        <5>4. QED
          BY <5>2, <5>3
      <4>2. QED
        BY <4>1 DEF ListNews
    <3>3. QED
      BY <2>5, <3>1, <3>2 DEF FeedOpen, FeedClose, Broadcast
  <2>9. BootTyped'
    BY <1>2, <2>5 DEF BootTyped
  <2>10. FeedSets'
    BY <1>2, <2>5, <2>6, <2>7 DEF FeedSets
  <2>11. QED
    BY <1>1, <2>8, <2>9, <2>10 DEF FeedTyped, TInv
<1>7. QED
  <2>1. CASE \E a \in Accounts : ChainCreate(a) \/ ChainUpdate(a) \/ ChainClose(a)
    <3>1. PICK a \in Accounts : ChainCreate(a) \/ ChainUpdate(a) \/ ChainClose(a)
      BY <2>1
    <3>2. QED
      BY <1>1, <1>3, <3>1 DEF TInv
  <2>2. QED
    BY <1>4, <1>5, <1>6, <2>1 DEF FeedNext

\* A case of the router's select takes one update from the feed.
LEMMA ReceivesTypes ==
  ASSUME Honest, FeedTyped, NEW k \in Kinds, Receives(k)
  PROVE  FeedTyped'
<1>1. /\ UNCHANGED <<changes, boot, subs, tracking, feed, full, early, mute>>
      /\ stream' = [stream EXCEPT ![k] = Tail(@)] /\ stream[k] # <<>>
      /\ stream \in [Kinds -> Seq(News)]
  BY DEF Receives, Honest
<1>2. BootTyped' /\ FeedSets'
  BY <1>1 DEF FeedTyped, BootTyped, FeedSets
<1>3. ASSUME NEW j \in {"bidList", "periodRing"} PROVE stream'[j] \in Seq(OpenNews)
  <2>1. PICK q : q = stream[j]
    OBVIOUS
  <2>2. q \in Seq(OpenNews) /\ j \in Kinds
    BY <2>1 DEF FeedTyped, ListNews, Kinds
  <2>3. CASE j # k
    BY <1>1, <2>1, <2>2, <2>3
  <2>4. CASE j = k
    <3>1. stream'[j] = Tail(q) /\ q # <<>>
      BY <1>1, <2>1, <2>2, <2>4
    <3>2. Tail(q) \in Seq(OpenNews)
      BY <2>2, <3>1, TailTyped
    <3>3. QED
      BY <3>1, <3>2
  <2>5. QED
    BY <2>3, <2>4
<1>4. ListNews'
  BY <1>3 DEF ListNews
<1>5. QED
  BY <1>2, <1>4 DEF FeedTyped

\* The pairs that the handlers add.
Pairs == Accounts \X Accounts
Entries == (Accounts \cup {ZeroKey}) \X Accounts

LEMMA NamesTyped == ASSUME NEW a, NEW k PROVE Names(a, k) \subseteq Accounts
  BY DEF Names, Referred

LEMMA WaitingTyped ==
  ASSUME LinksTyped, NEW a \in Accounts, NEW k
  PROVE  WaitingFor(a, k) \subseteq Pairs
  BY DEF WaitingFor, LinksTyped, Pairs

LEMMA OwnersTyped ==
  ASSUME NEW a \in Accounts, NEW owners \in SUBSET Accounts
  PROVE  TellOwners(a, owners) \subseteq Pairs /\ WaitOwners(a, owners) \subseteq Pairs
  BY DEF TellOwners, WaitOwners, Pairs

LEMMA ExtraTyped ==
  ASSUME NEW sr \in Accounts
  PROVE  Extra(sr).links \subseteq Pairs /\ Extra(sr).waiting \subseteq Entries
<1>1. PICK R : R = Names(sr, "receipt")
  OBVIOUS
<1>2. R \in SUBSET Accounts
  BY <1>1, NamesTyped
<1>3. TellOwners(sr, R) \subseteq Pairs
  BY <1>2, OwnersTyped
<1>4. Extra(sr) = [links |-> TellOwners(sr, R),
                   waiting |-> IF R \subseteq known THEN {} ELSE {<<ZeroKey, sr>>}]
  BY <1>1 DEF Extra
<1>5. <<ZeroKey, sr>> \in Entries
  BY DEF Entries
<1>6. QED
  BY <1>3, <1>4, <1>5

LEMMA HandlerTypes ==
  ASSUME CInv, TInv, NEW k \in Kinds, Receives(k), LinksTyped', VersionsTyped',
         ListsTyped', ObjectsTyped', UNCHANGED <<router, closeC, blind>>
  PROVE  TInv'
<1>1. FeedTyped'
  BY ReceivesTypes DEF CInv, RInv, TInv
<1>2. HeldTyped'
  BY DEF TInv, HeldTyped, ClosesTyped
<1>3. QED
  BY <1>1, <1>2 DEF TInv

LEMMA ClosedTypes ==
  ASSUME CInv, TInv, NEW k \in Kinds, Receives(k), NEW a, OnClosed(a),
         UNCHANGED <<router, closeC, blind>>
  PROVE  TInv'
<1>1. UNCHANGED <<held, ref, indexed, delivered, stashed, made, watch>>
  BY DEF OnClosed
<1>2. VersionsTyped' /\ ListsTyped' /\ ObjectsTyped'
  BY <1>1 DEF TInv, HeldTyped, VersionsTyped, ListsTyped, ObjectsTyped
<1>3. links' \subseteq links /\ waiting' \subseteq waiting
  BY DEF OnClosed, Drops
<1>4. LinksTyped'
  BY <1>3 DEF TInv, LinksTyped
<1>5. QED
  BY <1>2, <1>4, HandlerTypes

\* The update of an object's account.
LEMMA ObjectNews ==
  ASSUME CInv, NEW k \in {"validator", "pipeline", "payout", "receipt", "staker"},
         Receives(k), NEW u, u = Head(stream[k])
  PROVE  u.id \in Objects /\ u.id \in Accounts /\ (u.ver # Closed => u.ver \in Nat)
<1>1. k \in Kinds
  BY DEF Kinds
<1>2. u \in LegitOf(k)
  BY <1>1, ReceivesEffect DEF CInv, RInv
<1>3. QED
  BY <1>2 DEF LegitOf, Legit, News, Objects

LEMMA CreatedTyped ==
  ASSUME CInv, TInv, NEW a \in Objects,
         IF a \notin known THEN Creates(a) ELSE UNCHANGED <<known, made, watch>>
  PROVE  watch' \subseteq Watches
<1>1. watch \subseteq Watches /\ made[a] \in Nat
  BY DEF TInv, HeldTyped, ObjectsTyped, CInv, CRouter, CTyped
<1>2. PICK n : n = made[a] + 1
  OBVIOUS
<1>3. n \in Nat \ {0}
  BY <1>1, <1>2
<1>4. <<a, n, "start">> \in Watches
  BY <1>3 DEF Watches
<1>5. watch' \subseteq watch \cup {<<a, n, "start">>}
  BY <1>2 DEF Creates
<1>6. QED
  BY <1>1, <1>4, <1>5

LEMMA HandOverTyped ==
  ASSUME ListsTyped, NEW a, HandOver(a) PROVE ListsTyped'
  BY DEF HandOver, ListsTyped

LEMMA PayoutTypes == ASSUME CInv, TInv, on_payout PROVE TInv'
<1>1. PICK u : u = Head(stream["payout"])
  OBVIOUS
<1>2. /\ Receives("payout") /\ UNCHANGED <<router, closeC, blind>>
      /\ IF u.ver = Closed THEN OnClosed(u.id) ELSE OnPayoutOpen(u)
      /\ "payout" \in Kinds
  BY <1>1 DEF on_payout, Kinds
<1>3. u.id \in Objects /\ u.id \in Accounts /\ (u.ver # Closed => u.ver \in Nat)
  BY <1>1, <1>2, ObjectNews
<1>4. CASE u.ver = Closed
  BY <1>2, <1>4, ClosedTypes
<1>5. CASE u.ver # Closed
  <2>1. OnPayoutOpen(u)
    BY <1>2, <1>5
  <2>2. LinksTyped /\ VersionsTyped /\ ListsTyped /\ ObjectsTyped
    BY DEF TInv, HeldTyped
  <2>3. PICK a, v, O : a = u.id /\ v = u.ver /\ O = Names(a, "pipeline")
    OBVIOUS
  <2>4. a \in Objects /\ a \in Accounts /\ v \in Nat /\ O \in SUBSET Accounts
    BY <1>3, <1>5, <2>3, NamesTyped
  <2>5. /\ IF a \notin known THEN Creates(a) ELSE UNCHANGED <<known, made, watch>>
        /\ held' = [held EXCEPT ![a] = v]
        /\ ref' = IF a \notin known THEN [ref EXCEPT ![a] = v] ELSE ref
        /\ indexed' = IF a \notin known THEN indexed \cup {a} ELSE indexed
        /\ HandOver(a)
        /\ links' = links \cup WaitingFor(a, "receipt") \cup TellOwners(a, O)
        /\ waiting' = waiting \cup WaitOwners(a, O)
    BY <2>1, <2>3, Zenon DEF OnPayoutOpen
  <2>6. VersionsTyped'
    BY <2>2, <2>4, <2>5 DEF VersionsTyped
  <2>7. ListsTyped'
    BY <2>2, <2>5, HandOverTyped
  <2>8. ObjectsTyped'
    <3>1. watch' \subseteq Watches
      BY <2>4, <2>5, CreatedTyped
    <3>2. indexed' \subseteq Objects
      BY <2>2, <2>4, <2>5 DEF ObjectsTyped
    <3>3. QED
      BY <3>1, <3>2 DEF ObjectsTyped
  <2>9. LinksTyped'
    <3>1. WaitingFor(a, "receipt") \subseteq Pairs
      BY <2>2, <2>4, WaitingTyped
    <3>2. TellOwners(a, O) \subseteq Pairs /\ WaitOwners(a, O) \subseteq Pairs
      BY <2>4, OwnersTyped
    <3>3. Pairs \subseteq Entries
      BY DEF Pairs, Entries
    <3>4. links' \subseteq Pairs /\ waiting' \subseteq Entries
      BY <2>2, <2>5, <3>1, <3>2, <3>3 DEF LinksTyped, Pairs, Entries
    <3>5. QED
      BY <3>4 DEF LinksTyped, Pairs, Entries
  <2>10. QED
    BY <1>2, <2>6, <2>7, <2>8, <2>9, HandlerTypes
<1>6. QED
  BY <1>4, <1>5

\* Pairs are added on the way, and others go.
LEMMA LinksGrow ==
  ASSUME LinksTyped, NEW L \in SUBSET Pairs, NEW W \in SUBSET Entries,
         links' \subseteq links \cup L, waiting' \subseteq waiting \cup W
  PROVE  LinksTyped'
<1>1. links \subseteq Pairs /\ waiting \subseteq Entries
  BY DEF LinksTyped, Pairs, Entries
<1>2. links' \subseteq Pairs /\ waiting' \subseteq Entries
  BY <1>1
<1>3. QED
  BY <1>2 DEF LinksTyped, Pairs, Entries

LEMMA PairsAreEntries == Pairs \subseteq Entries
  BY DEF Pairs, Entries

LEMMA PipelineTypes == ASSUME CInv, TInv, on_pipeline PROVE TInv'
<1>1. PICK u : u = Head(stream["pipeline"])
  OBVIOUS
<1>2. /\ Receives("pipeline") /\ UNCHANGED <<router, closeC, blind>>
      /\ IF u.ver = Closed THEN OnClosed(u.id) ELSE OnPipelineOpen(u)
      /\ "pipeline" \in Kinds
  BY <1>1 DEF on_pipeline, Kinds
<1>3. u.id \in Objects /\ u.id \in Accounts /\ (u.ver # Closed => u.ver \in Nat)
  BY <1>1, <1>2, ObjectNews
<1>4. CASE u.ver = Closed
  BY <1>2, <1>4, ClosedTypes
<1>5. CASE u.ver # Closed
  <2>1. OnPipelineOpen(u)
    BY <1>2, <1>5
  <2>2. LinksTyped /\ VersionsTyped /\ ListsTyped /\ ObjectsTyped
    BY DEF TInv, HeldTyped
  <2>3. PICK a, v : a = u.id /\ v = u.ver
    OBVIOUS
  <2>4. a \in Objects /\ a \in Accounts /\ v \in Nat
    BY <1>3, <1>5, <2>3
  <2>5. /\ IF a \notin known THEN Creates(a) ELSE UNCHANGED <<known, made, watch>>
        /\ held' = IF a \notin known THEN [held EXCEPT ![a] = v] ELSE held
        /\ HandOver(a)
        /\ links' = links \cup WaitingFor(a, "payout")
        /\ waiting' = waiting \ WaitingFor(a, "payout")
        /\ UNCHANGED <<ref, indexed>>
    BY <2>1, <2>3, Zenon DEF OnPipelineOpen
  <2>6. VersionsTyped'
    BY <2>2, <2>4, <2>5 DEF VersionsTyped
  <2>7. ListsTyped'
    BY <2>2, <2>5, HandOverTyped
  <2>8. ObjectsTyped'
    <3>1. watch' \subseteq Watches
      BY <2>4, <2>5, CreatedTyped
    <3>2. QED
      BY <2>2, <2>5, <3>1 DEF ObjectsTyped
  <2>9. LinksTyped'
    <3>1. PICK L, W : L = WaitingFor(a, "payout") /\ W = {}
      OBVIOUS
    <3>2. L \in SUBSET Pairs /\ W \in SUBSET Entries
      BY <2>2, <2>4, <3>1, WaitingTyped
    <3>3. links' \subseteq links \cup L /\ waiting' \subseteq waiting \cup W
      BY <2>5, <3>1
    <3>4. QED
      BY <2>2, <3>2, <3>3, LinksGrow
  <2>10. QED
    BY <1>2, <2>6, <2>7, <2>8, <2>9, HandlerTypes
<1>6. QED
  BY <1>4, <1>5

LEMMA ReceiptTypes == ASSUME CInv, TInv, on_receipt PROVE TInv'
<1>1. PICK u : u = Head(stream["receipt"])
  OBVIOUS
<1>2. /\ Receives("receipt") /\ UNCHANGED <<router, closeC, blind>>
      /\ IF u.ver = Closed THEN OnClosed(u.id) ELSE OnReceiptOpen(u)
      /\ "receipt" \in Kinds
  BY <1>1 DEF on_receipt, Kinds
<1>3. u.id \in Objects /\ u.id \in Accounts /\ (u.ver # Closed => u.ver \in Nat)
  BY <1>1, <1>2, ObjectNews
<1>4. CASE u.ver = Closed
  BY <1>2, <1>4, ClosedTypes
<1>5. CASE u.ver # Closed
  <2>1. OnReceiptOpen(u)
    BY <1>2, <1>5
  <2>2. LinksTyped /\ VersionsTyped /\ ListsTyped /\ ObjectsTyped
    BY DEF TInv, HeldTyped
  <2>3. PICK a, v, O : /\ a = u.id /\ v = u.ver
                       /\ O = Names(a, "payout") \cup Names(a, "validator")
    OBVIOUS
  <2>4. a \in Objects /\ a \in Accounts /\ v \in Nat /\ O \in SUBSET Accounts
    BY <1>3, <1>5, <2>3, NamesTyped
  <2>5. /\ IF a \notin known THEN Creates(a) ELSE UNCHANGED <<known, made, watch>>
        /\ held' = [held EXCEPT ![a] = v]
        /\ links' = links \cup WaitingFor(a, "stakerReceipt")
                          \cup (IF a \notin known THEN TellOwners(a, O) ELSE {})
        /\ waiting' = (waiting \ WaitingFor(a, "stakerReceipt"))
                          \cup (IF a \notin known THEN WaitOwners(a, O) ELSE {})
        /\ UNCHANGED <<ref, indexed, delivered, stashed>>
    BY <2>1, <2>3, Zenon DEF OnReceiptOpen
  <2>6. VersionsTyped'
    BY <2>2, <2>4, <2>5 DEF VersionsTyped
  <2>7. ListsTyped'
    BY <2>2, <2>5 DEF ListsTyped
  <2>8. ObjectsTyped'
    <3>1. watch' \subseteq Watches
      BY <2>4, <2>5, CreatedTyped
    <3>2. QED
      BY <2>2, <2>5, <3>1 DEF ObjectsTyped
  <2>9. LinksTyped'
    <3>1. PICK L, W : L = WaitingFor(a, "stakerReceipt") \cup TellOwners(a, O)
                      /\ W = WaitOwners(a, O)
      OBVIOUS
    <3>2. WaitingFor(a, "stakerReceipt") \subseteq Pairs
      BY <2>2, <2>4, WaitingTyped
    <3>3. TellOwners(a, O) \subseteq Pairs /\ WaitOwners(a, O) \subseteq Pairs
      BY <2>4, OwnersTyped
    <3>4. L \in SUBSET Pairs /\ W \in SUBSET Entries
      BY <3>1, <3>2, <3>3, PairsAreEntries
    <3>5. links' \subseteq links \cup L /\ waiting' \subseteq waiting \cup W
      BY <2>5, <3>1
    <3>6. QED
      BY <2>2, <3>4, <3>5, LinksGrow
  <2>10. QED
    BY <1>2, <2>6, <2>7, <2>8, <2>9, HandlerTypes
<1>6. QED
  BY <1>4, <1>5

LEMMA ValidatorTypes == ASSUME CInv, TInv, on_validator PROVE TInv'
<1>1. PICK u : u = Head(stream["validator"])
  OBVIOUS
<1>2. /\ Receives("validator") /\ UNCHANGED <<router, closeC, blind>>
      /\ IF u.ver = Closed THEN OnClosed(u.id)
         ELSE \E ring \in SUBSET {r \in Referring(u.id) : Kind[r] = "receipt"} :
                OnValidatorOpen(u, ring)
      /\ "validator" \in Kinds
  BY <1>1 DEF on_validator, Kinds
<1>3. u.id \in Objects /\ u.id \in Accounts /\ (u.ver # Closed => u.ver \in Nat)
  BY <1>1, <1>2, ObjectNews
<1>4. CASE u.ver = Closed
  BY <1>2, <1>4, ClosedTypes
<1>5. CASE u.ver # Closed
  <2>1. PICK ring : OnValidatorOpen(u, ring)
    BY <1>2, <1>5
  <2>2. LinksTyped /\ VersionsTyped /\ ListsTyped /\ ObjectsTyped
    BY DEF TInv, HeldTyped
  <2>3. PICK a, v, P : /\ a = u.id /\ v = u.ver
                       /\ P = known \cap UNION {Names(p, "pipeline") :
                            p \in known \cap UNION {Names(r, "payout") : r \in ring \cap known}}
    OBVIOUS
  <2>4. a \in Objects /\ a \in Accounts /\ v \in Nat
    BY <1>3, <1>5, <2>3
  <2>5. P \subseteq Accounts
    <3>1. known \subseteq Accounts
      BY DEF CInv, RInv, Honest
    <3>2. QED
      BY <2>3, <3>1
  <2>6. /\ IF a \notin known THEN Creates(a) ELSE UNCHANGED <<known, made, watch>>
        /\ held' = IF a \notin known THEN [held EXCEPT ![a] = v] ELSE held
        /\ ref' = IF a \notin known THEN [ref EXCEPT ![a] = v] ELSE ref
        /\ indexed' = IF a \notin known THEN indexed \cup {a} ELSE indexed
        /\ links' = links \cup WaitingFor(a, "receipt") \cup {<<p, a>> : p \in P}
        /\ waiting' = waiting \ WaitingFor(a, "receipt")
        /\ UNCHANGED <<delivered, stashed>>
    BY <2>1, <2>3, Zenon DEF OnValidatorOpen
  <2>7. VersionsTyped'
    BY <2>2, <2>4, <2>6 DEF VersionsTyped
  <2>8. ListsTyped'
    BY <2>2, <2>6 DEF ListsTyped
  <2>9. ObjectsTyped'
    <3>1. watch' \subseteq Watches
      BY <2>4, <2>6, CreatedTyped
    <3>2. indexed' \subseteq Objects
      BY <2>2, <2>4, <2>6 DEF ObjectsTyped
    <3>3. QED
      BY <3>1, <3>2 DEF ObjectsTyped
  <2>10. LinksTyped'
    <3>1. PICK L, W : L = WaitingFor(a, "receipt") \cup {<<p, a>> : p \in P} /\ W = {}
      OBVIOUS
    <3>2. WaitingFor(a, "receipt") \subseteq Pairs
      BY <2>2, <2>4, WaitingTyped
    <3>3. {<<p, a>> : p \in P} \subseteq Pairs
      BY <2>4, <2>5 DEF Pairs
    <3>4. L \in SUBSET Pairs /\ W \in SUBSET Entries
      BY <3>1, <3>2, <3>3
    <3>5. links' \subseteq links \cup L /\ waiting' \subseteq waiting \cup W
      BY <2>6, <3>1
    <3>6. QED
      BY <2>2, <3>4, <3>5, LinksGrow
  <2>11. QED
    BY <1>2, <2>7, <2>8, <2>9, <2>10, HandlerTypes
<1>6. QED
  BY <1>4, <1>5

LEMMA StakeTypes == ASSUME CInv, TInv, on_stake PROVE TInv'
<1>1. PICK u : u = Head(stream["staker"])
  OBVIOUS
<1>2. /\ Receives("staker") /\ UNCHANGED <<router, closeC, blind>>
      /\ IF u.ver = Closed THEN OnClosed(u.id) ELSE OnStakeOpen(u)
      /\ "staker" \in Kinds
  BY <1>1 DEF on_stake, Kinds
<1>3. u.id \in Objects /\ u.id \in Accounts /\ (u.ver # Closed => u.ver \in Nat)
  BY <1>1, <1>2, ObjectNews
<1>4. CASE u.ver = Closed
  BY <1>2, <1>4, ClosedTypes
<1>5. CASE u.ver # Closed
  <2>1. OnStakeOpen(u)
    BY <1>2, <1>5
  <2>2. LinksTyped /\ VersionsTyped /\ ListsTyped /\ ObjectsTyped
    BY DEF TInv, HeldTyped
  <2>3. PICK a, v, M :
          /\ a = u.id /\ v = u.ver
          /\ M = IF a \notin known THEN {p[2] : p \in WaitingFor(a, "stakerReceipt")} ELSE {}
    OBVIOUS
  <2>4. a \in Objects /\ a \in Accounts /\ v \in Nat
    BY <1>3, <1>5, <2>3
  <2>5. M \subseteq Accounts
    <3>1. WaitingFor(a, "stakerReceipt") \subseteq Pairs
      BY <2>2, <2>4, WaitingTyped
    <3>2. QED
      BY <2>3, <3>1 DEF Pairs
  <2>6. PICK E, F : E = UNION {Extra(sr).links : sr \in M}
                    /\ F = UNION {Extra(sr).waiting : sr \in M}
    OBVIOUS
  <2>7. /\ IF a \notin known THEN Creates(a) ELSE UNCHANGED <<known, made, watch>>
        /\ held' = [held EXCEPT ![a] = v]
        /\ indexed' = IF a \notin known THEN indexed \cup {a} ELSE indexed
        /\ links' = links \cup {<<a, sr>> : sr \in M} \cup E
        /\ waiting' = (waiting \ {<<a, sr>> : sr \in M}) \cup F
        /\ UNCHANGED <<ref, delivered, stashed>>
    BY <2>1, <2>3, <2>6, Zenon DEF OnStakeOpen
  <2>8. VersionsTyped'
    BY <2>2, <2>4, <2>7 DEF VersionsTyped
  <2>9. ListsTyped'
    BY <2>2, <2>7 DEF ListsTyped
  <2>10. ObjectsTyped'
    <3>1. watch' \subseteq Watches
      BY <2>4, <2>7, CreatedTyped
    <3>2. indexed' \subseteq Objects
      BY <2>2, <2>4, <2>7 DEF ObjectsTyped
    <3>3. QED
      BY <3>1, <3>2 DEF ObjectsTyped
  <2>11. LinksTyped'
    <3>1. PICK L : L = {<<a, sr>> : sr \in M} \cup E
      OBVIOUS
    <3>2. \A sr \in M : Extra(sr).links \subseteq Pairs /\ Extra(sr).waiting \subseteq Entries
      BY <2>5, ExtraTyped
    <3>3. E \subseteq Pairs /\ F \subseteq Entries
      BY <2>6, <3>2
    <3>4. {<<a, sr>> : sr \in M} \subseteq Pairs
      BY <2>4, <2>5 DEF Pairs
    <3>5. L \in SUBSET Pairs /\ F \in SUBSET Entries
      BY <3>1, <3>3, <3>4
    <3>6. links' \subseteq links \cup L /\ waiting' \subseteq waiting \cup F
      BY <2>7, <3>1
    <3>7. QED
      BY <2>2, <3>5, <3>6, LinksGrow
  <2>12. QED
    BY <1>2, <2>8, <2>9, <2>10, <2>11, HandlerTypes
<1>6. QED
  BY <1>4, <1>5

LEMMA StakeReceiptTypes == ASSUME CInv, TInv, on_stake_receipt PROVE TInv'
<1>1. PICK u : u = Head(stream["stakerReceipt"])
  OBVIOUS
<1>2. PICK a, O : a = u.id /\ O = Names(a, "staker")
  OBVIOUS
<1>3. /\ Receives("stakerReceipt") /\ "stakerReceipt" \in Kinds
      /\ IF O \subseteq known
         THEN /\ links' = links \cup TellOwners(a, O) \cup Extra(a).links
              /\ waiting' = waiting \cup Extra(a).waiting
         ELSE waiting' = waiting \cup WaitOwners(a, O) /\ UNCHANGED links
      /\ UNCHANGED <<router, known, held, ref, indexed, delivered, stashed,
                     made, watch, closeC, blind>>
  BY <1>1, <1>2 DEF on_stake_receipt, Kinds
<1>4. a \in Accounts
  <2>1. u \in LegitOf("stakerReceipt")
    BY <1>1, <1>3, ReceivesEffect DEF CInv, RInv
  <2>2. QED
    BY <1>2, <2>1 DEF LegitOf, Legit, News
<1>5. LinksTyped /\ VersionsTyped /\ ListsTyped /\ ObjectsTyped
  BY DEF TInv, HeldTyped
<1>6. VersionsTyped' /\ ListsTyped' /\ ObjectsTyped'
  BY <1>3, <1>5 DEF VersionsTyped, ListsTyped, ObjectsTyped
<1>7. O \in SUBSET Accounts
  BY <1>2, NamesTyped
<1>8. TellOwners(a, O) \subseteq Pairs /\ WaitOwners(a, O) \subseteq Pairs
  BY <1>4, <1>7, OwnersTyped
<1>9. Extra(a).links \subseteq Pairs /\ Extra(a).waiting \subseteq Entries
  BY <1>4, ExtraTyped
<1>10. PICK L, W : L = TellOwners(a, O) \cup Extra(a).links
                   /\ W = WaitOwners(a, O) \cup Extra(a).waiting
  OBVIOUS
<1>11. L \in SUBSET Pairs /\ W \in SUBSET Entries
  BY <1>8, <1>9, <1>10, PairsAreEntries
<1>12. links' \subseteq links \cup L /\ waiting' \subseteq waiting \cup W
  BY <1>3, <1>10
<1>13. LinksTyped'
  BY <1>5, <1>11, <1>12, LinksGrow
<1>14. QED
  BY <1>3, <1>6, <1>13, HandlerTypes

\* A bid list or period ring is never closed.
LEMMA ListTypes == ASSUME CInv, TInv, on_bid \/ on_period PROVE TInv'
<1>1. PICK k \in {"bidList", "periodRing"} :
        /\ Receives(k) /\ OnList(Head(stream[k]))
        /\ UNCHANGED <<router, known, held, ref, indexed, links, waiting, made,
                       watch, closeC, blind>>
  BY DEF on_bid, on_period
<1>2. PICK u, q : u = Head(q) /\ q = stream[k]
  OBVIOUS
<1>3. k \in Kinds /\ q # <<>> /\ q \in Seq(OpenNews)
  BY <1>1, <1>2 DEF Kinds, Receives, TInv, FeedTyped, ListNews
<1>4. u \in OpenNews
  BY <1>2, <1>3, TailTyped
<1>5. u.ver \in Nat
  BY <1>4 DEF OpenNews, News
<1>6. LinksTyped /\ VersionsTyped /\ ListsTyped /\ ObjectsTyped
  BY DEF TInv, HeldTyped
<1>7. LinksTyped' /\ VersionsTyped' /\ ObjectsTyped'
  BY <1>1, <1>6 DEF LinksTyped, VersionsTyped, ObjectsTyped
<1>8. OnList(u)
  BY <1>1, <1>2
<1>9. ListsTyped'
  BY <1>5, <1>6, <1>8 DEF OnList, ListsTyped
<1>10. QED
  BY <1>1, <1>3, <1>7, <1>9, HandlerTypes

LEMMA RefundTypes == ASSUME CInv, TInv, on_refund PROVE TInv'
<1>1. Receives("refund") /\ UNCHANGED routerVars /\ "refund" \in Kinds
  BY DEF on_refund, Kinds
<1>2. LinksTyped' /\ VersionsTyped' /\ ListsTyped' /\ ObjectsTyped'
  BY <1>1 DEF routerVars, TInv, HeldTyped, LinksTyped, VersionsTyped, ListsTyped, ObjectsTyped
<1>3. QED
  BY <1>1, <1>2, HandlerTypes DEF routerVars

\* The steps that leave the feed as it is.
LEMMA FeedTypesStand ==
  ASSUME TInv, UNCHANGED feedVars PROVE FeedTyped'
  BY DEF TInv, FeedTyped, BootTyped, FeedSets, ListNews, feedVars

LEMMA CloseTypes == ASSUME CInv, TInv, NEW k \in Kinds, ReceiveClose(k) PROVE TInv'
<1>1. FeedTyped'
  BY FeedTypesStand DEF ReceiveClose
<1>2. PICK q : q = closeC[k]
  OBVIOUS
<1>3. PICK a : a = Head(q)
  OBVIOUS
<1>4. /\ q # <<>> /\ OnCloseC(a) /\ closeC' = [closeC EXCEPT ![k] = Tail(q)]
      /\ UNCHANGED <<router, held, ref, delivered, stashed, made, watch, blind>>
  BY <1>2, <1>3 DEF ReceiveClose
<1>5. /\ LinksTyped /\ VersionsTyped /\ ListsTyped /\ ObjectsTyped /\ ClosesTyped
      /\ router \in {"off", "run", "dead"} /\ blind \subseteq Objects
  BY DEF TInv, HeldTyped
<1>6. VersionsTyped' /\ ListsTyped'
  BY <1>4, <1>5 DEF VersionsTyped, ListsTyped
<1>7. links' \subseteq links /\ waiting' \subseteq waiting /\ indexed' \subseteq indexed
  BY <1>4 DEF OnCloseC, Drops
<1>8. LinksTyped' /\ ObjectsTyped'
  BY <1>4, <1>5, <1>7 DEF LinksTyped, ObjectsTyped
<1>9. ASSUME NEW j \in Kinds PROVE closeC'[j] \in Seq(ObjectsOf(j))
  <2>1. DOMAIN closeC = Kinds
    BY DEF CInv, RInv, Honest
  <2>2. CASE j # k
    BY <1>4, <1>5, <2>1, <2>2 DEF ClosesTyped
  <2>3. CASE j = k
    <3>1. PICK S : S = ObjectsOf(k)
      OBVIOUS
    <3>2. q \in Seq(S)
      BY <1>2, <1>5, <3>1 DEF ClosesTyped
    <3>3. Tail(q) \in Seq(S)
      BY <1>4, <3>2, TailTyped
    <3>4. closeC'[j] = Tail(q)
      BY <1>4, <2>1, <2>3
    <3>5. QED
      BY <2>3, <3>1, <3>3, <3>4
  <2>4. QED
    BY <2>2, <2>3
<1>10. ClosesTyped'
  BY <1>9 DEF ClosesTyped
<1>11. QED
  BY <1>1, <1>4, <1>5, <1>6, <1>8, <1>10 DEF TInv, HeldTyped

LEMMA WatchTypes == ASSUME CInv, TInv, Watchers PROVE TInv'
<1>1. PICK w \in watch : \/ WatchStart(w[1], w[2]) \/ WatchZero(w[1], w[2])
                         \/ WatchSend(w[1], w[2]) \/ WatchQuit(w[1], w[2], w[3])
  BY DEF Watchers
<1>2. /\ LinksTyped /\ VersionsTyped /\ ListsTyped /\ ObjectsTyped /\ ClosesTyped
      /\ router \in {"off", "run", "dead"} /\ blind \subseteq Objects /\ FeedTyped
  BY DEF TInv, HeldTyped
<1>3. PICK a, n : a = w[1] /\ n = w[2]
  OBVIOUS
<1>4. a \in Objects /\ n \in Nat \ {0} /\ watch \subseteq Watches
  BY <1>2, <1>3 DEF ObjectsTyped, Watches
<1>5. \A s \in {"start", "on", "zero"} : <<a, n, s>> \in Watches
  BY <1>4 DEF Watches
<1>6. UNCHANGED <<router, held, ref, indexed, links, waiting, delivered, stashed>>
  BY <1>1 DEF WatchStart, WatchZero, WatchSend, WatchQuit
<1>7. LinksTyped' /\ VersionsTyped' /\ ListsTyped'
  BY <1>2, <1>6 DEF LinksTyped, VersionsTyped, ListsTyped
<1>8. watch' \subseteq watch \cup {<<a, n, "on">>, <<a, n, "zero">>}
  BY <1>1, <1>3 DEF WatchStart, WatchZero, WatchSend, WatchQuit
<1>9. ObjectsTyped'
  <2>1. watch' \subseteq Watches
    BY <1>4, <1>5, <1>8
  <2>2. QED
    BY <1>2, <1>6, <2>1 DEF ObjectsTyped
<1>10. FeedTyped' /\ blind' \subseteq Objects
  <2>1. UNCHANGED feedVars
    BY <1>1 DEF WatchStart, WatchZero, WatchSend, WatchQuit
  <2>2. Current(a, n) \subseteq Objects
    BY <1>4 DEF Current
  <2>3. blind' \in {blind, blind \cup Current(a, n)}
    BY <1>1, <1>3 DEF WatchStart, WatchZero, WatchSend, WatchQuit
  <2>4. QED
    BY <1>2, <2>1, <2>2, <2>3, FeedTypesStand
<1>11. ClosesTyped'
  <2>1. CASE UNCHANGED closeC
    BY <1>2, <2>1 DEF ClosesTyped
  <2>2. CASE closeC' = [closeC EXCEPT ![Kind[a]] = <<a>>]
    <3>1. ASSUME NEW j \in Kinds PROVE closeC'[j] \in Seq(ObjectsOf(j))
      <4>1. DOMAIN closeC = Kinds
        BY DEF CInv, RInv, Honest
      <4>2. CASE j # Kind[a]
        BY <1>2, <2>2, <4>1, <4>2 DEF ClosesTyped
      <4>3. CASE j = Kind[a]
        <5>1. a \in ObjectsOf(j)
          BY <1>4, <4>3 DEF ObjectsOf
        <5>2. <<a>> \in Seq(ObjectsOf(j))
          BY <5>1
        <5>3. QED
          BY <2>2, <4>1, <4>3, <5>2
      <4>4. QED
        BY <4>2, <4>3
    <3>2. QED
      BY <3>1 DEF ClosesTyped
  <2>3. QED
    BY <1>1, <1>3, <2>1, <2>2 DEF WatchStart, WatchZero, WatchSend, WatchQuit
<1>12. QED
  BY <1>2, <1>6, <1>7, <1>9, <1>10, <1>11 DEF TInv, HeldTyped

LEMMA InitTypes == ASSUME CInv, TInv, init PROVE TInv'
<1>1. /\ LinksTyped /\ VersionsTyped /\ ListsTyped /\ ObjectsTyped /\ ClosesTyped /\ FeedTyped
      /\ blind \subseteq Objects
      /\ snapshot \in [Accounts -> Nat]
  BY DEF TInv, HeldTyped, CInv, RInv, Honest
<1>2. /\ boot = "ready" /\ boot' = "run" /\ router' = "run"
      /\ UNCHANGED <<changes, subs, tracking, feed, stream, full, early, mute,
                     delivered, stashed, closeC, blind>>
  BY DEF init
<1>3. FeedTyped'
  <2>1. BootTyped'
    BY <1>1, <1>2 DEF FeedTyped, BootTyped
  <2>2. FeedSets' /\ ListNews'
    BY <1>1, <1>2 DEF FeedTyped, FeedSets, ListNews
  <2>3. QED
    BY <2>1, <2>2 DEF FeedTyped
<1>4. VersionsTyped'
  BY <1>1 DEF init, VersionsTyped
<1>5. ListsTyped' /\ ClosesTyped'
  BY <1>1, <1>2 DEF ListsTyped, ClosesTyped
<1>6. ObjectsTyped'
  <2>1. known' \subseteq Objects /\ watch' = {<<a, 1, "start">> : a \in known'}
    BY DEF init
  <2>2. \A a \in Objects : <<a, 1, "start">> \in Watches
    BY DEF Watches
  <2>3. watch' \subseteq Watches
    BY <2>1, <2>2
  <2>4. indexed' \subseteq Objects
    BY DEF init, Snapped, OfKind, Objects
  <2>5. QED
    BY <2>3, <2>4 DEF ObjectsTyped
<1>7. LinksTyped'
  <2>1. \A m, k : SnappedPairs(m, k) \subseteq Pairs
    BY DEF SnappedPairs, Pairs
  <2>2. links' \subseteq Pairs /\ waiting' \subseteq Pairs
    BY <2>1 DEF init
  <2>3. links' \subseteq Pairs /\ waiting' \subseteq Entries
    BY <2>2, PairsAreEntries
  <2>4. QED
    BY <2>3 DEF LinksTyped, Pairs, Entries
<1>8. QED
  BY <1>1, <1>2, <1>3, <1>4, <1>5, <1>6, <1>7 DEF TInv, HeldTyped

LEMMA EndsTypes == ASSUME TInv, RouterEnds \/ UNCHANGED vars PROVE TInv'
<1>1. /\ UNCHANGED feedVars /\ router' \in {router, "dead"}
      /\ UNCHANGED <<held, ref, indexed, links, waiting, delivered, stashed, watch, closeC,
                     blind>>
  BY DEF RouterEnds, vars, routerVars
<1>2. FeedTyped'
  BY <1>1, FeedTypesStand
<1>3. LinksTyped' /\ VersionsTyped' /\ ListsTyped' /\ ObjectsTyped' /\ ClosesTyped'
  BY <1>1 DEF TInv, HeldTyped, LinksTyped, VersionsTyped, ListsTyped, ObjectsTyped, ClosesTyped
<1>4. router' \in {"off", "run", "dead"} /\ blind' \subseteq Objects
  BY <1>1 DEF TInv, HeldTyped
<1>5. QED
  BY <1>2, <1>3, <1>4 DEF TInv, HeldTyped

LEMMA NextTInv == CInv /\ TInv /\ [Next]_vars => TInv'
<1> SUFFICES ASSUME CInv, TInv, [Next]_vars PROVE TInv'
  OBVIOUS
<1>1. CASE FeedNext /\ UNCHANGED routerVars
  BY <1>1, FeedTypes
<1>2. CASE init
  BY <1>2, InitTypes
<1>3. CASE on_payout \/ on_pipeline \/ on_receipt \/ on_validator
  BY <1>3, PayoutTypes, PipelineTypes, ReceiptTypes, ValidatorTypes
<1>4. CASE on_stake \/ on_stake_receipt \/ on_bid \/ on_period \/ on_refund
  BY <1>4, StakeTypes, StakeReceiptTypes, ListTypes, RefundTypes
<1>5. ASSUME NEW k \in Kinds, ReceiveClose(k) PROVE TInv'
  BY <1>5, CloseTypes
<1>6. CASE RouterEnds \/ UNCHANGED vars
  BY <1>6, EndsTypes
<1>7. CASE Watchers
  BY <1>7, WatchTypes
<1>8. QED
  BY <1>1, <1>2, <1>3, <1>4, <1>5, <1>6, <1>7 DEF Next, Loop

\* The router's variables keep their types; in particular no bid list or
\* period ring is handed on closed (loopSubscribePipeline reports closings
\* of the other types only), and a closeC channel holds objects of its type.
THEOREM RouterTyped == Spec => []TypeOK
<1>1. CInv /\ TInv /\ [Next]_vars => CInv' /\ TInv'
  BY NextCInv, NextTInv
<1>2. Init => CInv /\ TInv
  BY InitCInv, InitTInv
<1>3. QED
  BY <1>1, <1>2, TInvTells, PTL DEF Spec

-----------------------------------------------------------------------------
(* The linked list.  The heap of nodes is linked along a sequence of nodes *)
(* (Linked): an iteration in either direction visits that sequence, and    *)
(* every operation changes it as it changes the sequence of SeqList.       *)

LEMMA ConcatIs ==
  ASSUME NEW S, NEW a \in Seq(S), NEW b \in Seq(S), NEW c, c = a \o b,
         NEW m, m = Len(a), NEW n, n = Len(a) + Len(b)
  PROVE  /\ c \in Seq(S) /\ Len(c) = n
         /\ \A i \in 1 .. n : c[i] = IF i <= m THEN a[i] ELSE b[i - m]
  BY ConcatProperties

\* What InsertAt and RemoveAt do, position by position.
With(t, s, S, j, e) ==
    /\ t \in Seq(S) /\ Len(s) \in Nat /\ Len(t) = Len(s) + 1
    /\ \A k \in 1 .. Len(s) + 1 :
          t[k] = IF k < j THEN s[k] ELSE IF k = j THEN e ELSE s[k - 1]

Without(t, s, S, j) ==
    /\ t \in Seq(S) /\ Len(s) \in Nat /\ Len(t) = Len(s) - 1
    /\ \A k \in 1 .. Len(s) - 1 : t[k] = IF k < j THEN s[k] ELSE s[k + 1]

LEMMA InsertAtIs ==
  ASSUME NEW S, NEW s \in Seq(S), NEW e \in S, NEW j \in 1 .. Len(s) + 1,
         NEW t, t = InsertAt(s, j, e)
  PROVE  With(t, s, S, j, e)
<1>1. PICK n : n = Len(s) /\ n \in Nat
  BY LenProperties
<1>2. PICK a, b, c : a = SubSeq(s, 1, j - 1) /\ b = <<e>> /\ c = SubSeq(s, j, n)
  OBVIOUS
<1>3. /\ 1 \in 1 .. n + 1 /\ j - 1 \in 0 .. n /\ j \in 1 .. n + 1 /\ n \in 0 .. n
  BY <1>1
<1>4. /\ a \in Seq(S) /\ Len(a) = j - 1
      /\ \A i \in 1 .. j - 1 : a[i] = s[i]
  <2>1. /\ SubSeq(s, 1, j - 1) \in Seq(S)
        /\ Len(SubSeq(s, 1, j - 1)) = IF 1 <= j - 1 THEN (j - 1) - 1 + 1 ELSE 0
        /\ \A i \in 1 .. (j - 1) - 1 + 1 : SubSeq(s, 1, j - 1)[i] = s[1 + i - 1]
    BY <1>1, <1>3, SubSeqProperties
  <2>2. QED
    BY <1>2, <1>3, <2>1
<1>5. /\ c \in Seq(S) /\ Len(c) = n - j + 1
      /\ \A i \in 1 .. n - j + 1 : c[i] = s[j + i - 1]
  <2>1. /\ SubSeq(s, j, n) \in Seq(S)
        /\ Len(SubSeq(s, j, n)) = IF j <= n THEN n - j + 1 ELSE 0
        /\ \A i \in 1 .. n - j + 1 : SubSeq(s, j, n)[i] = s[j + i - 1]
    BY <1>1, <1>3, SubSeqProperties
  <2>2. QED
    BY <1>1, <1>2, <1>3, <2>1
<1>6. b \in Seq(S) /\ Len(b) = 1 /\ b[1] = e
  BY <1>2
<1>7. PICK d : d = a \o b
  OBVIOUS
<1>8. /\ d \in Seq(S) /\ Len(d) = j
      /\ \A i \in 1 .. j : d[i] = IF i <= j - 1 THEN a[i] ELSE b[i - (j - 1)]
  <2>1. PICK x, y : x = Len(a) /\ y = Len(a) + Len(b)
    OBVIOUS
  <2>2. a \in Seq(S) /\ b \in Seq(S) /\ d = a \o b
    BY <1>4, <1>6, <1>7
  <2>3. /\ d \in Seq(S) /\ Len(d) = y
        /\ \A i \in 1 .. y : d[i] = IF i <= x THEN a[i] ELSE b[i - x]
    BY <2>1, <2>2, ConcatIs
  <2>4. x = j - 1 /\ y = j
    BY <1>4, <1>6, <2>1
  <2>5. QED
    BY <2>3, <2>4
<1>9. t = d \o c
  BY <1>1, <1>2, <1>7 DEF InsertAt
<1>10. /\ t \in Seq(S) /\ Len(t) = n + 1
       /\ \A i \in 1 .. n + 1 : t[i] = IF i <= j THEN d[i] ELSE c[i - j]
  <2>1. PICK x, y : x = Len(d) /\ y = Len(d) + Len(c)
    OBVIOUS
  <2>2. d \in Seq(S) /\ c \in Seq(S) /\ t = d \o c
    BY <1>5, <1>8, <1>9
  <2>3. /\ t \in Seq(S) /\ Len(t) = y
        /\ \A i \in 1 .. y : t[i] = IF i <= x THEN d[i] ELSE c[i - x]
    BY <2>1, <2>2, ConcatIs
  <2>4. x = j /\ y = n + 1
    BY <1>1, <1>5, <1>8, <2>1
  <2>5. QED
    BY <2>3, <2>4
<1>11. ASSUME NEW k \in 1 .. n + 1
       PROVE  t[k] = IF k < j THEN s[k] ELSE IF k = j THEN e ELSE s[k - 1]
  <2>1. CASE k < j
    <3>1. k \in 1 .. j /\ k <= j - 1 /\ k \in 1 .. j - 1
      BY <1>1, <2>1
    <3>2. QED
      BY <1>4, <1>8, <1>10, <2>1, <3>1
  <2>2. CASE k = j
    <3>1. k \in 1 .. j /\ ~(k <= j - 1) /\ k - (j - 1) = 1
      BY <1>1, <2>2
    <3>2. QED
      BY <1>6, <1>8, <1>10, <2>2, <3>1
  <2>3. CASE k > j
    <3>1. /\ k - j \in 1 .. n - j + 1 /\ j + (k - j) - 1 = k - 1
          /\ ~(k <= j) /\ ~(k < j) /\ k # j
      BY <1>1, <2>3
    <3>2. PICK i : i = k - j
      OBVIOUS
    <3>3. t[k] = c[i]
      BY <1>10, <3>1, <3>2
    <3>4. c[i] = s[k - 1]
      BY <1>5, <3>1, <3>2
    <3>5. QED
      BY <3>1, <3>3, <3>4
  <2>4. QED
    BY <1>1, <2>1, <2>2, <2>3
<1>12. QED
  BY <1>1, <1>10, <1>11 DEF With

LEMMA RemoveAtIs ==
  ASSUME NEW S, NEW s \in Seq(S), NEW j \in 1 .. Len(s), NEW t, t = RemoveAt(s, j)
  PROVE  Without(t, s, S, j)
<1>1. PICK n : n = Len(s) /\ n \in Nat
  BY LenProperties
<1>2. PICK a, c : a = SubSeq(s, 1, j - 1) /\ c = SubSeq(s, j + 1, n)
  OBVIOUS
<1>3. /\ 1 \in 1 .. n + 1 /\ j - 1 \in 0 .. n /\ j + 1 \in 1 .. n + 1 /\ n \in 0 .. n
  BY <1>1
<1>4. /\ a \in Seq(S) /\ Len(a) = j - 1
      /\ \A i \in 1 .. j - 1 : a[i] = s[i]
  <2>1. /\ SubSeq(s, 1, j - 1) \in Seq(S)
        /\ Len(SubSeq(s, 1, j - 1)) = IF 1 <= j - 1 THEN (j - 1) - 1 + 1 ELSE 0
        /\ \A i \in 1 .. (j - 1) - 1 + 1 : SubSeq(s, 1, j - 1)[i] = s[1 + i - 1]
    BY <1>1, <1>3, SubSeqProperties
  <2>2. QED
    BY <1>2, <1>3, <2>1
<1>5. /\ c \in Seq(S) /\ Len(c) = n - j
      /\ \A i \in 1 .. n - j : c[i] = s[j + i]
  <2>1. /\ SubSeq(s, j + 1, n) \in Seq(S)
        /\ Len(SubSeq(s, j + 1, n)) = IF j + 1 <= n THEN n - (j + 1) + 1 ELSE 0
        /\ \A i \in 1 .. n - (j + 1) + 1 : SubSeq(s, j + 1, n)[i] = s[(j + 1) + i - 1]
    BY <1>1, <1>3, SubSeqProperties
  <2>2. QED
    BY <1>1, <1>2, <1>3, <2>1
<1>6. t = a \o c
  BY <1>1, <1>2 DEF RemoveAt
<1>7. /\ t \in Seq(S) /\ Len(t) = n - 1
      /\ \A i \in 1 .. n - 1 : t[i] = IF i <= j - 1 THEN a[i] ELSE c[i - (j - 1)]
  <2>1. PICK x, y : x = Len(a) /\ y = Len(a) + Len(c)
    OBVIOUS
  <2>2. a \in Seq(S) /\ c \in Seq(S) /\ t = a \o c
    BY <1>4, <1>5, <1>6
  <2>3. /\ t \in Seq(S) /\ Len(t) = y
        /\ \A i \in 1 .. y : t[i] = IF i <= x THEN a[i] ELSE c[i - x]
    BY <2>1, <2>2, ConcatIs
  <2>4. x = j - 1 /\ y = n - 1
    BY <1>1, <1>4, <1>5, <2>1
  <2>5. QED
    BY <2>3, <2>4
<1>8. ASSUME NEW k \in 1 .. n - 1
      PROVE  t[k] = IF k < j THEN s[k] ELSE s[k + 1]
  <2>1. CASE k < j
    <3>1. k <= j - 1 /\ k \in 1 .. j - 1
      BY <1>1, <2>1
    <3>2. QED
      BY <1>4, <1>7, <2>1, <3>1
  <2>2. CASE ~(k < j)
    <3>1. ~(k <= j - 1) /\ k - (j - 1) \in 1 .. n - j /\ j + (k - (j - 1)) = k + 1
      BY <1>1, <2>2
    <3>2. QED
      BY <1>5, <1>7, <2>2, <3>1
  <2>3. QED
    BY <2>1, <2>2
<1>9. QED
  BY <1>1, <1>7, <1>8 DEF Without

\* The nodes at follows link from first, up to the m-th.
WalksTo(at, first, link, m) ==
    \A k \in 1 .. m :
        at[k] = IF k = 1 THEN first
                ELSE IF at[k - 1] = Nil THEN Nil ELSE link[at[k - 1]]

\* The recursive definition of Walk defines a function.
LEMMA WalkUnfolds ==
  ASSUME NEW l, NEW n \in Nat, n = Len(l.val), NEW first \in 0 .. n,
         NEW link \in [1 .. n -> 0 .. n]
  PROVE  /\ Walk(l, first, link) \in [1 .. n -> 0 .. n]
         /\ WalksTo(Walk(l, first, link), first, link, n)
<1> DEFINE D == 1 .. n
           Filled == {d \in Nat : d <= n =>
                         \E g \in [D -> 0 .. n] : WalksTo(g, first, link, d)}
<1>1. 0 \in Filled
  <2>1. PICK g : g = [k \in D |-> 0]
    OBVIOUS
  <2>2. g \in [D -> 0 .. n] /\ WalksTo(g, first, link, 0)
    BY <2>1 DEF WalksTo
  <2>3. QED
    BY <2>2
<1>2. ASSUME NEW d \in Nat, d \in Filled PROVE d + 1 \in Filled
  <2>1. SUFFICES ASSUME d + 1 <= n
                 PROVE  \E g \in [D -> 0 .. n] : WalksTo(g, first, link, d + 1)
    OBVIOUS
  <2>2. PICK g \in [D -> 0 .. n] : WalksTo(g, first, link, d)
    BY <1>2, <2>1
  <2>3. PICK m : m = d + 1
    OBVIOUS
  <2>4. m \in D /\ m - 1 = d /\ (m # 1 => d \in D)
    BY <2>1, <2>3
  <2>5. PICK v : v = IF m = 1 THEN first ELSE IF g[d] = Nil THEN Nil ELSE link[g[d]]
    OBVIOUS
  <2>6. v \in 0 .. n
    <3>1. CASE m = 1
      BY <2>5, <3>1
    <3>2. CASE m # 1 /\ g[d] = Nil
      BY <2>5, <3>2 DEF Nil
    <3>3. CASE m # 1 /\ g[d] # Nil
      <4>1. g[d] \in 1 .. n
        BY <2>2, <2>4, <3>3 DEF Nil
      <4>2. QED
        BY <2>5, <3>3, <4>1
    <3>4. QED
      BY <3>1, <3>2, <3>3
  <2>7. PICK h : h = [g EXCEPT ![m] = v]
    OBVIOUS
  <2>8. /\ h \in [D -> 0 .. n] /\ h[m] = v
        /\ \A j \in D : j # m => h[j] = g[j]
    BY <2>2, <2>4, <2>6, <2>7
  <2>9. ASSUME NEW j \in 1 .. m
        PROVE  h[j] = IF j = 1 THEN first
                      ELSE IF h[j - 1] = Nil THEN Nil ELSE link[h[j - 1]]
    <3>0. j # 1 => j - 1 \in D /\ j - 1 # m
      BY <2>4
    <3>1. CASE j = m
      BY <2>4, <2>5, <2>8, <3>0, <3>1
    <3>2. CASE j # m
      <4>1. j \in 1 .. d /\ j \in D
        BY <2>3, <2>4, <3>2
      <4>2. g[j] = IF j = 1 THEN first
                   ELSE IF g[j - 1] = Nil THEN Nil ELSE link[g[j - 1]]
        BY <2>2, <4>1 DEF WalksTo
      <4>3. QED
        BY <2>8, <3>0, <3>2, <4>1, <4>2
    <3>3. QED
      BY <3>1, <3>2
  <2>10. WalksTo(h, first, link, d + 1)
    BY <2>3, <2>9 DEF WalksTo
  <2>11. QED
    BY <2>8, <2>10
<1>3. \A d \in Nat : d \in Filled
  <2> HIDE DEF Filled
  <2>1. QED
    BY <1>1, <1>2, InductionSet
<1>4. PICK g \in [D -> 0 .. n] : WalksTo(g, first, link, n)
  BY <1>3
<1>5. g = [k \in D |-> IF k = 1 THEN first
                       ELSE IF g[k - 1] = Nil THEN Nil ELSE link[g[k - 1]]]
  BY <1>4 DEF WalksTo
<1>6. Walk(l, first, link) =
        [k \in D |-> IF k = 1 THEN first
                     ELSE IF Walk(l, first, link)[k - 1] = Nil THEN Nil
                          ELSE link[Walk(l, first, link)[k - 1]]]
  BY <1>5 DEF Walk
<1>7. PICK w : w = Walk(l, first, link)
  OBVIOUS
<1>8. DOMAIN w = D /\ WalksTo(w, first, link, n)
  BY <1>6, <1>7 DEF WalksTo
<1>9. w = [k \in D |-> w[k]]
  BY <1>6, <1>7
<1> DEFINE Bad == {k \in Nat : k \in D /\ w[k] \notin 0 .. n}
<1>10. ASSUME Bad # {} PROVE FALSE
  <2>1. PICK k \in Bad : \A j \in Bad : k <= j
    BY <1>10, LeastExists
  <2>2. CASE k = 1
    BY <1>8, <2>1, <2>2 DEF WalksTo
  <2>3. CASE k # 1
    <3>1. k - 1 \in D /\ k - 1 \in Nat /\ ~(k <= k - 1)
      BY <2>1, <2>3
    <3>2. w[k - 1] \in 0 .. n
      BY <2>1, <3>1
    <3>3. w[k] = IF w[k - 1] = Nil THEN Nil ELSE link[w[k - 1]]
      BY <1>8, <2>1, <2>3 DEF WalksTo
    <3>4. w[k] \in 0 .. n
      BY <3>2, <3>3 DEF Nil
    <3>5. QED
      BY <2>1, <3>4
  <2>4. QED
    BY <2>2, <2>3
<1>11. w \in [D -> 0 .. n]
  BY <1>9, <1>10
<1>12. QED
  BY <1>7, <1>8, <1>11

\* link leads from first through the nodes of s to nil.
Follows(s, first, link) ==
    /\ first = IF Len(s) = 0 THEN Nil ELSE s[1]
    /\ \A i \in 1 .. Len(s) : link[s[i]] = IF i = Len(s) THEN Nil ELSE s[i + 1]

\* An iteration then visits exactly s: the first nil ends it.
LEMMA VisitIs ==
  ASSUME NEW l, NEW n \in Nat, n = Len(l.val), NEW first \in 0 .. n,
         NEW link \in [1 .. n -> 0 .. n],
         NEW s \in Seq(1 .. n), Len(s) <= n, Follows(s, first, link)
  PROVE  Visit(l, first, link) = s
<1>1. PICK m : m = Len(s) /\ m \in Nat
  BY LenProperties
<1>2. PICK at : at = Walk(l, first, link)
  OBVIOUS
<1>3. at \in [1 .. n -> 0 .. n] /\ WalksTo(at, first, link, n)
  BY <1>2, WalkUnfolds
<1>4. \A i \in 1 .. m : s[i] \in 1 .. n
  BY <1>1, ElementOfSeq
<1>5. /\ first = IF m = 0 THEN Nil ELSE s[1]
      /\ \A i \in 1 .. m : link[s[i]] = IF i = m THEN Nil ELSE s[i + 1]
  BY <1>1 DEF Follows
<1> DEFINE Right(k) == at[k] = IF k <= m THEN s[k] ELSE Nil
           Bad == {k \in Nat : k \in 1 .. n /\ ~Right(k)}
<1>6. ASSUME Bad # {} PROVE FALSE
  <2>1. PICK k \in Bad : \A j \in Bad : k <= j
    BY <1>6, LeastExists
  <2>2. CASE k = 1
    <3>1. at[k] = first
      BY <1>3, <2>1, <2>2 DEF WalksTo
    <3>2. QED
      BY <1>1, <1>5, <2>1, <2>2, <3>1
  <2>3. CASE k # 1
    <3>1. PICK j : j = k - 1
      OBVIOUS
    <3>2. j \in 1 .. n /\ j \in Nat /\ ~(k <= j) /\ k = j + 1
      BY <2>1, <2>3, <3>1
    <3>3. Right(j)
      BY <2>1, <3>2
    <3>4. at[k] = IF at[j] = Nil THEN Nil ELSE link[at[j]]
      BY <1>3, <2>1, <2>3, <3>1 DEF WalksTo
    <3>5. CASE j <= m
      <4>1. j \in 1 .. m /\ at[j] = s[j] /\ at[j] # Nil
        BY <1>1, <1>4, <3>2, <3>3, <3>5 DEF Nil
      <4>2. at[k] = IF j = m THEN Nil ELSE s[k]
        BY <1>5, <3>2, <3>4, <4>1
      <4>3. (k <= m) <=> (j # m)
        BY <1>1, <3>2, <3>5
      <4>4. QED
        BY <2>1, <4>2, <4>3
    <3>6. CASE ~(j <= m)
      <4>1. at[k] = Nil /\ ~(k <= m)
        BY <1>1, <3>2, <3>3, <3>4, <3>6
      <4>2. QED
        BY <2>1, <4>1
    <3>7. QED
      BY <3>5, <3>6
  <2>4. QED
    BY <2>2, <2>3
<1>7. \A k \in 1 .. n : at[k] = IF k <= m THEN s[k] ELSE Nil
  BY <1>6
<1>8. m <= n
  BY <1>1
<1> HIDE DEF Right, Bad
<1>9. {k \in 1 .. n : at[k] # Nil} = 1 .. m
  <2>1. ASSUME NEW k \in 1 .. n, at[k] # Nil PROVE k \in 1 .. m
    BY <1>1, <1>7, <2>1
  <2>2. ASSUME NEW k \in 1 .. m PROVE k \in 1 .. n /\ at[k] # Nil
    <3>1. k \in 1 .. n /\ k <= m
      BY <1>1, <1>8
    <3>2. at[k] = s[k]
      BY <1>7, <3>1
    <3>3. QED
      BY <1>4, <3>1, <3>2 DEF Nil
  <2>3. QED
    BY <2>1, <2>2
<1>10. Cardinality(1 .. m) = m
  <2>1. PICK a : a = 1
    OBVIOUS
  <2>2. a \in Int /\ m \in Int
    BY <1>1, <2>1
  <2>3. Cardinality(a .. m) = IF a > m THEN 0 ELSE m - a + 1
    BY <2>2, FS_Interval
  <2>4. QED
    BY <1>1, <2>1, <2>3
<1>11. Visit(l, first, link) = [k \in 1 .. m |-> at[k]]
  <2>1. Visit(l, first, link) =
          [k \in 1 .. Cardinality({k \in 1 .. n : at[k] # Nil}) |-> at[k]]
    BY <1>2, Zenon DEF Visit
  <2>2. QED
    BY <1>9, <1>10, <2>1, Zenon
<1>12. \A k \in 1 .. m : at[k] = s[k]
  <2>1. \A k \in 1 .. m : k \in 1 .. n /\ k <= m
    BY <1>1, <1>8
  <2>2. QED
    BY <1>7, <2>1
<1>13. s = [k \in 1 .. m |-> s[k]]
  BY <1>1, LenProperties
<1>14. QED
  BY <1>11, <1>12, <1>13

\* The fields of a list over the values V, its nodes numbered from 1.
Heap(V) == [size : Int, head : Nat, tail : Nat, next : Seq(Nat), prev : Seq(Nat),
            val : Seq(V)]

\* Every node has all its fields, and no link leads outside the heap.
HeapOK(l, V) ==
    /\ l \in Heap(V)
    /\ Len(l.next) = Len(l.val) /\ Len(l.prev) = Len(l.val)
    /\ l.head <= Len(l.val) /\ l.tail <= Len(l.val)
    /\ \A i \in 1 .. Len(l.val) : l.next[i] <= Len(l.val) /\ l.prev[i] <= Len(l.val)

LEMMA HeapTyped ==
  ASSUME NEW V, NEW l, HeapOK(l, V)
  PROVE  /\ Len(l.val) \in Nat /\ l.size \in Int
         /\ l.val \in [1 .. Len(l.val) -> V] /\ l.val \in Seq(V)
         /\ l.next \in Seq(Nat) /\ l.prev \in Seq(Nat)
         /\ Len(l.next) = Len(l.val) /\ Len(l.prev) = Len(l.val)
         /\ l.head \in 0 .. Len(l.val) /\ l.tail \in 0 .. Len(l.val)
         /\ l.next \in [1 .. Len(l.val) -> 0 .. Len(l.val)]
         /\ l.prev \in [1 .. Len(l.val) -> 0 .. Len(l.val)]
<1>1. /\ l.size \in Int /\ l.val \in Seq(V) /\ l.next \in Seq(Nat)
      /\ l.prev \in Seq(Nat) /\ l.head \in Nat /\ l.tail \in Nat
  BY DEF HeapOK, Heap
<1>2. PICK n : n = Len(l.val) /\ n \in Nat
  BY <1>1, LenProperties
<1>3. Len(l.next) = n /\ Len(l.prev) = n
  BY <1>2 DEF HeapOK
<1>4. /\ l.val \in [1 .. n -> V] /\ l.next \in [1 .. n -> Nat]
      /\ l.prev \in [1 .. n -> Nat]
  BY <1>1, <1>2, <1>3, LenProperties
<1>5. \A i \in 1 .. n : l.next[i] \in 0 .. n /\ l.prev[i] \in 0 .. n
  BY <1>2, <1>4 DEF HeapOK
<1>6. l.next \in [1 .. n -> 0 .. n] /\ l.prev \in [1 .. n -> 0 .. n]
  BY <1>4, <1>5
<1>7. l.head \in 0 .. n /\ l.tail \in 0 .. n
  BY <1>1, <1>2 DEF HeapOK
<1>8. QED
  BY <1>1, <1>2, <1>3, <1>4, <1>6, <1>7

\* A field of the k nodes of a heap is a sequence.
LEMMA FieldSeq ==
  ASSUME NEW k \in Nat
  PROVE  /\ \A f \in [1 .. k -> 0 .. k] : f \in Seq(Nat) /\ Len(f) = k
         /\ \A V : \A f \in [1 .. k -> V] : f \in Seq(V) /\ Len(f) = k
<1>1. ASSUME NEW V, NEW f \in [1 .. k -> V] PROVE f \in Seq(V) /\ Len(f) = k
  <2>1. f \in Seq(V)
    BY IsASeq
  <2>2. QED
    BY <2>1, LenProperties
<1>2. ASSUME NEW f \in [1 .. k -> 0 .. k] PROVE f \in Seq(Nat) /\ Len(f) = k
  <2>1. f \in [1 .. k -> Nat]
    OBVIOUS
  <2>2. QED
    BY <1>1, <2>1
<1>3. QED
  BY <1>1, <1>2

\* Fields that make a heap.
LEMMA HeapMade ==
  ASSUME NEW V, NEW k \in Nat, NEW l \in Heap(V), l.head \in 0 .. k,
         l.tail \in 0 .. k, l.next \in [1 .. k -> 0 .. k],
         l.prev \in [1 .. k -> 0 .. k], l.val \in [1 .. k -> V]
  PROVE  HeapOK(l, V) /\ Len(l.val) = k
<1>1. Len(l.next) = k /\ Len(l.prev) = k /\ Len(l.val) = k
  BY FieldSeq
<1>2. \A i \in 1 .. k : l.next[i] <= k /\ l.prev[i] <= k
  OBVIOUS
<1>3. l.head <= k /\ l.tail <= k
  OBVIOUS
<1>4. QED
  BY <1>1, <1>2, <1>3 DEF HeapOK

\* q is the heap l with a new node k, its value v and its links p and x.
WithNode(q, l, V, n, k, v, p, x) ==
    /\ q \in Heap(V) /\ n \in Nat /\ k \in Nat
    /\ q.size = l.size /\ q.head = l.head /\ q.tail = l.tail
    /\ q.val \in [1 .. k -> V] /\ q.val[k] = v
    /\ \A j \in 1 .. n : q.val[j] = l.val[j]
    /\ q.prev \in [1 .. k -> 0 .. k] /\ q.prev[k] = p
    /\ \A j \in 1 .. n : q.prev[j] = l.prev[j]
    /\ q.next \in [1 .. k -> 0 .. k] /\ q.next[k] = x
    /\ \A j \in 1 .. n : q.next[j] = l.next[j]

LEMMA NewFields ==
  ASSUME NEW V, NEW l, HeapOK(l, V), NEW v \in V, NEW n, n = Len(l.val),
         NEW k, k = n + 1, NEW p \in 0 .. k, NEW x \in 0 .. k,
         NEW q, q = New(l, v, p, x)
  PROVE  WithNode(q, l, V, n, k, v, p, x)
<1>1. /\ n \in Nat /\ l.val \in [1 .. n -> V]
      /\ l.next \in [1 .. n -> 0 .. n] /\ l.prev \in [1 .. n -> 0 .. n]
  BY HeapTyped
<1>2. PICK a, b, c : a = Append(l.val, v) /\ b = Append(l.prev, p)
                     /\ c = Append(l.next, x)
  OBVIOUS
<1>3. 0 .. n \subseteq 0 .. k /\ k \in Nat
  BY <1>1
<1>4. /\ a \in [1 .. k -> V] /\ a[k] = v
      /\ \A j \in 1 .. n : a[j] = l.val[j]
  <2>1. PICK f : f = l.val
    OBVIOUS
  <2>2. f \in Seq(V) /\ n = Len(f) /\ a = Append(f, v)
    BY <1>1, <1>2, <2>1, FieldSeq
  <2>3. /\ a \in Seq(V) /\ Len(a) = Len(f) + 1 /\ a[Len(f) + 1] = v
        /\ \A j \in 1 .. Len(f) : a[j] = f[j]
    BY <2>2, AppendTyped
  <2>4. Len(a) = k
    BY <2>2, <2>3
  <2>5. a \in [1 .. k -> V]
    BY <2>3, <2>4, LenProperties
  <2>6. QED
    BY <2>1, <2>2, <2>3, <2>5
<1>5. /\ b \in [1 .. k -> 0 .. k] /\ b[k] = p
      /\ \A j \in 1 .. n : b[j] = l.prev[j]
  <2>1. PICK f, X : f = l.prev /\ X = 0 .. k
    OBVIOUS
  <2>2. /\ f \in Seq(X) /\ n = Len(f) /\ b = Append(f, p) /\ p \in X
    <3>1. f \in [1 .. n -> X]
      BY <1>1, <1>3, <2>1
    <3>2. QED
      BY <1>1, <1>2, <2>1, <3>1, FieldSeq
  <2>3. /\ b \in Seq(X) /\ Len(b) = Len(f) + 1 /\ b[Len(f) + 1] = p
        /\ \A j \in 1 .. Len(f) : b[j] = f[j]
    BY <2>2, AppendTyped
  <2>4. Len(b) = k
    BY <2>2, <2>3
  <2>5. b \in [1 .. k -> X]
    BY <2>3, <2>4, LenProperties
  <2>6. QED
    BY <2>1, <2>2, <2>3, <2>5
<1>6. /\ c \in [1 .. k -> 0 .. k] /\ c[k] = x
      /\ \A j \in 1 .. n : c[j] = l.next[j]
  <2>1. PICK f, X : f = l.next /\ X = 0 .. k
    OBVIOUS
  <2>2. /\ f \in Seq(X) /\ n = Len(f) /\ c = Append(f, x) /\ x \in X
    <3>1. f \in [1 .. n -> X]
      BY <1>1, <1>3, <2>1
    <3>2. QED
      BY <1>1, <1>2, <2>1, <3>1, FieldSeq
  <2>3. /\ c \in Seq(X) /\ Len(c) = Len(f) + 1 /\ c[Len(f) + 1] = x
        /\ \A j \in 1 .. Len(f) : c[j] = f[j]
    BY <2>2, AppendTyped
  <2>4. Len(c) = k
    BY <2>2, <2>3
  <2>5. c \in [1 .. k -> X]
    BY <2>3, <2>4, LenProperties
  <2>6. QED
    BY <2>1, <2>2, <2>3, <2>5
<1>7. q = [l EXCEPT !.val = a, !.prev = b, !.next = c]
  BY <1>2 DEF New
<1>8. l \in Heap(V)
  BY DEF HeapOK
<1>9. a \in Seq(V) /\ b \in Seq(Nat) /\ c \in Seq(Nat)
  BY <1>3, <1>4, <1>5, <1>6, FieldSeq
<1>10. /\ q \in Heap(V) /\ q.val = a /\ q.prev = b /\ q.next = c
       /\ q.size = l.size /\ q.head = l.head /\ q.tail = l.tail
  BY <1>7, <1>8, <1>9 DEF Heap
<1>11. QED
  BY <1>1, <1>3, <1>4, <1>5, <1>6, <1>10 DEF WithNode

\* What Append makes of the fields of a heap l of n nodes, with k the new one.
Appended(m, l, V, n, k, v) ==
    /\ HeapOK(m, V) /\ n \in Nat /\ Len(m.val) = k
    /\ m.size = l.size + 1 /\ m.tail = k
    /\ m.head = IF l.tail = Nil THEN k ELSE l.head
    /\ m.val[k] = v /\ \A j \in 1 .. n : m.val[j] = l.val[j]
    /\ m.prev[k] = l.tail /\ \A j \in 1 .. n : m.prev[j] = l.prev[j]
    /\ m.next[k] = Nil
    /\ \A j \in 1 .. n : m.next[j] = IF j = l.tail THEN k ELSE l.next[j]

LEMMA AppendFields ==
  ASSUME NEW V, NEW l, HeapOK(l, V), NEW v \in V, NEW n, n = Len(l.val),
         NEW k, k = n + 1, NEW m, m = AppendList(l, v)
  PROVE  Appended(m, l, V, n, k, v)
<1>1. /\ n \in Nat /\ l.size \in Int /\ l.head \in 0 .. n /\ l.tail \in 0 .. n
  BY HeapTyped
<1>2. /\ l.tail \in 0 .. k /\ l.head \in 0 .. k /\ Nil \in 0 .. k /\ k \in 0 .. k
      /\ l.size + 1 \in Int /\ k \in Nat
  BY <1>1 DEF Nil
<1>3. PICK q : q = New(l, v, l.tail, Nil)
  OBVIOUS
<1>4. /\ q \in Heap(V)
      /\ q.size = l.size /\ q.head = l.head /\ q.tail = l.tail
      /\ q.val \in [1 .. k -> V] /\ q.val[k] = v
      /\ \A j \in 1 .. n : q.val[j] = l.val[j]
      /\ q.prev \in [1 .. k -> 0 .. k] /\ q.prev[k] = l.tail
      /\ \A j \in 1 .. n : q.prev[j] = l.prev[j]
      /\ q.next \in [1 .. k -> 0 .. k] /\ q.next[k] = Nil
      /\ \A j \in 1 .. n : q.next[j] = l.next[j]
  <2>1. PICK p, x : p = l.tail /\ x = Nil
    OBVIOUS
  <2>2. p \in 0 .. k /\ x \in 0 .. k /\ q = New(l, v, p, x)
    BY <1>2, <1>3, <2>1
  <2>3. WithNode(q, l, V, n, k, v, p, x)
    BY <2>2, NewFields
  <2>4. QED
    BY <2>1, <2>3 DEF WithNode
<1>5. PICK m1 : m1 = [q EXCEPT !.size = l.size + 1, !.tail = k]
  OBVIOUS
<1>6. /\ m1 \in Heap(V) /\ m1.size = l.size + 1 /\ m1.tail = k
      /\ m1.head = l.head /\ m1.val = q.val /\ m1.prev = q.prev /\ m1.next = q.next
  BY <1>2, <1>4, <1>5 DEF Heap
<1>7. m = IF l.tail = Nil THEN [m1 EXCEPT !.head = k]
          ELSE [m1 EXCEPT !.next[l.tail] = k]
  BY <1>3, <1>4, <1>5 DEF AppendList, NewNode
<1>8. CASE l.tail = Nil
  <2>1. /\ m \in Heap(V) /\ m.size = l.size + 1 /\ m.tail = k
        /\ m.head = k /\ m.val = q.val /\ m.prev = q.prev /\ m.next = q.next
    BY <1>2, <1>6, <1>7, <1>8 DEF Heap
  <2>2. HeapOK(m, V) /\ Len(m.val) = k
    BY <1>2, <1>4, <2>1, HeapMade
  <2>3. \A j \in 1 .. n : j # l.tail
    BY <1>8 DEF Nil
  <2>4. QED
    BY <1>1, <1>4, <1>8, <2>1, <2>2, <2>3 DEF Appended
<1>9. CASE l.tail # Nil
  <2>1. PICK f : f = [q.next EXCEPT ![l.tail] = k]
    OBVIOUS
  <2>2. m = [m1 EXCEPT !.next = f]
    BY <1>6, <1>7, <1>9, <2>1
  <2>3. f \in [1 .. k -> 0 .. k] /\ f \in Seq(Nat)
    BY <1>2, <1>4, <2>1, FieldSeq
  <2>4. /\ m \in Heap(V) /\ m.size = l.size + 1 /\ m.tail = k
        /\ m.head = l.head /\ m.val = q.val /\ m.prev = q.prev /\ m.next = f
    BY <1>6, <2>2, <2>3 DEF Heap
  <2>5. HeapOK(m, V) /\ Len(m.val) = k
    BY <1>2, <1>4, <2>3, <2>4, HeapMade
  <2>6. /\ f[k] = Nil
        /\ \A j \in 1 .. n : f[j] = IF j = l.tail THEN k ELSE l.next[j]
    <3>1. k \in 1 .. k /\ l.tail # k /\ \A j \in 1 .. n : j \in 1 .. k
      BY <1>1
    <3>2. QED
      BY <1>4, <2>1, <3>1
  <2>7. QED
    BY <1>1, <1>4, <1>9, <2>4, <2>5, <2>6 DEF Appended
<1>10. QED
  BY <1>8, <1>9

\* What Insert makes of them: the new node goes between p and x.
Inserted(m, l, V, n, k, v, p, x) ==
    /\ HeapOK(m, V) /\ n \in Nat /\ Len(m.val) = k
    /\ m.size = l.size + 1 /\ m.head = l.head
    /\ m.tail = IF x = Nil THEN k ELSE l.tail
    /\ m.val[k] = v /\ \A j \in 1 .. n : m.val[j] = l.val[j]
    /\ m.prev[k] = p /\ m.next[k] = x
    /\ \A j \in 1 .. n : m.prev[j] = IF j = x THEN k ELSE l.prev[j]
    /\ \A j \in 1 .. n : m.next[j] = IF j = p THEN k ELSE l.next[j]

LEMMA InsertFields ==
  ASSUME NEW V, NEW l, HeapOK(l, V), NEW v \in V, NEW n, n = Len(l.val),
         NEW k, k = n + 1, NEW i \in 1 .. n,
         NEW x, x = l.next[i], NEW p, p = (IF x = Nil THEN l.tail ELSE i),
         NEW m, m = Insert(l, v, i)
  PROVE  Inserted(m, l, V, n, k, v, p, x)
<1>1. /\ n \in Nat /\ l.size \in Int /\ l.head \in 0 .. n /\ l.tail \in 0 .. n
      /\ x \in 0 .. n
  <2>1. /\ n \in Nat /\ l.size \in Int /\ l.head \in 0 .. n /\ l.tail \in 0 .. n
        /\ l.next \in [1 .. n -> 0 .. n]
    BY HeapTyped
  <2>2. QED
    BY <2>1 DEF Nil
<1>3. /\ p \in 0 .. n /\ p \in 0 .. k /\ x \in 0 .. k /\ k \in 0 .. k
      /\ l.tail \in 0 .. k /\ l.head \in 0 .. k
      /\ l.size + 1 \in Int /\ k \in Nat /\ k \in 1 .. k
      /\ \A j \in 1 .. n : j \in 1 .. k /\ j # k
  BY <1>1
<1>4. PICK q : q = New(l, v, p, x)
  OBVIOUS
<1>5. /\ q \in Heap(V)
      /\ q.size = l.size /\ q.head = l.head /\ q.tail = l.tail
      /\ q.val \in [1 .. k -> V] /\ q.val[k] = v
      /\ \A j \in 1 .. n : q.val[j] = l.val[j]
      /\ q.prev \in [1 .. k -> 0 .. k] /\ q.prev[k] = p
      /\ \A j \in 1 .. n : q.prev[j] = l.prev[j]
      /\ q.next \in [1 .. k -> 0 .. k] /\ q.next[k] = x
      /\ \A j \in 1 .. n : q.next[j] = l.next[j]
  <2>1. WithNode(q, l, V, n, k, v, p, x)
    BY <1>3, <1>4, NewFields
  <2>2. QED
    BY <2>1 DEF WithNode
<1>6. PICK m1 : m1 = [q EXCEPT !.size = l.size + 1]
  OBVIOUS
<1>7. /\ m1 \in Heap(V) /\ m1.size = l.size + 1 /\ m1.tail = l.tail
      /\ m1.head = l.head /\ m1.val = q.val /\ m1.prev = q.prev /\ m1.next = q.next
  BY <1>3, <1>5, <1>6 DEF Heap
<1>8. m = IF x = Nil THEN [m1 EXCEPT !.tail = k, !.next[l.tail] = k]
          ELSE [m1 EXCEPT !.next[i] = k, !.prev[x] = k]
  <2>1. m1 = [New(l, v, IF x = Nil THEN l.tail ELSE i, x) EXCEPT !.size = @ + 1]
    BY <1>4, <1>5, <1>6
  <2>2. k = NewNode(l)
    BY DEF NewNode
  <2>3. QED
    BY <2>1, <2>2, Zenon DEF Insert
<1>9. PICK f, g : /\ f = [q.next EXCEPT ![p] = k]
                  /\ g = IF x = Nil THEN q.prev ELSE [q.prev EXCEPT ![x] = k]
  OBVIOUS
<1>10. /\ f \in [1 .. k -> 0 .. k] /\ f \in Seq(Nat) /\ f[k] = x
       /\ \A j \in 1 .. n : f[j] = IF j = p THEN k ELSE l.next[j]
  <2>1. f \in [1 .. k -> 0 .. k]
    BY <1>3, <1>5, <1>9
  <2>2. f \in Seq(Nat)
    BY <1>3, <2>1, FieldSeq
  <2>3. p # k
    BY <1>3
  <2>4. QED
    BY <1>3, <1>5, <1>9, <2>1, <2>2, <2>3
<1>11. /\ g \in [1 .. k -> 0 .. k] /\ g \in Seq(Nat) /\ g[k] = p
       /\ \A j \in 1 .. n : g[j] = IF j = x THEN k ELSE l.prev[j]
  <2>1. g \in [1 .. k -> 0 .. k]
    BY <1>3, <1>5, <1>9
  <2>2. g \in Seq(Nat)
    BY <1>3, <2>1, FieldSeq
  <2>3. x # k /\ \A j \in 1 .. n : j # Nil
    BY <1>1 DEF Nil
  <2>4. QED
    BY <1>3, <1>5, <1>9, <2>1, <2>2, <2>3
<1>12. /\ m \in Heap(V) /\ m.size = l.size + 1 /\ m.head = l.head
       /\ m.tail = IF x = Nil THEN k ELSE l.tail
       /\ m.val = q.val /\ m.prev = g /\ m.next = f
  <2>1. CASE x = Nil
    <3>1. m = [m1 EXCEPT !.tail = k, !.next = f]
      BY <1>7, <1>8, <1>9, <2>1
    <3>2. QED
      BY <1>3, <1>7, <1>9, <1>10, <2>1, <3>1 DEF Heap
  <2>2. CASE x # Nil
    <3>1. m = [m1 EXCEPT !.next = f, !.prev = g]
      BY <1>7, <1>8, <1>9, <2>2
    <3>2. QED
      BY <1>3, <1>7, <1>9, <1>10, <1>11, <2>2, <3>1 DEF Heap
  <2>3. QED
    BY <2>1, <2>2
<1>13. HeapOK(m, V) /\ Len(m.val) = k
  <2>1. /\ m \in Heap(V) /\ m.head \in 0 .. k /\ m.tail \in 0 .. k
        /\ m.next \in [1 .. k -> 0 .. k] /\ m.prev \in [1 .. k -> 0 .. k]
        /\ m.val \in [1 .. k -> V]
    BY <1>3, <1>5, <1>10, <1>11, <1>12
  <2>2. QED
    BY <1>3, <2>1, HeapMade
<1>14. /\ m.prev[k] = p /\ m.next[k] = x
       /\ \A j \in 1 .. n : m.prev[j] = IF j = x THEN k ELSE l.prev[j]
       /\ \A j \in 1 .. n : m.next[j] = IF j = p THEN k ELSE l.next[j]
  BY <1>10, <1>11, <1>12
<1>15. m.val[k] = v /\ \A j \in 1 .. n : m.val[j] = l.val[j]
  BY <1>5, <1>12
<1>16. QED
  BY <1>1, <1>12, <1>13, <1>14, <1>15 DEF Inserted

\* What ChangeValue makes of them.
Changed(m, l, V, n, i, v) ==
    /\ HeapOK(m, V) /\ n \in Nat /\ Len(m.val) = n
    /\ m.size = l.size /\ m.head = l.head /\ m.tail = l.tail
    /\ m.next = l.next /\ m.prev = l.prev
    /\ \A j \in 1 .. n : m.val[j] = IF j = i THEN v ELSE l.val[j]

LEMMA ChangeFields ==
  ASSUME NEW V, NEW l, HeapOK(l, V), NEW v \in V, NEW n, n = Len(l.val),
         NEW i \in 1 .. n, NEW m, m = ChangeValue(l, i, v)
  PROVE  Changed(m, l, V, n, i, v)
<1>1. /\ n \in Nat /\ l.val \in [1 .. n -> V]
      /\ l.head \in 0 .. n /\ l.tail \in 0 .. n
      /\ l.next \in [1 .. n -> 0 .. n] /\ l.prev \in [1 .. n -> 0 .. n]
  BY HeapTyped
<1>2. PICK f : f = [l.val EXCEPT ![i] = v]
  OBVIOUS
<1>3. f \in [1 .. n -> V] /\ \A j \in 1 .. n : f[j] = IF j = i THEN v ELSE l.val[j]
  BY <1>1, <1>2
<1>4. f \in Seq(V)
  BY <1>1, <1>3, FieldSeq
<1>5. l \in Heap(V) /\ m = [l EXCEPT !.val = f]
  BY <1>2 DEF HeapOK, ChangeValue
<1>6. /\ m \in Heap(V) /\ m.size = l.size /\ m.head = l.head /\ m.tail = l.tail
      /\ m.next = l.next /\ m.prev = l.prev /\ m.val = f
  BY <1>4, <1>5 DEF Heap
<1>7. HeapOK(m, V) /\ Len(m.val) = n
  <2>1. /\ m.head \in 0 .. n /\ m.tail \in 0 .. n
        /\ m.next \in [1 .. n -> 0 .. n] /\ m.prev \in [1 .. n -> 0 .. n]
        /\ m.val \in [1 .. n -> V]
    BY <1>1, <1>3, <1>6
  <2>2. QED
    BY <1>1, <1>6, <2>1, HeapMade
<1>8. QED
  BY <1>1, <1>3, <1>6, <1>7 DEF Changed

\* What Remove makes of them: p and x were the neighbours of the node.
Removed(m, l, V, n, p, x) ==
    /\ HeapOK(m, V) /\ n \in Nat /\ Len(m.val) = n
    /\ m.size = l.size - 1 /\ m.val = l.val
    /\ m.head = IF p = Nil THEN x ELSE l.head
    /\ m.tail = IF x = Nil THEN p ELSE l.tail
    /\ \A j \in 1 .. n : m.next[j] = IF j = p THEN x ELSE l.next[j]
    /\ \A j \in 1 .. n : m.prev[j] = IF j = x THEN p ELSE l.prev[j]

LEMMA RemoveFields ==
  ASSUME NEW V, NEW l, HeapOK(l, V), NEW n, n = Len(l.val), NEW i \in 1 .. n,
         NEW p, p = l.prev[i], NEW x, x = l.next[i], NEW m, m = RemoveNode(l, i)
  PROVE  Removed(m, l, V, n, p, x)
<1>1. /\ n \in Nat /\ l.size \in Int /\ l.val \in [1 .. n -> V]
      /\ l.head \in 0 .. n /\ l.tail \in 0 .. n
      /\ l.next \in [1 .. n -> 0 .. n] /\ l.prev \in [1 .. n -> 0 .. n]
  BY HeapTyped
<1>2. /\ p \in 0 .. n /\ x \in 0 .. n /\ p \in Nat /\ x \in Nat /\ Nil \in Nat
      /\ (p # Nil => p \in 1 .. n) /\ (x # Nil => x \in 1 .. n)
      /\ \A j \in 1 .. n : j # Nil
  BY <1>1 DEF Nil
<1>3. PICK f, g, h, t :
         /\ f = IF p = Nil THEN l.next ELSE [l.next EXCEPT ![p] = x]
         /\ g = IF x = Nil THEN l.prev ELSE [l.prev EXCEPT ![x] = p]
         /\ h = IF p = Nil THEN x ELSE l.head
         /\ t = IF x = Nil THEN p ELSE l.tail
  OBVIOUS
<1>4. /\ f \in [1 .. n -> 0 .. n]
      /\ \A j \in 1 .. n : f[j] = IF j = p THEN x ELSE l.next[j]
  <2>1. CASE p = Nil
    BY <1>1, <1>2, <1>3, <2>1
  <2>2. CASE p # Nil
    BY <1>1, <1>2, <1>3, <2>2
  <2>3. QED
    BY <2>1, <2>2
<1>5. /\ g \in [1 .. n -> 0 .. n]
      /\ \A j \in 1 .. n : g[j] = IF j = x THEN p ELSE l.prev[j]
  <2>1. CASE x = Nil
    BY <1>1, <1>2, <1>3, <2>1
  <2>2. CASE x # Nil
    BY <1>1, <1>2, <1>3, <2>2
  <2>3. QED
    BY <2>1, <2>2
<1>6. f \in Seq(Nat) /\ g \in Seq(Nat)
  BY <1>1, <1>4, <1>5, FieldSeq
<1>7. h \in 0 .. n /\ t \in 0 .. n /\ h \in Nat /\ t \in Nat
  BY <1>1, <1>2, <1>3
<1>8. PICK m0 : m0 = [l EXCEPT !.size = l.size - 1]
  OBVIOUS
<1>9. /\ m0 \in Heap(V) /\ m0.size = l.size - 1 /\ m0.head = l.head
      /\ m0.tail = l.tail /\ m0.next = l.next /\ m0.prev = l.prev /\ m0.val = l.val
  <2>1. l \in Heap(V) /\ l.size - 1 \in Int
    BY <1>1 DEF HeapOK
  <2>2. QED
    BY <1>8, <2>1 DEF Heap
<1>10. m = CASE p = Nil /\ x = Nil -> [m0 EXCEPT !.head = Nil, !.tail = Nil]
             [] p = Nil /\ x # Nil -> [m0 EXCEPT !.head = x, !.prev[x] = Nil]
             [] p # Nil /\ x = Nil -> [m0 EXCEPT !.tail = p, !.next[p] = Nil]
             [] OTHER -> [m0 EXCEPT !.next[p] = x, !.prev[x] = p]
  <2>1. m0 = [l EXCEPT !.size = @ - 1]
    BY <1>8
  <2>2. QED
    BY <2>1, Zenon DEF RemoveNode
<1>11. /\ m \in Heap(V) /\ m.size = l.size - 1 /\ m.val = l.val
       /\ m.head = h /\ m.tail = t /\ m.next = f /\ m.prev = g
  <2>1. CASE p = Nil /\ x = Nil
    <3>1. m = [m0 EXCEPT !.head = Nil, !.tail = Nil]
      BY <1>10, <2>1
    <3>2. h = Nil /\ t = Nil /\ f = l.next /\ g = l.prev
      BY <1>3, <2>1
    <3>3. QED
      BY <1>2, <1>9, <3>1, <3>2 DEF Heap
  <2>2. CASE p = Nil /\ x # Nil
    <3>1. m = [m0 EXCEPT !.head = x, !.prev[x] = Nil]
      BY <1>10, <2>2
    <3>2. h = x /\ t = l.tail /\ f = l.next /\ g = [l.prev EXCEPT ![x] = Nil]
      BY <1>3, <2>2
    <3>3. m = [m0 EXCEPT !.head = x, !.prev = g]
      BY <1>9, <3>1, <3>2
    <3>4. QED
      BY <1>2, <1>6, <1>9, <3>2, <3>3 DEF Heap
  <2>3. CASE p # Nil /\ x = Nil
    <3>1. m = [m0 EXCEPT !.tail = p, !.next[p] = Nil]
      BY <1>10, <2>3
    <3>2. h = l.head /\ t = p /\ g = l.prev /\ f = [l.next EXCEPT ![p] = Nil]
      BY <1>3, <2>3
    <3>3. m = [m0 EXCEPT !.tail = p, !.next = f]
      BY <1>9, <3>1, <3>2
    <3>4. QED
      BY <1>2, <1>6, <1>9, <3>2, <3>3 DEF Heap
  <2>4. CASE p # Nil /\ x # Nil
    <3>1. m = [m0 EXCEPT !.next[p] = x, !.prev[x] = p]
      BY <1>10, <2>4
    <3>2. /\ h = l.head /\ t = l.tail
          /\ g = [l.prev EXCEPT ![x] = p] /\ f = [l.next EXCEPT ![p] = x]
      BY <1>3, <2>4
    <3>3. m = [m0 EXCEPT !.next = f, !.prev = g]
      BY <1>9, <3>1, <3>2
    <3>4. QED
      BY <1>2, <1>6, <1>9, <3>2, <3>3 DEF Heap
  <2>5. QED
    BY <2>1, <2>2, <2>3, <2>4
<1>12. HeapOK(m, V) /\ Len(m.val) = n
  <2>1. /\ m.head \in 0 .. n /\ m.tail \in 0 .. n
        /\ m.next \in [1 .. n -> 0 .. n] /\ m.prev \in [1 .. n -> 0 .. n]
        /\ m.val \in [1 .. n -> V]
    BY <1>1, <1>4, <1>5, <1>7, <1>11
  <2>2. QED
    BY <1>1, <1>11, <2>1, HeapMade
<1>13. QED
  BY <1>1, <1>3, <1>4, <1>5, <1>11, <1>12 DEF Removed

\* The heap l of n nodes links the c nodes of s in their order, in both
\* directions.
LinkedBy(s, l, n, c) ==
    /\ s \in [1 .. c -> 1 .. n] /\ c \in Nat /\ n \in Nat /\ c <= n /\ l.size = c
    /\ \A i, j \in 1 .. c : s[i] = s[j] => i = j
    /\ l.head = IF c = 0 THEN Nil ELSE s[1]
    /\ l.tail = IF c = 0 THEN Nil ELSE s[c]
    /\ \A i \in 1 .. c : l.next[s[i]] = IF i = c THEN Nil ELSE s[i + 1]
    /\ \A i \in 1 .. c : l.prev[s[i]] = IF i = 1 THEN Nil ELSE s[i - 1]

Linked(s, l) == LinkedBy(s, l, Len(l.val), Len(s))

LEMMA LinkedIs ==
  ASSUME NEW s, NEW l, Linked(s, l), NEW n, n = Len(l.val), NEW c, c = Len(s)
  PROVE  LinkedBy(s, l, n, c) /\ s \in Seq(1 .. n) /\ DOMAIN s = 1 .. c
<1>1. LinkedBy(s, l, n, c)
  BY Zenon DEF Linked
<1>2. s \in [1 .. c -> 1 .. n] /\ c \in Nat
  BY <1>1 DEF LinkedBy
<1>3. QED
  BY <1>1, <1>2, FieldSeq

\* Iterations in both directions visit the nodes of s.
LEMMA LinkedNodes ==
  ASSUME NEW V, NEW l, HeapOK(l, V), NEW s, Linked(s, l)
  PROVE  Nodes(l) = s /\ NodesReverse(l) = Reverse(s)
<1>0. PICK n, c : n = Len(l.val) /\ c = Len(s)
  OBVIOUS
<1>1. /\ s \in Seq(1 .. n) /\ c \in Nat /\ c <= n
      /\ \A i \in 1 .. c : s[i] \in 1 .. n
      /\ l.head = IF c = 0 THEN Nil ELSE s[1]
      /\ l.tail = IF c = 0 THEN Nil ELSE s[c]
      /\ \A i \in 1 .. c : l.next[s[i]] = IF i = c THEN Nil ELSE s[i + 1]
      /\ \A i \in 1 .. c : l.prev[s[i]] = IF i = 1 THEN Nil ELSE s[i - 1]
  <2>1. LinkedBy(s, l, n, c) /\ s \in Seq(1 .. n)
    BY <1>0, LinkedIs
  <2>2. QED
    BY <2>1 DEF LinkedBy
<1>2. /\ n \in Nat /\ l.head \in 0 .. n /\ l.tail \in 0 .. n
      /\ l.next \in [1 .. n -> 0 .. n] /\ l.prev \in [1 .. n -> 0 .. n]
  BY <1>0, HeapTyped
<1>3. Nodes(l) = s
  <2>1. PICK first, link : first = l.head /\ link = l.next
    OBVIOUS
  <2>2. Follows(s, first, link)
    BY <1>0, <1>1, <2>1 DEF Follows
  <2>3. first \in 0 .. n /\ link \in [1 .. n -> 0 .. n]
    BY <1>2, <2>1
  <2>4. Visit(l, first, link) = s
    BY <1>0, <1>1, <1>2, <2>2, <2>3, VisitIs
  <2>5. QED
    BY <2>1, <2>4 DEF Nodes
<1>4. NodesReverse(l) = Reverse(s)
  <2>1. PICK first, link, r : first = l.tail /\ link = l.prev /\ r = Reverse(s)
    OBVIOUS
  <2>2. r = [i \in 1 .. c |-> s[(c - i) + 1]]
    BY <1>0, <2>1 DEF Reverse
  <2>3. \A i \in 1 .. c : (c - i) + 1 \in 1 .. c /\ r[i] = s[(c - i) + 1]
    BY <1>1, <2>2
  <2>4. r \in [1 .. c -> 1 .. n]
    BY <1>1, <2>2, <2>3
  <2>5. r \in Seq(1 .. n) /\ Len(r) = c
    BY <1>1, <2>4, FieldSeq
  <2>6. ASSUME NEW i \in 1 .. c
        PROVE  link[r[i]] = IF i = c THEN Nil ELSE r[i + 1]
    <3>1. PICK j : j = (c - i) + 1
      OBVIOUS
    <3>2. j \in 1 .. c /\ r[i] = s[j] /\ (j = 1 <=> i = c)
      BY <1>1, <2>3, <3>1
    <3>3. i # c => i + 1 \in 1 .. c /\ (c - (i + 1)) + 1 = j - 1
      BY <1>1, <3>1
    <3>4. i # c => r[i + 1] = s[j - 1]
      BY <2>3, <3>3
    <3>5. l.prev[s[j]] = IF j = 1 THEN Nil ELSE s[j - 1]
      BY <1>1, <3>2
    <3>6. QED
      BY <2>1, <3>2, <3>4, <3>5
  <2>7. first = IF c = 0 THEN Nil ELSE r[1]
    <3>1. c # 0 => 1 \in 1 .. c /\ (c - 1) + 1 = c
      BY <1>1
    <3>2. c # 0 => r[1] = s[c]
      BY <2>3, <3>1
    <3>3. QED
      BY <1>1, <2>1, <3>2
  <2>8. Follows(r, first, link)
    BY <2>5, <2>6, <2>7 DEF Follows
  <2>9. first \in 0 .. n /\ link \in [1 .. n -> 0 .. n]
    BY <1>2, <2>1
  <2>10. Visit(l, first, link) = r
    BY <1>0, <1>1, <1>2, <2>5, <2>8, <2>9, VisitIs
  <2>11. QED
    BY <2>1, <2>10 DEF NodesReverse
<1>5. QED
  BY <1>3, <1>4

\* m is the heap l with a new node k for v, and links the nodes of t.
ListedWith(t, m, l, V, n, k, v) ==
    /\ HeapOK(m, V) /\ Linked(t, m) /\ Len(m.val) = k
    /\ m.val[k] = v /\ \A j \in 1 .. n : m.val[j] = l.val[j]

\* Append puts a new node at the end.
LEMMA AppendLinked ==
  ASSUME NEW V, NEW l, HeapOK(l, V), NEW s, Linked(s, l), NEW v \in V,
         NEW n, n = Len(l.val), NEW k, k = n + 1,
         NEW m, m = AppendList(l, v), NEW t, t = Append(s, k)
  PROVE  ListedWith(t, m, l, V, n, k, v)
<1>1. PICK c : c = Len(s)
  OBVIOUS
<1>2. LinkedBy(s, l, n, c) /\ s \in Seq(1 .. n)
  BY <1>1, LinkedIs
<1>3. /\ c \in Nat /\ n \in Nat /\ c <= n /\ l.size = c
      /\ \A i \in 1 .. c : s[i] \in 1 .. n
      /\ \A i, j \in 1 .. c : s[i] = s[j] => i = j
      /\ l.head = IF c = 0 THEN Nil ELSE s[1]
      /\ l.tail = IF c = 0 THEN Nil ELSE s[c]
      /\ \A i \in 1 .. c : l.next[s[i]] = IF i = c THEN Nil ELSE s[i + 1]
      /\ \A i \in 1 .. c : l.prev[s[i]] = IF i = 1 THEN Nil ELSE s[i - 1]
  BY <1>2 DEF LinkedBy
<1>4. /\ HeapOK(m, V) /\ Len(m.val) = k
      /\ m.size = l.size + 1 /\ m.tail = k
      /\ m.head = IF l.tail = Nil THEN k ELSE l.head
      /\ m.val[k] = v /\ \A j \in 1 .. n : m.val[j] = l.val[j]
      /\ m.prev[k] = l.tail /\ \A j \in 1 .. n : m.prev[j] = l.prev[j]
      /\ m.next[k] = Nil
      /\ \A j \in 1 .. n : m.next[j] = IF j = l.tail THEN k ELSE l.next[j]
  <2>1. Appended(m, l, V, n, k, v)
    BY AppendFields
  <2>2. QED
    BY <2>1 DEF Appended
<1>5. PICK d : d = c + 1
  OBVIOUS
<1>6. /\ t \in [1 .. d -> 1 .. k] /\ Len(t) = d /\ t[d] = k
      /\ \A i \in 1 .. c : t[i] = s[i]
  <2>1. s \in [1 .. c -> 1 .. k]
    BY <1>2, <1>3 DEF LinkedBy
  <2>2. s \in Seq(1 .. k) /\ k \in 1 .. k
    <3>1. s \in Seq(1 .. k)
      BY <1>3, <2>1, FieldSeq
    <3>2. QED
      BY <1>3, <3>1
  <2>3. /\ t \in Seq(1 .. k) /\ Len(t) = Len(s) + 1
        /\ \A i \in 1 .. Len(s) : t[i] = s[i]
        /\ t[Len(s) + 1] = k
    BY <2>2, AppendTyped
  <2>4. Len(t) = d
    BY <1>1, <1>5, <2>3
  <2>5. t \in [1 .. d -> 1 .. k]
    BY <2>3, <2>4, LenProperties
  <2>6. QED
    BY <1>1, <1>5, <2>3, <2>4, <2>5
<1>7. \A i \in 1 .. d : i \in 1 .. c \/ i = d
  BY <1>3, <1>5
<1>8. ASSUME NEW i \in 1 .. d, NEW j \in 1 .. d, t[i] = t[j] PROVE i = j
  <2>1. \A h \in 1 .. c : s[h] # k
    BY <1>3
  <2>2. QED
    BY <1>3, <1>6, <1>7, <1>8, <2>1
<1>9. ASSUME NEW i \in 1 .. d
      PROVE  m.next[t[i]] = IF i = d THEN Nil ELSE t[i + 1]
  <2>1. CASE i = d
    BY <1>4, <1>6, <2>1
  <2>2. CASE i \in 1 .. c
    <3>1. t[i] = s[i] /\ s[i] \in 1 .. n /\ i # d /\ c # 0 /\ c \in 1 .. c
      BY <1>3, <1>5, <1>6, <2>2
    <3>2. m.next[s[i]] = IF s[i] = s[c] THEN k ELSE l.next[s[i]]
      BY <1>3, <1>4, <3>1
    <3>3. CASE i = c
      BY <1>5, <1>6, <3>1, <3>2, <3>3
    <3>4. CASE i # c
      <4>1. s[i] # s[c] /\ l.next[s[i]] = s[i + 1] /\ i + 1 \in 1 .. c
        BY <1>3, <2>2, <3>1, <3>4
      <4>2. QED
        BY <1>6, <3>1, <3>2, <4>1
    <3>5. QED
      BY <3>3, <3>4
  <2>3. QED
    BY <1>7, <2>1, <2>2
<1>10. ASSUME NEW i \in 1 .. d
       PROVE  m.prev[t[i]] = IF i = 1 THEN Nil ELSE t[i - 1]
  <2>1. CASE i = d
    <3>1. m.prev[t[i]] = l.tail
      BY <1>4, <1>6, <2>1
    <3>2. CASE c = 0
      BY <1>3, <1>5, <2>1, <3>1, <3>2
    <3>3. CASE c # 0
      <4>1. i # 1 /\ i - 1 = c /\ c \in 1 .. c
        BY <1>3, <1>5, <2>1, <3>3
      <4>2. QED
        BY <1>3, <1>6, <3>1, <3>3, <4>1
    <3>4. QED
      BY <3>2, <3>3
  <2>2. CASE i \in 1 .. c
    <3>0. t[i] = s[i] /\ s[i] \in 1 .. n
      BY <1>3, <1>6, <2>2
    <3>1. /\ t[i] = s[i] /\ s[i] \in 1 .. n
          /\ m.prev[s[i]] = IF i = 1 THEN Nil ELSE s[i - 1]
      <4>1. l.prev[s[i]] = IF i = 1 THEN Nil ELSE s[i - 1]
        BY <1>3, <2>2
      <4>2. QED
        BY <1>4, <3>0, <4>1
    <3>2. i # 1 => i - 1 \in 1 .. c
      BY <2>2, <1>3
    <3>3. QED
      BY <1>6, <3>1, <3>2
  <2>3. QED
    BY <1>7, <2>1, <2>2
<1>11. m.head = t[1] /\ m.tail = t[d] /\ d # 0 /\ d \in Nat /\ d <= k /\ m.size = d
  <2>1. CASE c = 0
    BY <1>3, <1>4, <1>5, <1>6, <2>1
  <2>2. CASE c # 0
    <3>1. s[c] # Nil /\ 1 \in 1 .. c /\ c \in 1 .. c
      BY <1>3, <2>2 DEF Nil
    <3>2. QED
      BY <1>3, <1>4, <1>5, <1>6, <2>2, <3>1
  <2>3. QED
    BY <2>1, <2>2
<1>12. LinkedBy(t, m, k, d)
  <2>1. k \in Nat
    BY <1>3
  <2>2. QED
    BY <1>6, <1>8, <1>9, <1>10, <1>11, <2>1 DEF LinkedBy
<1>13. QED
  BY <1>4, <1>6, <1>12 DEF Linked, ListedWith

\* Insert puts a new node after the a-th.
LEMMA InsertLinked ==
  ASSUME NEW V, NEW l, HeapOK(l, V), NEW s, Linked(s, l), NEW v \in V,
         NEW n, n = Len(l.val), NEW k, k = n + 1, NEW a \in 1 .. Len(s),
         NEW m, m = Insert(l, v, s[a]), NEW t, t = InsertAt(s, a + 1, k)
  PROVE  ListedWith(t, m, l, V, n, k, v)
<1>1. PICK c, i : c = Len(s) /\ i = s[a]
  OBVIOUS
<1>2. LinkedBy(s, l, n, c) /\ s \in Seq(1 .. n)
  BY <1>1, LinkedIs
<1>3. /\ c \in Nat /\ n \in Nat /\ c <= n /\ l.size = c
      /\ \A j \in 1 .. c : s[j] \in 1 .. n
      /\ \A h, j \in 1 .. c : s[h] = s[j] => h = j
      /\ l.head = IF c = 0 THEN Nil ELSE s[1]
      /\ l.tail = IF c = 0 THEN Nil ELSE s[c]
      /\ \A j \in 1 .. c : l.next[s[j]] = IF j = c THEN Nil ELSE s[j + 1]
      /\ \A j \in 1 .. c : l.prev[s[j]] = IF j = 1 THEN Nil ELSE s[j - 1]
  BY <1>2 DEF LinkedBy
<1>4. /\ a \in 1 .. c /\ c # 0 /\ i \in 1 .. n /\ s[c] \in 1 .. n /\ 1 \in 1 .. c
      /\ l.tail = s[c] /\ l.tail # Nil /\ l.head = s[1]
  BY <1>1, <1>3 DEF Nil
<1>5. PICK x, p : x = l.next[i] /\ p = (IF x = Nil THEN l.tail ELSE i)
  OBVIOUS
<1>6. x = (IF a = c THEN Nil ELSE s[a + 1]) /\ (x = Nil <=> a = c) /\ p = i
  <2>1. c \in Nat /\ n \in Nat /\ \A j \in 1 .. c : s[j] \in 1 .. n
    BY <1>3, Zenon
  <2>2. a # c => a + 1 \in 1 .. c
    BY <1>4, <2>1
  <2>3. a # c => s[a + 1] \in 1 .. n
    BY <2>1, <2>2
  <2>4. a # c => s[a + 1] # Nil
    BY <2>1, <2>3 DEF Nil
  <2>5. QED
    BY <1>1, <1>3, <1>4, <1>5, <2>2, <2>4
<1>7. /\ HeapOK(m, V) /\ Len(m.val) = k
      /\ m.size = l.size + 1 /\ m.head = l.head
      /\ m.tail = IF x = Nil THEN k ELSE l.tail
      /\ m.val[k] = v /\ \A j \in 1 .. n : m.val[j] = l.val[j]
      /\ m.prev[k] = p /\ m.next[k] = x
      /\ \A j \in 1 .. n : m.prev[j] = IF j = x THEN k ELSE l.prev[j]
      /\ \A j \in 1 .. n : m.next[j] = IF j = p THEN k ELSE l.next[j]
  <2>1. m = Insert(l, v, i)
    BY <1>1
  <2>2. Inserted(m, l, V, n, k, v, p, x)
    BY <1>4, <1>5, <2>1, InsertFields
  <2>3. QED
    BY <2>2 DEF Inserted
<1>8. PICK d, b : d = c + 1 /\ b = a + 1
  OBVIOUS
<1>9. /\ t \in [1 .. d -> 1 .. k] /\ Len(t) = d
      /\ \A j \in 1 .. d : t[j] = IF j < b THEN s[j] ELSE IF j = b THEN k ELSE s[j - 1]
  <2>1. s \in [1 .. c -> 1 .. k]
    BY <1>2, <1>3 DEF LinkedBy
  <2>2. s \in Seq(1 .. k) /\ k \in 1 .. k /\ b \in 1 .. Len(s) + 1
    <3>1. s \in Seq(1 .. k)
      BY <1>3, <2>1, FieldSeq
    <3>2. QED
      BY <1>1, <1>3, <1>4, <1>8, <3>1
  <2>3. t = InsertAt(s, b, k)
    BY <1>8
  <2>4. /\ t \in Seq(1 .. k) /\ Len(t) = Len(s) + 1
        /\ \A j \in 1 .. Len(s) + 1 :
              t[j] = IF j < b THEN s[j] ELSE IF j = b THEN k ELSE s[j - 1]
    <3>1. PICK X : X = 1 .. k
      OBVIOUS
    <3>2. s \in Seq(X) /\ k \in X
      BY <2>2, <3>1
    <3>3. With(t, s, X, b, k)
      BY <2>2, <2>3, <3>2, InsertAtIs
    <3>4. QED
      BY <3>1, <3>3 DEF With
  <2>5. Len(t) = d /\ t \in [1 .. d -> 1 .. k]
    BY <1>1, <1>8, <2>4, LenProperties
  <2>6. QED
    BY <1>1, <1>8, <2>4, <2>5
<1>10. /\ \A j \in 1 .. a : j \in 1 .. d /\ j \in 1 .. c /\ t[j] = s[j]
       /\ b \in 1 .. d /\ t[b] = k
       /\ \A j \in b .. c : j + 1 \in 1 .. d /\ j \in 1 .. c /\ t[j + 1] = s[j]
       /\ \A j \in b + 1 .. d : j \in 1 .. d /\ j - 1 \in b .. c /\ t[j] = s[j - 1]
  <2>1. /\ \A j \in 1 .. a : j \in 1 .. d /\ j \in 1 .. c /\ j < b
        /\ b \in 1 .. d /\ ~(b < b)
        /\ \A j \in b .. c : j + 1 \in 1 .. d /\ j \in 1 .. c
                             /\ ~(j + 1 < b) /\ j + 1 # b /\ (j + 1) - 1 = j
        /\ \A j \in b + 1 .. d : j \in 1 .. d /\ j - 1 \in b .. c
                                 /\ ~(j < b) /\ j # b
    BY <1>3, <1>4, <1>8
  <2>2. QED
    BY <1>9, <2>1
<1>11. \A j \in 1 .. d : j \in 1 .. a \/ j = b \/ j \in b + 1 .. d
  BY <1>3, <1>4, <1>8
<1>12. ASSUME NEW g \in 1 .. d, NEW h \in 1 .. d, t[g] = t[h] PROVE g = h
  <2>1. \A j \in 1 .. c : s[j] # k
    <3>1. n \in Nat /\ \A j \in 1 .. c : s[j] \in 1 .. n
      BY <1>3, Zenon
    <3>2. k \notin 1 .. n
      BY <3>1
    <3>3. QED
      BY <3>1, <3>2
  <2>2. PICK f : f = [j \in 1 .. d |-> IF j < b THEN j ELSE j - 1]
    OBVIOUS
  <2>3. ASSUME NEW j \in 1 .. d, j # b PROVE f[j] \in 1 .. c /\ t[j] = s[f[j]]
    <3>1. CASE j < b
      BY <1>3, <1>4, <1>8, <1>9, <2>2, <3>1
    <3>2. CASE j > b
      <4>1. f[j] = j - 1 /\ j - 1 \in 1 .. c /\ ~(j < b)
        BY <1>3, <1>4, <1>8, <2>2, <3>2
      <4>2. t[j] = s[j - 1]
        BY <1>9, <2>3, <4>1
      <4>3. QED
        BY <4>1, <4>2
    <3>3. QED
      BY <1>4, <1>8, <2>3, <3>1, <3>2
  <2>4. ASSUME g = b \/ h = b PROVE g = h
    BY <1>10, <1>12, <2>1, <2>3, <2>4
  <2>5. ASSUME g # b, h # b PROVE g = h
    <3>1. f[g] = f[h]
      <4>1. f[g] \in 1 .. c /\ f[h] \in 1 .. c /\ s[f[g]] = s[f[h]]
        BY <1>12, <2>3, <2>5
      <4>2. QED
        BY <1>3, <4>1
    <3>2. /\ f[g] = (IF g < b THEN g ELSE g - 1)
          /\ f[h] = (IF h < b THEN h ELSE h - 1)
      BY <1>12, <2>2
    <3>3. c \in Nat /\ a \in 1 .. c /\ d = c + 1 /\ b = a + 1
      BY <1>3, <1>4, <1>8, Zenon
    <3>4. g \in Int /\ h \in Int /\ b \in Int /\ g # b /\ h # b
      BY <1>12, <2>5, <3>3
    <3>5. CASE g < b
      <4>1. f[h] < b
        BY <3>1, <3>2, <3>4, <3>5
      <4>2. h < b
        BY <3>2, <3>4, <4>1
      <4>3. QED
        BY <3>1, <3>2, <3>4, <3>5, <4>2
    <3>6. CASE ~(g < b)
      <4>1. ~(f[h] < b)
        BY <3>1, <3>2, <3>4, <3>6
      <4>2. ~(h < b)
        BY <3>2, <3>4, <4>1
      <4>3. g - 1 = h - 1
        BY <3>1, <3>2, <3>6, <4>2
      <4>4. QED
        BY <3>4, <4>3
    <3>7. QED
      BY <3>5, <3>6
  <2>6. QED
    BY <2>4, <2>5
<1>13. ASSUME NEW j \in 1 .. d
       PROVE  m.next[t[j]] = IF j = d THEN Nil ELSE t[j + 1]
  <2>1. CASE j \in 1 .. a
    <3>1. /\ t[j] = s[j] /\ s[j] \in 1 .. n /\ j # d /\ j \in 1 .. c
          /\ m.next[s[j]] = IF s[j] = i THEN k ELSE l.next[s[j]]
      <4>1. /\ c \in Nat /\ a \in 1 .. c /\ d = c + 1
            /\ \A g \in 1 .. c : s[g] \in 1 .. n
        BY <1>3, <1>4, <1>8, Zenon
      <4>2. t[j] = s[j] /\ j \in 1 .. c
        BY <1>10, <2>1
      <4>3. j # d
        BY <4>1, <4>2
      <4>4. s[j] \in 1 .. n
        BY <4>1, <4>2
      <4>5. m.next[s[j]] = IF s[j] = i THEN k ELSE l.next[s[j]]
        BY <1>6, <1>7, <4>4
      <4>6. QED
        BY <4>2, <4>3, <4>4, <4>5
    <3>2. CASE j = a
      BY <1>1, <1>8, <1>10, <3>1, <3>2
    <3>3. CASE j # a
      <4>1. s[j] # i /\ j # c /\ j + 1 \in 1 .. a
        BY <1>1, <1>3, <1>4, <2>1, <3>1, <3>3
      <4>2. l.next[s[j]] = s[j + 1]
        BY <1>3, <3>1, <4>1
      <4>3. t[j + 1] = s[j + 1]
        BY <1>10, <4>1
      <4>4. QED
        BY <3>1, <4>1, <4>2, <4>3
    <3>4. QED
      BY <3>2, <3>3
  <2>2. CASE j = b
    <3>1. m.next[t[j]] = IF a = c THEN Nil ELSE s[b]
      BY <1>6, <1>7, <1>8, <1>10, <2>2
    <3>2. a # c => b \in b .. c
      BY <1>3, <1>4, <1>8
    <3>3. j = d <=> a = c
      BY <1>3, <1>4, <1>8, <2>2
    <3>4. QED
      BY <1>10, <2>2, <3>1, <3>2, <3>3
  <2>3. CASE j \in b + 1 .. d
    <3>1. PICK g : g = j - 1
      OBVIOUS
    <3>2. g \in b .. c /\ t[j] = s[g] /\ g \in 1 .. c /\ j = g + 1 /\ g # a
      <4>1. g \in b .. c /\ t[j] = s[g]
        BY <1>10, <2>3, <3>1
      <4>2. QED
        BY <1>3, <1>4, <1>8, <2>3, <3>1, <4>1
    <3>3. /\ s[g] \in 1 .. n /\ s[g] # i
          /\ m.next[s[g]] = l.next[s[g]]
      <4>1. s[g] \in 1 .. n /\ s[g] # i
        BY <1>1, <1>3, <1>4, <3>2
      <4>2. QED
        BY <1>6, <1>7, <4>1
    <3>4. m.next[t[j]] = IF g = c THEN Nil ELSE s[g + 1]
      BY <1>3, <3>2, <3>3
    <3>5. (g = c <=> j = d) /\ (g # c => j \in b .. c)
      BY <1>3, <1>4, <1>8, <3>2
    <3>6. QED
      BY <1>10, <3>2, <3>4, <3>5
  <2>4. QED
    BY <1>11, <2>1, <2>2, <2>3
<1>14. ASSUME NEW j \in 1 .. d
       PROVE  m.prev[t[j]] = IF j = 1 THEN Nil ELSE t[j - 1]
  <2>1. CASE j \in 1 .. a
    <3>1. /\ t[j] = s[j] /\ s[j] \in 1 .. n /\ j \in 1 .. c
          /\ m.prev[s[j]] = IF s[j] = x THEN k ELSE l.prev[s[j]]
      BY <1>3, <1>7, <1>10, <2>1
    <3>2. s[j] # x
      <4>1. CASE a = c
        BY <1>6, <3>1, <4>1 DEF Nil
      <4>2. CASE a # c
        <5>1. a + 1 \in 1 .. c /\ j # a + 1
          BY <1>3, <1>4, <2>1, <4>2
        <5>2. QED
          BY <1>3, <1>6, <3>1, <4>2, <5>1
      <4>3. QED
        BY <4>1, <4>2
    <3>3. j # 1 => j - 1 \in 1 .. a
      BY <1>4, <2>1
    <3>4. l.prev[s[j]] = IF j = 1 THEN Nil ELSE s[j - 1]
      BY <1>3, <3>1
    <3>5. j # 1 => t[j - 1] = s[j - 1]
      BY <1>10, <3>3
    <3>6. QED
      BY <3>1, <3>2, <3>4, <3>5
  <2>2. CASE j = b
    <3>1. j # 1 /\ j - 1 = a /\ a \in 1 .. a
      BY <1>4, <1>8, <2>2
    <3>2. m.prev[t[j]] = s[a]
      BY <1>1, <1>6, <1>7, <1>10, <2>2
    <3>3. QED
      BY <1>10, <3>1, <3>2
  <2>3. CASE j \in b + 1 .. d
    <3>1. PICK g : g = j - 1
      OBVIOUS
    <3>2. /\ g \in b .. c /\ t[j] = s[g] /\ g \in 1 .. c /\ j = g + 1 /\ g # 1
          /\ j # 1 /\ a + 1 \in 1 .. c /\ a # c
      <4>1. g \in b .. c /\ t[j] = s[g]
        BY <1>10, <2>3, <3>1
      <4>2. c \in Nat /\ a \in 1 .. c /\ b = a + 1 /\ g \in b .. c /\ j \in 1 .. d
        BY <1>3, <1>4, <1>8, <4>1
      <4>3. /\ g \in 1 .. c /\ j = g + 1 /\ g # 1
            /\ j # 1 /\ a + 1 \in 1 .. c /\ a # c
        BY <3>1, <4>2
      <4>4. QED
        BY <4>1, <4>3
    <3>3. /\ s[g] \in 1 .. n /\ x = s[a + 1]
          /\ m.prev[s[g]] = IF s[g] = x THEN k ELSE s[g - 1]
      <4>1. s[g] \in 1 .. n /\ x = s[a + 1] /\ l.prev[s[g]] = s[g - 1]
        BY <1>3, <1>6, <3>2
      <4>2. QED
        BY <1>7, <4>1
    <3>4. CASE g = b
      BY <1>8, <1>10, <3>1, <3>2, <3>3, <3>4
    <3>5. CASE g # b
      <4>1. s[g] # x /\ g \in b + 1 .. d
        BY <1>3, <1>8, <3>2, <3>3, <3>5
      <4>2. t[g] = s[g - 1]
        BY <1>10, <4>1
      <4>3. QED
        BY <3>1, <3>2, <3>3, <4>1, <4>2
    <3>6. QED
      BY <3>4, <3>5
  <2>4. QED
    BY <1>11, <2>1, <2>2, <2>3
<1>15. /\ m.head = t[1] /\ m.tail = t[d] /\ d # 0 /\ d \in Nat /\ d <= k
       /\ m.size = d /\ k \in Nat
  <2>1. m.head = t[1]
    <3>1. 1 \in 1 .. a
      BY <1>4
    <3>2. QED
      BY <1>4, <1>7, <1>10, <3>1
  <2>2. m.tail = t[d]
    <3>1. CASE a = c
      BY <1>6, <1>7, <1>8, <1>10, <3>1
    <3>2. CASE a # c
      <4>1. d \in b + 1 .. d /\ d - 1 = c
        BY <1>3, <1>4, <1>8, <3>2
      <4>2. QED
        BY <1>4, <1>6, <1>7, <1>10, <3>2, <4>1
    <3>3. QED
      BY <3>1, <3>2
  <2>3. d # 0 /\ d \in Nat /\ d <= k /\ m.size = d /\ k \in Nat
    BY <1>3, <1>7, <1>8
  <2>4. QED
    BY <2>1, <2>2, <2>3
<1>16. LinkedBy(t, m, k, d)
  BY <1>9, <1>12, <1>13, <1>14, <1>15 DEF LinkedBy
<1>17. QED
  BY <1>7, <1>9, <1>16 DEF Linked, ListedWith

\* Remove takes the a-th node out.
LEMMA RemoveLinked ==
  ASSUME NEW V, NEW l, HeapOK(l, V), NEW s, Linked(s, l), NEW n, n = Len(l.val),
         NEW a \in 1 .. Len(s), NEW m, m = RemoveNode(l, s[a]),
         NEW t, t = RemoveAt(s, a)
  PROVE  HeapOK(m, V) /\ Linked(t, m) /\ Len(m.val) = n /\ m.val = l.val
<1>1. PICK c, i : c = Len(s) /\ i = s[a]
  OBVIOUS
<1>2. LinkedBy(s, l, n, c) /\ s \in Seq(1 .. n)
  BY <1>1, LinkedIs
<1>3. /\ c \in Nat /\ n \in Nat /\ c <= n /\ l.size = c
      /\ \A j \in 1 .. c : s[j] \in 1 .. n
      /\ \A h, j \in 1 .. c : s[h] = s[j] => h = j
      /\ l.head = IF c = 0 THEN Nil ELSE s[1]
      /\ l.tail = IF c = 0 THEN Nil ELSE s[c]
      /\ \A j \in 1 .. c : l.next[s[j]] = IF j = c THEN Nil ELSE s[j + 1]
      /\ \A j \in 1 .. c : l.prev[s[j]] = IF j = 1 THEN Nil ELSE s[j - 1]
  BY <1>2 DEF LinkedBy
<1>4. /\ a \in 1 .. c /\ c # 0 /\ i \in 1 .. n /\ 1 \in 1 .. c /\ c \in 1 .. c
      /\ l.tail = s[c] /\ l.head = s[1]
  BY <1>1, <1>3
<1>5. PICK p, x : p = l.prev[i] /\ x = l.next[i]
  OBVIOUS
<1>6. /\ x = (IF a = c THEN Nil ELSE s[a + 1]) /\ (x = Nil <=> a = c)
      /\ p = (IF a = 1 THEN Nil ELSE s[a - 1]) /\ (p = Nil <=> a = 1)
  <2>1. a # c => a + 1 \in 1 .. c /\ s[a + 1] # Nil
    BY <1>3, <1>4 DEF Nil
  <2>2. a # 1 => a - 1 \in 1 .. c /\ s[a - 1] # Nil
    BY <1>3, <1>4 DEF Nil
  <2>3. QED
    BY <1>1, <1>3, <1>4, <1>5, <2>1, <2>2
<1>7. /\ HeapOK(m, V) /\ Len(m.val) = n
      /\ m.size = l.size - 1 /\ m.val = l.val
      /\ m.head = IF p = Nil THEN x ELSE l.head
      /\ m.tail = IF x = Nil THEN p ELSE l.tail
      /\ \A j \in 1 .. n : m.next[j] = IF j = p THEN x ELSE l.next[j]
      /\ \A j \in 1 .. n : m.prev[j] = IF j = x THEN p ELSE l.prev[j]
  <2>1. m = RemoveNode(l, i)
    BY <1>1
  <2>2. Removed(m, l, V, n, p, x)
    BY <1>4, <1>5, <2>1, RemoveFields
  <2>3. QED
    BY <2>2 DEF Removed
<1>8. PICK d : d = c - 1
  OBVIOUS
<1>9. c \in Nat /\ a \in 1 .. c /\ d = c - 1 /\ d \in Nat /\ c = d + 1 /\ d <= n
  BY <1>3, <1>4, <1>8
<1>10. /\ t \in [1 .. d -> 1 .. n] /\ Len(t) = d
       /\ \A j \in 1 .. d : t[j] = IF j < a THEN s[j] ELSE s[j + 1]
  <2>1. PICK X : X = 1 .. n
    OBVIOUS
  <2>2. s \in Seq(X)
    BY <1>2, <2>1
  <2>3. Without(t, s, X, a)
    BY <2>2, RemoveAtIs
  <2>4. /\ t \in Seq(X) /\ Len(t) = d
        /\ \A j \in 1 .. d : t[j] = IF j < a THEN s[j] ELSE s[j + 1]
    BY <1>1, <1>8, <2>3 DEF Without
  <2>5. t \in [1 .. d -> X]
    BY <2>4, LenProperties
  <2>6. QED
    BY <2>1, <2>4, <2>5
\* the position in s of the j-th node of t
<1>11. PICK f : f = [j \in 1 .. d |-> IF j < a THEN j ELSE j + 1]
  OBVIOUS
<1>12. ASSUME NEW j \in 1 .. d
       PROVE  /\ f[j] \in 1 .. c /\ t[j] = s[f[j]] /\ f[j] # a
              /\ f[j] = IF j < a THEN j ELSE j + 1
  <2>1. f[j] = (IF j < a THEN j ELSE j + 1) /\ f[j] \in 1 .. c /\ f[j] # a
    BY <1>9, <1>11
  <2>2. QED
    BY <1>10, <2>1
<1>13. ASSUME NEW g \in 1 .. d, NEW h \in 1 .. d, t[g] = t[h] PROVE g = h
  <2>1. f[g] \in 1 .. c /\ f[h] \in 1 .. c /\ s[f[g]] = s[f[h]]
    BY <1>12, <1>13
  <2>2. f[g] = f[h]
    BY <1>3, <2>1
  <2>3. QED
    BY <1>9, <1>11, <2>2
<1>14. ASSUME NEW j \in 1 .. d
       PROVE  m.next[t[j]] = IF j = d THEN Nil ELSE t[j + 1]
  <2>1. PICK g : g = f[j]
    OBVIOUS
  <2>2. /\ g \in 1 .. c /\ t[j] = s[g] /\ g # a
        /\ g = IF j < a THEN j ELSE j + 1
    BY <1>12, <2>1
  <2>3. s[g] \in 1 .. n /\ l.next[s[g]] = IF g = c THEN Nil ELSE s[g + 1]
    BY <1>3, <2>2
  <2>4. m.next[t[j]] = IF s[g] = p THEN x ELSE IF g = c THEN Nil ELSE s[g + 1]
    BY <1>7, <2>2, <2>3
  <2>5. CASE j = a - 1
    <3>1. a # 1 /\ a - 1 \in 1 .. c /\ g = a - 1
      BY <1>9, <2>2, <2>5
    <3>2. m.next[t[j]] = IF a = c THEN Nil ELSE s[a + 1]
      BY <1>6, <2>4, <3>1
    <3>3. (a = c <=> j = d) /\ j + 1 = a /\ (a # c => j + 1 \in 1 .. d)
      BY <1>9, <2>5
    <3>4. a # c => t[j + 1] = s[a + 1]
      BY <1>9, <1>10, <3>3
    <3>5. QED
      BY <3>2, <3>3, <3>4
  <2>6. CASE j # a - 1
    <3>1. s[g] # p
      <4>1. CASE a = 1
        BY <1>6, <2>3, <4>1 DEF Nil
      <4>2. CASE a # 1
        <5>1. a - 1 \in 1 .. c /\ g # a - 1
          BY <1>9, <2>2, <2>6, <4>2
        <5>2. QED
          BY <1>3, <1>6, <2>2, <4>2, <5>1
      <4>3. QED
        BY <4>1, <4>2
    <3>2. m.next[t[j]] = IF g = c THEN Nil ELSE s[g + 1]
      BY <2>4, <3>1
    <3>3. (g = c <=> j = d) /\ (j # d => j + 1 \in 1 .. d)
          /\ g + 1 = IF j + 1 < a THEN j + 1 ELSE (j + 1) + 1
      BY <1>9, <2>2, <2>6
    <3>4. j # d => t[j + 1] = s[g + 1]
      BY <1>10, <3>3
    <3>5. QED
      BY <3>2, <3>3, <3>4
  <2>7. QED
    BY <2>5, <2>6
<1>15. ASSUME NEW j \in 1 .. d
       PROVE  m.prev[t[j]] = IF j = 1 THEN Nil ELSE t[j - 1]
  <2>1. PICK g : g = f[j]
    OBVIOUS
  <2>2. /\ g \in 1 .. c /\ t[j] = s[g] /\ g # a
        /\ g = IF j < a THEN j ELSE j + 1
    BY <1>12, <2>1
  <2>3. s[g] \in 1 .. n /\ l.prev[s[g]] = IF g = 1 THEN Nil ELSE s[g - 1]
    BY <1>3, <2>2
  <2>4. m.prev[t[j]] = IF s[g] = x THEN p ELSE IF g = 1 THEN Nil ELSE s[g - 1]
    BY <1>7, <2>2, <2>3
  <2>5. CASE j = a
    <3>1. a # c /\ a + 1 \in 1 .. c /\ g = a + 1
      BY <1>9, <2>2, <2>5
    <3>2. m.prev[t[j]] = IF a = 1 THEN Nil ELSE s[a - 1]
      BY <1>6, <2>4, <3>1
    <3>3. a # 1 => a - 1 \in 1 .. d /\ a - 1 < a
      BY <1>9, <2>5
    <3>4. a # 1 => t[a - 1] = s[a - 1]
      BY <1>10, <3>3
    <3>5. QED
      BY <2>5, <3>2, <3>4
  <2>6. CASE j # a
    <3>1. s[g] # x
      <4>1. CASE a = c
        BY <1>6, <2>3, <4>1 DEF Nil
      <4>2. CASE a # c
        <5>1. a + 1 \in 1 .. c /\ g # a + 1
          BY <1>9, <2>2, <2>6, <4>2
        <5>2. QED
          BY <1>3, <1>6, <2>2, <4>2, <5>1
      <4>3. QED
        BY <4>1, <4>2
    <3>2. m.prev[t[j]] = IF g = 1 THEN Nil ELSE s[g - 1]
      BY <2>4, <3>1
    <3>3. (g = 1 <=> j = 1) /\ (j # 1 => j - 1 \in 1 .. d)
          /\ (j # 1 => g - 1 = IF j - 1 < a THEN j - 1 ELSE (j - 1) + 1)
      BY <1>9, <2>2, <2>6
    <3>4. j # 1 => t[j - 1] = s[g - 1]
      BY <1>10, <3>3
    <3>5. QED
      BY <3>2, <3>3, <3>4
  <2>7. QED
    BY <2>5, <2>6
<1>16. m.head = IF d = 0 THEN Nil ELSE t[1]
  <2>1. d # 0 => 1 \in 1 .. d /\ t[1] = IF 1 < a THEN s[1] ELSE s[1 + 1]
    BY <1>9, <1>10
  <2>2. CASE a = 1
    <3>1. ~(1 < a) /\ (a = c <=> d = 0) /\ a + 1 = 1 + 1
      BY <1>9, <2>2
    <3>2. QED
      BY <1>6, <1>7, <2>1, <2>2, <3>1
  <2>3. CASE a # 1
    <3>1. 1 < a /\ d # 0
      BY <1>9, <2>3
    <3>2. QED
      BY <1>4, <1>6, <1>7, <2>1, <2>3, <3>1
  <2>4. QED
    BY <2>2, <2>3
<1>17. m.tail = IF d = 0 THEN Nil ELSE t[d]
  <2>1. d # 0 => d \in 1 .. d /\ t[d] = IF d < a THEN s[d] ELSE s[c]
    BY <1>9, <1>10
  <2>2. CASE a = c
    <3>1. d < a /\ (a = 1 <=> d = 0) /\ a - 1 = d
      BY <1>9, <2>2
    <3>2. QED
      BY <1>6, <1>7, <2>1, <2>2, <3>1
  <2>3. CASE a # c
    <3>1. ~(d < a) /\ d # 0
      BY <1>9, <2>3
    <3>2. QED
      BY <1>4, <1>6, <1>7, <2>1, <2>3, <3>1
  <2>4. QED
    BY <2>2, <2>3
<1>18. LinkedBy(t, m, n, d)
  <2>1. m.size = d /\ n \in Nat
    BY <1>3, <1>7, <1>8
  <2>2. QED
    BY <1>9, <1>10, <1>13, <1>14, <1>15, <1>16, <1>17, <2>1 DEF LinkedBy
<1>19. QED
  BY <1>7, <1>10, <1>18 DEF Linked

\* ChangeValue leaves the links alone.
LEMMA ChangeLinked ==
  ASSUME NEW V, NEW l, HeapOK(l, V), NEW s, Linked(s, l), NEW v \in V,
         NEW n, n = Len(l.val), NEW i \in 1 .. n, NEW m, m = ChangeValue(l, i, v)
  PROVE  /\ HeapOK(m, V) /\ Linked(s, m) /\ Len(m.val) = n
         /\ \A j \in 1 .. n : m.val[j] = IF j = i THEN v ELSE l.val[j]
<1>1. /\ HeapOK(m, V) /\ n \in Nat /\ Len(m.val) = n
      /\ m.size = l.size /\ m.head = l.head /\ m.tail = l.tail
      /\ m.next = l.next /\ m.prev = l.prev
      /\ \A j \in 1 .. n : m.val[j] = IF j = i THEN v ELSE l.val[j]
  <2>1. Changed(m, l, V, n, i, v)
    BY ChangeFields
  <2>2. QED
    BY <2>1 DEF Changed
<1>2. PICK c : c = Len(s)
  OBVIOUS
<1>3. LinkedBy(s, l, n, c)
  BY <1>2, LinkedIs
<1>4. LinkedBy(s, m, n, c)
  BY <1>1, <1>3 DEF LinkedBy
<1>5. QED
  BY <1>1, <1>2, <1>4 DEF Linked

\* The values in the order of an iteration.
LEMMA ArrayIs ==
  ASSUME NEW V, NEW l, HeapOK(l, V), NEW s, Linked(s, l), NEW c, c = Len(s),
         NEW A, A = Array(l)
  PROVE  /\ A \in Seq(V) /\ A \in [1 .. c -> V] /\ Len(A) = c /\ c \in Nat
         /\ DOMAIN A = 1 .. c /\ \A i \in 1 .. c : A[i] = l.val[s[i]]
<1>1. PICK n : n = Len(l.val)
  OBVIOUS
<1>2. LinkedBy(s, l, n, c) /\ DOMAIN s = 1 .. c
  BY <1>1, LinkedIs
<1>3. Nodes(l) = s
  BY LinkedNodes
<1>4. A = [i \in 1 .. c |-> l.val[s[i]]]
  BY <1>2, <1>3, Zenon DEF Array
<1>5. c \in Nat /\ \A i \in 1 .. c : s[i] \in 1 .. n
  BY <1>2 DEF LinkedBy
<1>6. l.val \in [1 .. n -> V]
  BY <1>1, HeapTyped
<1>7. A \in [1 .. c -> V]
  BY <1>4, <1>5, <1>6
<1>8. QED
  BY <1>4, <1>5, <1>7, FieldSeq

\* Every operation on the heap is the operation of SeqList on the values.
LEMMA ArrayAppend ==
  ASSUME NEW V, NEW l, HeapOK(l, V), NEW s, Linked(s, l), NEW v \in V,
         NEW m, m = AppendList(l, v), NEW k, k = Len(l.val) + 1
  PROVE  /\ HeapOK(m, V) /\ Linked(Append(s, k), m) /\ Len(m.val) = k
         /\ Array(m) = Append(Array(l), v)
<1>1. PICK n, c, t, A, B : /\ n = Len(l.val) /\ c = Len(s) /\ t = Append(s, k)
                           /\ A = Array(l) /\ B = Array(m)
  OBVIOUS
<1>2. /\ HeapOK(m, V) /\ Linked(t, m) /\ Len(m.val) = k
      /\ m.val[k] = v /\ \A j \in 1 .. n : m.val[j] = l.val[j]
  <2>1. n = Len(l.val) /\ k = n + 1 /\ t = Append(s, k)
    BY <1>1
  <2>2. ListedWith(t, m, l, V, n, k, v)
    BY <2>1, AppendLinked
  <2>3. QED
    BY <2>2 DEF ListedWith
<1>3. PICK d : d = Len(t)
  OBVIOUS
<1>4. /\ A \in Seq(V) /\ Len(A) = c /\ c \in Nat
      /\ \A i \in 1 .. c : A[i] = l.val[s[i]]
  BY <1>1, ArrayIs
<1>5. /\ B \in Seq(V) /\ Len(B) = d
      /\ \A i \in 1 .. d : B[i] = m.val[t[i]]
  <2>1. HeapOK(m, V) /\ Linked(t, m) /\ d = Len(t) /\ B = Array(m)
    BY <1>1, <1>2, <1>3
  <2>2. QED
    BY <2>1, ArrayIs
<1>6. /\ d = c + 1 /\ t[d] = k
      /\ \A i \in 1 .. c : t[i] = s[i] /\ s[i] \in 1 .. n
  <2>1. LinkedBy(s, l, n, c) /\ s \in Seq(1 .. n)
    BY <1>1, LinkedIs
  <2>2. n \in Nat /\ \A i \in 1 .. c : s[i] \in 1 .. n
    BY <2>1 DEF LinkedBy
  <2>3. s \in Seq(Nat) /\ k \in Nat
    <3>1. 1 .. n \subseteq Nat
      BY <2>2
    <3>2. s \in Seq(Nat)
      BY <2>1, <3>1, SeqMonotone
    <3>3. QED
      BY <1>1, <2>2, <3>2
  <2>4. /\ Len(t) = Len(s) + 1 /\ t[Len(s) + 1] = k
        /\ \A i \in 1 .. Len(s) : t[i] = s[i]
    BY <1>1, <2>3, AppendTyped
  <2>5. QED
    BY <1>1, <1>3, <2>2, <2>4
<1>7. PICK C : C = Append(A, v)
  OBVIOUS
<1>8. /\ C \in Seq(V) /\ Len(C) = Len(A) + 1 /\ C[Len(A) + 1] = v
      /\ \A i \in 1 .. Len(A) : C[i] = A[i]
  BY <1>4, <1>7, AppendTyped
<1>9. ASSUME NEW i \in 1 .. Len(B) PROVE B[i] = C[i]
  <2>1. CASE i = d
    BY <1>2, <1>4, <1>5, <1>6, <1>8, <2>1
  <2>2. CASE i # d
    <3>1. i \in 1 .. c /\ i \in 1 .. d
      BY <1>4, <1>5, <1>6, <2>2
    <3>2. B[i] = m.val[s[i]] /\ s[i] \in 1 .. n
      BY <1>5, <1>6, <3>1
    <3>3. C[i] = l.val[s[i]]
      BY <1>4, <1>8, <3>1
    <3>4. QED
      BY <1>2, <3>2, <3>3
  <2>3. QED
    BY <2>1, <2>2
<1>10. B = C
  <2>1. Len(B) = Len(C)
    BY <1>4, <1>5, <1>6, <1>8
  <2>2. QED
    BY <1>5, <1>8, <1>9, <2>1, SeqEqual
<1>11. QED
  BY <1>1, <1>2, <1>7, <1>10

LEMMA ArrayInsert ==
  ASSUME NEW V, NEW l, HeapOK(l, V), NEW s, Linked(s, l), NEW v \in V,
         NEW a \in 1 .. Len(s), NEW m, m = Insert(l, v, s[a]),
         NEW k, k = Len(l.val) + 1
  PROVE  /\ HeapOK(m, V) /\ Linked(InsertAt(s, a + 1, k), m) /\ Len(m.val) = k
         /\ Array(m) = InsertAt(Array(l), a + 1, v)
<1>1. PICK n, c, t, A, B, b :
         /\ n = Len(l.val) /\ c = Len(s) /\ t = InsertAt(s, a + 1, k)
         /\ A = Array(l) /\ B = Array(m) /\ b = a + 1
  OBVIOUS
<1>2. /\ HeapOK(m, V) /\ Linked(t, m) /\ Len(m.val) = k
      /\ m.val[k] = v /\ \A j \in 1 .. n : m.val[j] = l.val[j]
  <2>1. n = Len(l.val) /\ k = n + 1 /\ t = InsertAt(s, a + 1, k)
    BY <1>1
  <2>2. ListedWith(t, m, l, V, n, k, v)
    BY <2>1, InsertLinked
  <2>3. QED
    BY <2>2 DEF ListedWith
<1>3. PICK d : d = Len(t)
  OBVIOUS
<1>4. /\ A \in Seq(V) /\ Len(A) = c /\ c \in Nat
      /\ \A i \in 1 .. c : A[i] = l.val[s[i]]
  BY <1>1, ArrayIs
<1>5. /\ B \in Seq(V) /\ Len(B) = d
      /\ \A i \in 1 .. d : B[i] = m.val[t[i]]
  BY <1>1, <1>2, <1>3, ArrayIs
<1>6. /\ d = c + 1 /\ \A i \in 1 .. c : s[i] \in 1 .. n
      /\ \A i \in 1 .. d : t[i] = IF i < b THEN s[i] ELSE IF i = b THEN k ELSE s[i - 1]
  <2>1. LinkedBy(s, l, n, c) /\ s \in Seq(1 .. n)
    BY <1>1, LinkedIs
  <2>2. n \in Nat /\ \A i \in 1 .. c : s[i] \in 1 .. n
    BY <2>1 DEF LinkedBy
  <2>3. s \in Seq(Nat) /\ k \in Nat
    <3>1. 1 .. n \subseteq Nat
      BY <2>2
    <3>2. s \in Seq(Nat)
      BY <2>1, <3>1, SeqMonotone
    <3>3. QED
      BY <1>1, <2>2, <3>2
  <2>4. b \in 1 .. Len(s) + 1 /\ t = InsertAt(s, b, k)
    BY <1>1, <1>4
  <2>5. With(t, s, Nat, b, k)
    BY <2>3, <2>4, InsertAtIs
  <2>6. QED
    BY <1>1, <1>3, <2>2, <2>5 DEF With
<1>7. PICK C : C = InsertAt(A, b, v)
  OBVIOUS
<1>8. /\ C \in Seq(V) /\ Len(C) = d
      /\ \A i \in 1 .. d : C[i] = IF i < b THEN A[i] ELSE IF i = b THEN v ELSE A[i - 1]
  <2>1. b \in 1 .. Len(A) + 1
    BY <1>1, <1>4
  <2>2. With(C, A, V, b, v)
    BY <1>4, <1>7, <2>1, InsertAtIs
  <2>3. QED
    BY <1>4, <1>6, <2>2 DEF With
<1>9. ASSUME NEW i \in 1 .. Len(B) PROVE B[i] = C[i]
  <2>0. i \in 1 .. d /\ B[i] = m.val[t[i]]
    BY <1>5
  <2>1. CASE i < b
    <3>1. i \in 1 .. c
      BY <1>1, <1>4, <2>0, <2>1
    <3>2. t[i] = s[i] /\ s[i] \in 1 .. n /\ C[i] = A[i]
      BY <1>6, <1>8, <2>0, <2>1, <3>1
    <3>3. QED
      BY <1>2, <1>4, <2>0, <3>1, <3>2
  <2>2. CASE i = b
    <3>1. ~(i < b)
      BY <1>1, <2>2
    <3>2. QED
      BY <1>2, <1>6, <1>8, <2>0, <2>2, <3>1
  <2>3. CASE i > b
    <3>1. i - 1 \in 1 .. c /\ ~(i < b) /\ i # b
      BY <1>1, <1>4, <1>6, <2>0, <2>3
    <3>2. t[i] = s[i - 1] /\ s[i - 1] \in 1 .. n /\ C[i] = A[i - 1]
      BY <1>6, <1>8, <2>0, <3>1
    <3>3. QED
      BY <1>2, <1>4, <2>0, <3>1, <3>2
  <2>4. QED
    BY <1>1, <2>0, <2>1, <2>2, <2>3
<1>10. B = C
  BY <1>5, <1>8, <1>9, SeqEqual
<1>11. QED
  BY <1>1, <1>2, <1>7, <1>10

LEMMA ArrayRemove ==
  ASSUME NEW V, NEW l, HeapOK(l, V), NEW s, Linked(s, l),
         NEW a \in 1 .. Len(s), NEW m, m = RemoveNode(l, s[a])
  PROVE  /\ HeapOK(m, V) /\ Linked(RemoveAt(s, a), m) /\ Len(m.val) = Len(l.val)
         /\ m.val = l.val
         /\ Array(m) = RemoveAt(Array(l), a)
<1>1. PICK n, c, t, A, B :
         /\ n = Len(l.val) /\ c = Len(s) /\ t = RemoveAt(s, a)
         /\ A = Array(l) /\ B = Array(m)
  OBVIOUS
<1>2. HeapOK(m, V) /\ Linked(t, m) /\ Len(m.val) = n /\ m.val = l.val
  BY <1>1, RemoveLinked
<1>3. PICK d : d = Len(t)
  OBVIOUS
<1>4. /\ A \in Seq(V) /\ Len(A) = c /\ c \in Nat
      /\ \A i \in 1 .. c : A[i] = l.val[s[i]]
  BY <1>1, ArrayIs
<1>5. /\ B \in Seq(V) /\ Len(B) = d
      /\ \A i \in 1 .. d : B[i] = l.val[t[i]]
  BY <1>1, <1>2, <1>3, ArrayIs
<1>6. /\ d = c - 1
      /\ \A i \in 1 .. d : t[i] = IF i < a THEN s[i] ELSE s[i + 1]
  <2>1. PICK X : X = 1 .. n
    OBVIOUS
  <2>2. s \in Seq(X)
    BY <1>1, <2>1, LinkedIs
  <2>3. Without(t, s, X, a)
    BY <1>1, <2>2, RemoveAtIs
  <2>4. QED
    BY <1>1, <1>3, <2>3 DEF Without
<1>7. PICK C : C = RemoveAt(A, a)
  OBVIOUS
<1>8. /\ C \in Seq(V) /\ Len(C) = d
      /\ \A i \in 1 .. d : C[i] = IF i < a THEN A[i] ELSE A[i + 1]
  <2>1. a \in 1 .. Len(A)
    BY <1>1, <1>4
  <2>2. Without(C, A, V, a)
    BY <1>4, <1>7, <2>1, RemoveAtIs
  <2>3. QED
    BY <1>4, <1>6, <2>2 DEF Without
<1>9. ASSUME NEW i \in 1 .. Len(B) PROVE B[i] = C[i]
  <2>0. i \in 1 .. d /\ B[i] = l.val[t[i]] /\ i \in 1 .. c /\ i + 1 \in 1 .. c
    BY <1>4, <1>5, <1>6
  <2>1. CASE i < a
    BY <1>4, <1>6, <1>8, <2>0, <2>1
  <2>2. CASE ~(i < a)
    BY <1>4, <1>6, <1>8, <2>0, <2>2
  <2>3. QED
    BY <2>1, <2>2
<1>10. B = C
  BY <1>5, <1>8, <1>9, SeqEqual
<1>11. QED
  BY <1>1, <1>2, <1>7, <1>10

LEMMA ArrayChange ==
  ASSUME NEW V, NEW l, HeapOK(l, V), NEW s, Linked(s, l), NEW v \in V,
         NEW a \in 1 .. Len(s), NEW m, m = ChangeValue(l, s[a], v)
  PROVE  /\ HeapOK(m, V) /\ Linked(s, m) /\ Len(m.val) = Len(l.val)
         /\ Array(m) = [Array(l) EXCEPT ![a] = v]
<1>1. PICK n, c, A, B, i : /\ n = Len(l.val) /\ c = Len(s)
                           /\ A = Array(l) /\ B = Array(m) /\ i = s[a]
  OBVIOUS
<1>2. LinkedBy(s, l, n, c)
  BY <1>1, LinkedIs
<1>3. /\ \A j \in 1 .. c : s[j] \in 1 .. n
      /\ \A g, h \in 1 .. c : s[g] = s[h] => g = h
  BY <1>2 DEF LinkedBy
<1>4. i \in 1 .. n /\ m = ChangeValue(l, i, v)
  BY <1>1, <1>3
<1>5. /\ HeapOK(m, V) /\ Linked(s, m) /\ Len(m.val) = n
      /\ \A j \in 1 .. n : m.val[j] = IF j = i THEN v ELSE l.val[j]
  BY <1>1, <1>4, ChangeLinked
<1>6. /\ A \in [1 .. c -> V] /\ \A j \in 1 .. c : A[j] = l.val[s[j]]
  BY <1>1, ArrayIs
<1>7. /\ B \in [1 .. c -> V] /\ \A j \in 1 .. c : B[j] = m.val[s[j]]
  BY <1>1, <1>5, ArrayIs
<1>8. PICK C : C = [A EXCEPT ![a] = v]
  OBVIOUS
<1>9. ASSUME NEW j \in 1 .. c PROVE B[j] = C[j]
  <2>1. s[j] \in 1 .. n /\ (s[j] = i <=> j = a)
    BY <1>1, <1>3
  <2>2. B[j] = IF j = a THEN v ELSE A[j]
    BY <1>5, <1>6, <1>7, <2>1
  <2>3. QED
    BY <1>6, <1>8, <2>2
<1>10. B = C
  BY <1>6, <1>7, <1>8, <1>9
<1>11. QED
  BY <1>1, <1>5, <1>8, <1>10

\* The nodes of the list.
Members(s) == {s[i] : i \in DOMAIN s}

LEMMA MembersChange ==
  ASSUME NEW n \in Nat, NEW s \in Seq(1 .. n), NEW k, k = n + 1
  PROVE  /\ Members(Append(s, k)) = Members(s) \cup {k}
         /\ \A a \in 1 .. Len(s) :
               Members(InsertAt(s, a + 1, k)) = Members(s) \cup {k}
         /\ NoneTwice(s) =>
              \A a \in 1 .. Len(s) : Members(RemoveAt(s, a)) = Members(s) \ {s[a]}
<1>1. PICK c : c = Len(s) /\ c \in Nat /\ DOMAIN s = 1 .. c
  BY LenProperties
<1>2. s \in Seq(Nat) /\ k \in Nat
  <2>1. 1 .. n \subseteq Nat
    OBVIOUS
  <2>2. QED
    BY <2>1, SeqMonotone
<1>3. Members(Append(s, k)) = Members(s) \cup {k}
  <2>1. PICK t : t = Append(s, k)
    OBVIOUS
  <2>2. /\ t \in Seq(Nat) /\ Len(t) = Len(s) + 1 /\ t[Len(s) + 1] = k
        /\ \A i \in 1 .. Len(s) : t[i] = s[i]
    BY <1>2, <2>1, AppendTyped
  <2>3. DOMAIN t = 1 .. c + 1 /\ t[c + 1] = k /\ \A i \in 1 .. c : t[i] = s[i]
    BY <1>1, <2>2, LenProperties
  <2>4. /\ \A i \in 1 .. c + 1 : i \in 1 .. c \/ i = c + 1
        /\ \A i \in 1 .. c : i \in 1 .. c + 1
        /\ c + 1 \in 1 .. c + 1
    BY <1>1
  <2>5. Members(t) = Members(s) \cup {k}
    BY <1>1, <2>3, <2>4 DEF Members
  <2>6. QED
    BY <2>1, <2>5
<1>4. ASSUME NEW a \in 1 .. Len(s)
      PROVE  Members(InsertAt(s, a + 1, k)) = Members(s) \cup {k}
  <2>1. PICK t, b : b = a + 1 /\ t = InsertAt(s, b, k)
    OBVIOUS
  <2>2. b \in 1 .. Len(s) + 1
    BY <1>1, <2>1
  <2>3. With(t, s, Nat, b, k)
    BY <1>2, <2>1, <2>2, InsertAtIs
  <2>4. /\ t \in Seq(Nat) /\ Len(t) = c + 1 /\ b \in 1 .. c + 1
        /\ \A i \in 1 .. c + 1 :
              t[i] = IF i < b THEN s[i] ELSE IF i = b THEN k ELSE s[i - 1]
    BY <1>1, <2>2, <2>3 DEF With
  <2>5. DOMAIN t = 1 .. c + 1
    BY <2>4, LenProperties
  <2>6. ASSUME NEW i \in 1 .. c + 1 PROVE t[i] \in Members(s) \cup {k}
    <3>1. CASE i < b
      <4>1. i \in 1 .. c /\ t[i] = s[i]
        BY <1>1, <2>4, <3>1
      <4>2. QED
        BY <1>1, <4>1 DEF Members
    <3>2. CASE i = b
      <4>1. ~(i < b)
        BY <2>4, <3>2
      <4>2. QED
        BY <2>4, <3>2, <4>1
    <3>3. CASE i > b
      <4>1. i - 1 \in 1 .. c /\ ~(i < b) /\ i # b
        BY <1>1, <2>4, <3>3
      <4>2. t[i] = s[i - 1]
        BY <2>4, <4>1
      <4>3. QED
        BY <1>1, <4>1, <4>2 DEF Members
    <3>4. QED
      BY <1>1, <2>4, <3>1, <3>2, <3>3
  <2>7. ASSUME NEW i \in 1 .. c PROVE \E j \in 1 .. c + 1 : t[j] = s[i]
    <3>1. CASE i < b
      <4>1. i \in 1 .. c + 1
        BY <1>1
      <4>2. QED
        BY <2>4, <3>1, <4>1
    <3>2. CASE ~(i < b)
      <4>1. i + 1 \in 1 .. c + 1 /\ ~(i + 1 < b) /\ i + 1 # b /\ (i + 1) - 1 = i
        BY <1>1, <2>4, <3>2
      <4>2. t[i + 1] = s[i]
        BY <2>4, <4>1
      <4>3. QED
        BY <4>1, <4>2
    <3>3. QED
      BY <3>1, <3>2
  <2>8. t[b] = k /\ b \in 1 .. c + 1
    <3>1. ~(b < b)
      BY <2>4
    <3>2. QED
      BY <2>4, <3>1
  <2>9. Members(t) = Members(s) \cup {k}
    <3>1. Members(t) \subseteq Members(s) \cup {k}
      BY <2>5, <2>6 DEF Members
    <3>2. Members(s) \cup {k} \subseteq Members(t)
      <4>1. Members(s) \subseteq Members(t)
        <5>1. ASSUME NEW x \in Members(s) PROVE x \in Members(t)
          <6>1. PICK i \in 1 .. c : x = s[i]
            BY <1>1 DEF Members
          <6>2. PICK j \in 1 .. c + 1 : t[j] = s[i]
            BY <2>7
          <6>3. QED
            BY <2>5, <6>1, <6>2 DEF Members
        <5>2. QED
          BY <5>1
      <4>2. k \in Members(t)
        BY <2>5, <2>8 DEF Members
      <4>3. QED
        BY <4>1, <4>2
    <3>3. QED
      BY <3>1, <3>2
  <2>10. QED
    BY <2>1, <2>9
<1>5. ASSUME NoneTwice(s), NEW a \in 1 .. Len(s)
      PROVE  Members(RemoveAt(s, a)) = Members(s) \ {s[a]}
  <2>1. PICK t : t = RemoveAt(s, a)
    OBVIOUS
  <2>2. Without(t, s, Nat, a)
    BY <1>2, <2>1, RemoveAtIs
  <2>3. /\ t \in Seq(Nat) /\ Len(t) = c - 1 /\ a \in 1 .. c
        /\ \A i \in 1 .. c - 1 : t[i] = IF i < a THEN s[i] ELSE s[i + 1]
    BY <1>1, <2>2 DEF Without
  <2>4. DOMAIN t = 1 .. c - 1
    BY <2>3, LenProperties
  <2>5. \A i, j \in 1 .. c : s[i] = s[j] => i = j
    BY <1>1, <1>5 DEF NoneTwice
  <2>6. ASSUME NEW i \in 1 .. c - 1 PROVE t[i] \in Members(s) \ {s[a]}
    <3>1. PICK j : j = IF i < a THEN i ELSE i + 1
      OBVIOUS
    <3>2. j \in 1 .. c /\ j # a /\ t[i] = s[j]
      <4>1. j \in 1 .. c /\ j # a
        BY <1>1, <2>3, <3>1
      <4>2. QED
        BY <2>3, <3>1, <4>1
    <3>3. s[j] # s[a]
      BY <2>3, <2>5, <3>2
    <3>4. QED
      BY <1>1, <3>2, <3>3 DEF Members
  <2>7. ASSUME NEW i \in 1 .. c, s[i] # s[a] PROVE \E j \in 1 .. c - 1 : t[j] = s[i]
    <3>1. CASE i < a
      <4>1. i \in 1 .. c - 1
        BY <1>1, <2>3, <3>1
      <4>2. QED
        BY <2>3, <3>1, <4>1
    <3>2. CASE i > a
      <4>1. i - 1 \in 1 .. c - 1 /\ ~(i - 1 < a) /\ (i - 1) + 1 = i
        BY <1>1, <2>3, <3>2
      <4>2. t[i - 1] = s[i]
        BY <2>3, <4>1
      <4>3. QED
        BY <4>1, <4>2
    <3>3. QED
      BY <1>1, <2>3, <2>7, <3>1, <3>2
  <2>8. Members(t) = Members(s) \ {s[a]}
    <3>1. Members(t) \subseteq Members(s) \ {s[a]}
      BY <2>4, <2>6 DEF Members
    <3>2. Members(s) \ {s[a]} \subseteq Members(t)
      BY <1>1, <2>4, <2>7 DEF Members
    <3>3. QED
      BY <3>1, <3>2
  <2>9. QED
    BY <2>1, <2>8
<1>6. QED
  BY <1>3, <1>4, <1>5

-----------------------------------------------------------------------------
(* The client of the list holds exactly the nodes that are linked.         *)

LInv ==
    /\ HeapOK(list, ListValues)
    /\ Linked(Nodes(list), list)
    /\ kept = Members(Nodes(list))
    /\ Len(list.val) <= MaxNodes

LEMMA InitLInv == ListInit => LInv /\ Array(list) = <<>>
<1> SUFFICES ASSUME ListInit PROVE LInv /\ Array(list) = <<>>
  OBVIOUS
<1>1. /\ list.size = 0 /\ list.head = 0 /\ list.tail = 0
      /\ list.next = <<>> /\ list.prev = <<>> /\ list.val = <<>>
      /\ kept = {} /\ Len(list.val) = 0
  BY DEF ListInit, EmptyList, Nil
<1>2. list \in Heap(ListValues)
  BY DEF ListInit, EmptyList, Nil, Heap
<1>3. HeapOK(list, ListValues)
  BY <1>1, <1>2 DEF HeapOK
<1>4. PICK s : s = <<>>
  OBVIOUS
<1>5. /\ s \in [1 .. 0 -> 1 .. 0] /\ Len(s) = 0 /\ DOMAIN s = {}
  BY <1>4
<1>6. LinkedBy(s, list, 0, 0)
  BY <1>1, <1>5 DEF LinkedBy, Nil
<1>7. Linked(s, list)
  BY <1>1, <1>5, <1>6 DEF Linked
<1>8. Nodes(list) = s
  BY <1>3, <1>7, LinkedNodes
<1>9. kept = Members(Nodes(list))
  BY <1>1, <1>5, <1>8 DEF Members
<1>10. Array(list) = <<>>
  <2>1. Array(list) \in Seq(ListValues) /\ Len(Array(list)) = 0
    BY <1>3, <1>5, <1>7, ArrayIs
  <2>2. QED
    BY <2>1, EmptySeq
<1>11. QED
  BY <1>1, <1>3, <1>7, <1>8, <1>9, <1>10, ListHeapAssumption DEF LInv

LEMMA StepLInv ==
  ASSUME LInv, [ListNext]_listVars
  PROVE  LInv' /\ [Abstract!Next]_(Array(list))
<1>1. PICK s, n, A, l, m : s = Nodes(list) /\ n = Len(list.val) /\ A = Array(list)
                           /\ l = list /\ m = list'
  OBVIOUS
<1>2. /\ HeapOK(l, ListValues) /\ Linked(s, l) /\ kept = Members(s)
      /\ n = Len(l.val) /\ n \in Nat /\ n <= MaxNodes
  BY <1>1, HeapTyped DEF LInv
<1>3. s \in Seq(1 .. n) /\ DOMAIN s = 1 .. Len(s) /\ NoneTwice(s) /\ Len(s) \in Nat
  <2>1. PICK c : c = Len(s)
    OBVIOUS
  <2>2. LinkedBy(s, l, n, c) /\ s \in Seq(1 .. n) /\ DOMAIN s = 1 .. c
    BY <1>2, <2>1, LinkedIs
  <2>3. QED
    BY <2>1, <2>2 DEF LinkedBy, NoneTwice
<1>4. A \in Seq(ListValues) /\ DOMAIN A = 1 .. Len(s)
  BY <1>1, <1>2, ArrayIs
<1>5. ASSUME NEW t, HeapOK(m, ListValues), Linked(t, m), kept' = Members(t),
             Len(m.val) <= MaxNodes
      PROVE  LInv'
  <2>1. Nodes(m) = t
    BY <1>5, LinkedNodes
  <2>2. QED
    BY <1>1, <1>5, <2>1 DEF LInv
<1>6. ASSUME NEW v \in ListValues, DoAppend(v)
      PROVE  LInv' /\ [Abstract!Next]_(Array(list))
  <2>1. PICK k, t : k = n + 1 /\ t = Append(s, k)
    OBVIOUS
  <2>2. m = AppendList(l, v) /\ kept' = kept \cup {k} /\ k <= MaxNodes
    BY <1>1, <1>2, <1>6, <2>1, ListHeapAssumption DEF DoAppend, NewNode, Fresh
  <2>3. /\ HeapOK(m, ListValues) /\ Linked(Append(s, k), m) /\ Len(m.val) = k
        /\ Array(m) = Append(Array(l), v)
    <3>1. k = Len(l.val) + 1
      BY <1>2, <2>1
    <3>2. QED
      BY <1>2, <2>2, <3>1, ArrayAppend
  <2>4. Members(t) = Members(s) \cup {k}
    <3>1. n \in Nat /\ s \in Seq(1 .. n) /\ k = n + 1
      BY <1>2, <1>3, <2>1
    <3>2. Members(Append(s, k)) = Members(s) \cup {k}
      BY <3>1, MembersChange
    <3>3. QED
      BY <2>1, <3>2
  <2>5. LInv'
    BY <1>2, <1>5, <2>1, <2>2, <2>3, <2>4
  <2>6. Array(list)' = Append(Array(list), v)
    BY <1>1, <2>3
  <2>7. QED
    BY <2>5, <2>6 DEF Abstract!Next, Abstract!Add
<1>7. ASSUME NEW v \in ListValues, NEW i \in kept, DoInsert(v, i)
      PROVE  LInv' /\ [Abstract!Next]_(Array(list))
  <2>1. PICK k, a, t : /\ k = n + 1 /\ a \in 1 .. Len(s) /\ i = s[a]
                       /\ t = InsertAt(s, a + 1, k)
    BY <1>2, <1>3, <1>7 DEF Members
  <2>2. m = Insert(l, v, s[a]) /\ kept' = kept \cup {k} /\ k <= MaxNodes
    BY <1>1, <1>2, <1>7, <2>1, ListHeapAssumption DEF DoInsert, NewNode, Fresh
  <2>3. /\ HeapOK(m, ListValues) /\ Linked(InsertAt(s, a + 1, k), m)
        /\ Len(m.val) = k /\ Array(m) = InsertAt(Array(l), a + 1, v)
    <3>1. k = Len(l.val) + 1 /\ a \in 1 .. Len(s)
      BY <1>2, <2>1
    <3>2. QED
      BY <1>2, <2>2, <3>1, ArrayInsert
  <2>4. Members(t) = Members(s) \cup {k}
    <3>1. n \in Nat /\ s \in Seq(1 .. n) /\ k = n + 1
      BY <1>2, <1>3, <2>1
    <3>2. Members(InsertAt(s, a + 1, k)) = Members(s) \cup {k}
      <4>1. \A b \in 1 .. Len(s) : Members(InsertAt(s, b + 1, k)) = Members(s) \cup {k}
        BY <3>1, MembersChange, Zenon
      <4>2. QED
        BY <2>1, <4>1, Zenon
    <3>3. QED
      BY <2>1, <3>2
  <2>5. LInv'
    BY <1>2, <1>5, <2>1, <2>2, <2>3, <2>4
  <2>6. Array(list)' = InsertAt(Array(list), a + 1, v) /\ a \in DOMAIN Array(list)
    BY <1>1, <1>4, <2>1, <2>3
  <2>7. Abstract!PutAfter(a, v)
    BY <2>6 DEF Abstract!PutAfter, Abstract!InsertAt, InsertAt
  <2>8. QED
    BY <2>5, <2>6, <2>7 DEF Abstract!Next
<1>8. ASSUME NEW v \in ListValues, NEW i \in kept, DoChange(v, i)
      PROVE  LInv' /\ [Abstract!Next]_(Array(list))
  <2>1. PICK a : a \in 1 .. Len(s) /\ i = s[a]
    BY <1>2, <1>3, <1>8 DEF Members
  <2>2. m = ChangeValue(l, s[a], v) /\ kept' = kept
    BY <1>1, <1>8, <2>1 DEF DoChange
  <2>3. /\ HeapOK(m, ListValues) /\ Linked(s, m) /\ Len(m.val) = Len(l.val)
        /\ Array(m) = [Array(l) EXCEPT ![a] = v]
    BY <1>2, <2>1, <2>2, ArrayChange
  <2>4. LInv'
    BY <1>2, <1>5, <2>2, <2>3
  <2>5. Array(list)' = [Array(list) EXCEPT ![a] = v] /\ a \in DOMAIN Array(list)
    BY <1>1, <1>4, <2>1, <2>3
  <2>6. QED
    BY <2>4, <2>5 DEF Abstract!Next, Abstract!Replace
<1>9. ASSUME NEW a \in 1 .. Len(s), m = RemoveNode(l, s[a]), kept' = kept \ {s[a]}
      PROVE  LInv' /\ [Abstract!Next]_(Array(list))
  <2>1. PICK t : t = RemoveAt(s, a)
    OBVIOUS
  <2>2. /\ HeapOK(m, ListValues) /\ Linked(RemoveAt(s, a), m)
        /\ Len(m.val) = Len(l.val) /\ Array(m) = RemoveAt(Array(l), a)
    BY <1>2, <1>9, ArrayRemove
  <2>3. Members(t) = Members(s) \ {s[a]}
    BY <1>2, <1>3, <2>1, MembersChange
  <2>4. LInv'
    BY <1>2, <1>5, <1>9, <2>1, <2>2, <2>3
  <2>5. Array(list)' = RemoveAt(Array(list), a) /\ a \in DOMAIN Array(list)
    BY <1>1, <1>4, <2>2
  <2>6. Abstract!Take(a)
    BY <2>5 DEF Abstract!Take, Abstract!RemoveAt, RemoveAt
  <2>7. QED
    BY <2>4, <2>5, <2>6 DEF Abstract!Next
<1>10. ASSUME NEW i \in kept, DoRemove(i)
       PROVE  LInv' /\ [Abstract!Next]_(Array(list))
  <2>1. PICK a : a \in 1 .. Len(s) /\ i = s[a]
    BY <1>2, <1>3 DEF Members
  <2>2. QED
    BY <1>1, <1>9, <1>10, <2>1 DEF DoRemove
<1>11. ASSUME DoPop PROVE LInv' /\ [Abstract!Next]_(Array(list))
  <2>1. PICK c : c = Len(s)
    OBVIOUS
  <2>2. LinkedBy(s, l, n, c)
    BY <1>2, <2>1, LinkedIs
  <2>3. c # 0 /\ l.head = s[1] /\ c \in Nat
    BY <1>1, <1>11, <2>2 DEF LinkedBy, DoPop
  <2>4. 1 \in 1 .. Len(s)
    BY <2>1, <2>3
  <2>5. m = RemoveNode(l, s[1]) /\ kept' = kept \ {s[1]}
    BY <1>1, <1>11, <2>3 DEF DoPop, PopList
  <2>6. QED
    BY <1>9, <2>4, <2>5
<1>12. ASSUME UNCHANGED listVars PROVE LInv' /\ [Abstract!Next]_(Array(list))
  <2>1. list' = list /\ kept' = kept
    BY <1>12 DEF listVars
  <2>2. Array(list)' = Array(list)
    BY <2>1 DEF Array, Nodes, Visit, Walk
  <2>3. Nodes(list)' = Nodes(list)
    BY <2>1
  <2>4. LInv'
    BY <2>1, <2>3 DEF LInv
  <2>5. QED
    BY <2>2, <2>4
<1>13. CASE ListNext
  BY <1>6, <1>7, <1>8, <1>10, <1>11, <1>13 DEF ListNext
<1>14. QED
  BY <1>12, <1>13

\* What a client sees follows from the links.
LEMMA LInvTells == LInv => ListTypeOK /\ LinksAgree
<1> SUFFICES ASSUME LInv PROVE ListTypeOK /\ LinksAgree
  OBVIOUS
<1>1. PICK s, n, c : s = Nodes(list) /\ n = Len(list.val) /\ c = Len(s)
  OBVIOUS
<1>2. HeapOK(list, ListValues) /\ Linked(s, list) /\ kept = Members(s) /\ n <= MaxNodes
  BY <1>1 DEF LInv
<1>3. LinkedBy(s, list, n, c) /\ DOMAIN s = 1 .. c
  BY <1>1, <1>2, LinkedIs
<1>4. /\ n \in Nat /\ c \in Nat /\ c <= n /\ list.size = c
      /\ \A i \in 1 .. c : s[i] \in 1 .. n
  BY <1>3 DEF LinkedBy
<1>5. list.head \in 0 .. n /\ list.tail \in 0 .. n
  BY <1>1, <1>2, HeapTyped
<1>6. ListTypeOK
  <2>1. kept \subseteq 1 .. n
    BY <1>2, <1>3, <1>4 DEF Members
  <2>2. list.size \in 0 .. MaxNodes
    BY <1>2, <1>4, ListHeapAssumption
  <2>3. {list.head, list.tail} \subseteq 0 .. MaxNodes
    BY <1>2, <1>4, <1>5, ListHeapAssumption
  <2>4. QED
    BY <1>1, <2>1, <2>2, <2>3 DEF ListTypeOK
<1>7. LinksAgree
  <2>1. NodesReverse(list) = Reverse(s)
    BY <1>2, LinkedNodes
  <2>2. QED
    BY <1>1, <1>2, <1>4, <2>1 DEF LinksAgree, Members
<1>8. QED
  BY <1>6, <1>7

\* The doubly linked list of src/ds/list implements the sequence: whatever its
\* client appends, inserts, changes, removes and pops, an iteration sees what
\* the same operations make of a sequence, in both directions.
THEOREM ListImplementsSeq == ListSpec => ImplementsSeq
<1>1. ListInit => LInv /\ Abstract!Init
  BY InitLInv DEF Abstract!Init
<1>2. LInv /\ [ListNext]_listVars => LInv' /\ [Abstract!Next]_(Array(list))
  BY StepLInv
<1>3. LInv => ListTypeOK /\ LinksAgree
  BY LInvTells
<1>4. QED
  BY <1>1, <1>2, <1>3, PTL DEF ListSpec, ImplementsSeq, Abstract!Spec

\* Whatever the links of a heap are, an iteration visits nodes of it.
LEMMA NodesTyped ==
  ASSUME NEW V, NEW l, HeapOK(l, V), NEW n, n = Len(l.val)
  PROVE  n \in Nat /\ DOMAIN Nodes(l) \subseteq 1 .. n
         /\ \A i \in DOMAIN Nodes(l) : Nodes(l)[i] \in 1 .. n
<1>1. /\ n \in Nat /\ l.head \in 0 .. n /\ l.next \in [1 .. n -> 0 .. n]
  BY HeapTyped
<1>2. PICK first, link, at : first = l.head /\ link = l.next
                             /\ at = Walk(l, first, link)
  OBVIOUS
<1>3. first \in 0 .. n /\ link \in [1 .. n -> 0 .. n]
  BY <1>1, <1>2
<1>4. at \in [1 .. n -> 0 .. n] /\ WalksTo(at, first, link, n)
  BY <1>1, <1>2, <1>3, WalkUnfolds
<1>5. \A k \in 1 .. n : k # 1 /\ at[k - 1] = Nil => at[k] = Nil
  BY <1>4 DEF WalksTo
\* the first nil ends the iteration
<1> DEFINE T == {k \in Nat : k = n + 1 \/ (k \in 1 .. n /\ at[k] = Nil)}
<1>6. PICK e \in T : \A k \in T : e <= k
  <2>1. n + 1 \in T /\ T \in SUBSET Nat
    BY <1>1
  <2>2. QED
    BY <2>1, LeastExists
<1>7. PICK m : m = e - 1
  OBVIOUS
<1>8. m \in Nat /\ m <= n /\ e = m + 1 /\ e \in Nat
  BY <1>1, <1>6, <1>7
<1>9. \A k \in 1 .. m : k \in 1 .. n /\ at[k] # Nil
  <2>1. ASSUME NEW k \in 1 .. m PROVE k \in 1 .. n /\ at[k] # Nil
    <3>1. k \in 1 .. n /\ k \in Nat /\ ~(e <= k)
      BY <1>1, <1>8
    <3>2. k \notin T
      BY <1>6, <3>1
    <3>3. QED
      BY <3>1, <3>2
  <2>2. QED
    BY <2>1
<1> DEFINE U == {k \in Nat : k \in 1 .. n /\ k >= e /\ at[k] # Nil}
<1>10. U = {}
  <2>1. SUFFICES ASSUME U # {} PROVE FALSE
    OBVIOUS
  <2>2. PICK k \in U : \A j \in U : k <= j
    BY <2>1, LeastExists
  <2>3. CASE k = e
    BY <1>1, <1>6, <2>2, <2>3
  <2>4. CASE k # e
    <3>1. PICK j : j = k - 1
      OBVIOUS
    <3>2. j \in 1 .. n /\ j >= e /\ k # 1 /\ j \in Nat /\ ~(k <= j)
      BY <1>1, <1>6, <1>8, <2>2, <2>4, <3>1
    <3>3. j \notin U
      BY <2>2, <3>2
    <3>4. at[j] = Nil
      BY <3>2, <3>3
    <3>5. at[k] = Nil
      BY <1>5, <2>2, <3>1, <3>2, <3>4
    <3>6. QED
      BY <2>2, <3>5
  <2>5. QED
    BY <2>3, <2>4
<1>11. {k \in 1 .. n : at[k] # Nil} = 1 .. m
  <2>1. ASSUME NEW k \in 1 .. n, at[k] # Nil PROVE k \in 1 .. m
    <3>1. k \in Nat /\ ~(k >= e)
      BY <1>1, <1>10, <2>1
    <3>2. QED
      BY <1>8, <3>1
  <2>2. QED
    BY <1>9, <2>1
<1> HIDE DEF T, U
<1>12. Cardinality(1 .. m) = m
  <2>1. PICK a : a = 1
    OBVIOUS
  <2>2. a \in Int /\ m \in Int
    BY <1>8, <2>1
  <2>3. Cardinality(a .. m) = IF a > m THEN 0 ELSE m - a + 1
    BY <2>2, FS_Interval
  <2>4. QED
    BY <1>8, <2>1, <2>3
<1>13. Nodes(l) = [k \in 1 .. m |-> at[k]]
  <2>1. Nodes(l) = [k \in 1 .. Cardinality({k \in 1 .. n : at[k] # Nil}) |-> at[k]]
    BY <1>2, Zenon DEF Nodes, Visit
  <2>2. QED
    BY <1>11, <1>12, <2>1, Zenon
<1>14. \A k \in 1 .. m : at[k] \in 1 .. n
  BY <1>4, <1>9 DEF Nil
<1>15. QED
  BY <1>1, <1>9, <1>13, <1>14

-----------------------------------------------------------------------------
(* The pipeline's payouts.                                                 *)

\* The payouts of a sequence are in the order of their periods.
InOrder(A) == \A i, j \in DOMAIN A : i < j => Start[A[i]] < Start[A[j]]

\* Appending one that starts after the last.
LEMMA InOrderAppend ==
  ASSUME NEW A \in Seq(Payouts), InOrder(A), NEW p \in Payouts, NEW c, c = Len(A),
         c # 0 => Start[A[c]] < Start[p], NEW B, B = Append(A, p)
  PROVE  InOrder(B)
<1>1. /\ c \in Nat /\ DOMAIN A = 1 .. c /\ DOMAIN B = 1 .. c + 1 /\ B[c + 1] = p
      /\ \A i \in 1 .. c : B[i] = A[i] /\ A[i] \in Payouts
  <2>1. /\ B \in Seq(Payouts) /\ Len(B) = Len(A) + 1 /\ B[Len(A) + 1] = p
        /\ \A i \in 1 .. Len(A) : B[i] = A[i]
    BY AppendTyped
  <2>2. QED
    BY <2>1, LenProperties, ElementOfSeq
<1>2. ASSUME NEW i \in 1 .. c + 1, NEW j \in 1 .. c + 1, i < j
      PROVE  Start[B[i]] < Start[B[j]]
  <2>0. i \in 1 .. c /\ c # 0 /\ c \in 1 .. c
    BY <1>1, <1>2
  <2>1. CASE j \in 1 .. c
    BY <1>1, <1>2, <2>0, <2>1 DEF InOrder
  <2>2. CASE j = c + 1
    <3>1. PICK x, y, z : x = Start[A[i]] /\ y = Start[A[c]] /\ z = Start[p]
      OBVIOUS
    <3>2. x \in Nat /\ y \in Nat /\ z \in Nat /\ y < z
      BY <1>1, <2>0, <3>1, PipelineStateAssumption
    <3>3. i < c => x < y
      BY <1>1, <2>0, <3>1 DEF InOrder
    <3>4. i = c => x = y
      BY <3>1
    <3>5. x < z
      BY <1>1, <2>0, <3>2, <3>3, <3>4
    <3>6. QED
      BY <1>1, <2>0, <2>2, <3>1, <3>5
  <2>3. QED
    BY <1>1, <2>1, <2>2
<1>3. QED
  BY <1>1, <1>2 DEF InOrder

\* Inserting one between its neighbours.
Before(p, A, a) == /\ Start[p] < Start[A[a]]
                   /\ \A i \in 1 .. Len(A) : i < a => Start[A[i]] < Start[p]

LEMMA InOrderInsert ==
  ASSUME NEW A \in Seq(Payouts), InOrder(A), NEW p \in Payouts,
         NEW a \in 1 .. Len(A), Before(p, A, a), NEW B, With(B, A, Payouts, a, p)
  PROVE  InOrder(B)
<1>1. PICK c : c = Len(A)
  OBVIOUS
<1>2. /\ a \in 1 .. c /\ Start[p] < Start[A[a]]
      /\ \A i \in 1 .. c : i < a => Start[A[i]] < Start[p]
      /\ B \in Seq(Payouts) /\ Len(B) = c + 1
  BY <1>1 DEF Before, With
<1>3. \A i \in 1 .. c + 1 : B[i] = IF i < a THEN A[i] ELSE IF i = a THEN p ELSE A[i - 1]
  BY <1>1 DEF With
<1>4. /\ c \in Nat /\ DOMAIN A = 1 .. c /\ DOMAIN B = 1 .. c + 1
      /\ \A i \in 1 .. c : A[i] \in Payouts /\ Start[A[i]] \in Nat
      /\ Start[p] \in Nat
  <2>1. c \in Nat /\ DOMAIN A = 1 .. c
    BY <1>1, LenProperties
  <2>2. DOMAIN B = 1 .. c + 1
    BY <1>2, LenProperties
  <2>3. \A i \in 1 .. c : A[i] \in Payouts
    BY <1>1, ElementOfSeq
  <2>4. Start[p] \in Nat /\ \A x \in Payouts : Start[x] \in Nat
    BY PipelineStateAssumption
  <2>5. QED
    BY <2>1, <2>2, <2>3, <2>4
<1>5. \A i, j \in 1 .. c : i < j => Start[A[i]] < Start[A[j]]
  BY <1>4 DEF InOrder
<1>6. ASSUME NEW i \in 1 .. c, a <= i PROVE Start[p] < Start[A[i]]
  <2>1. CASE i = a
    BY <1>2, <2>1
  <2>2. CASE a < i
    <3>1. Start[A[a]] < Start[A[i]]
      BY <1>5, <1>2, <2>2
    <3>2. PICK x, y, z : x = Start[p] /\ y = Start[A[a]] /\ z = Start[A[i]]
      OBVIOUS
    <3>3. x \in Nat /\ y \in Nat /\ z \in Nat /\ x < y /\ y < z
      BY <1>4, <1>2, <3>1, <3>2
    <3>4. QED
      BY <3>2, <3>3
  <2>3. QED
    BY <1>4, <1>6, <1>2, <2>1, <2>2
<1>7. PICK f : f = [i \in 1 .. c + 1 |-> IF i < a THEN i ELSE i - 1]
  OBVIOUS
<1>8. ASSUME NEW i \in 1 .. c + 1, i # a
      PROVE  f[i] \in 1 .. c /\ B[i] = A[f[i]] /\ f[i] = IF i < a THEN i ELSE i - 1
  <2>1. f[i] \in 1 .. c /\ f[i] = IF i < a THEN i ELSE i - 1
    BY <1>4, <1>7, <1>8, <1>2
  <2>2. QED
    BY <1>8, <1>3, <2>1
<1>9. B[a] = p /\ a \in 1 .. c + 1
  <2>1. a \in 1 .. c + 1 /\ ~(a < a)
    BY <1>4, <1>2
  <2>2. QED
    BY <1>3, <2>1
<1>10. ASSUME NEW i \in 1 .. c + 1, NEW j \in 1 .. c + 1, i < j
      PROVE  Start[B[i]] < Start[B[j]]
  <2>1. CASE i = a
    <3>1. j # a /\ f[j] \in 1 .. c /\ B[j] = A[f[j]] /\ a <= f[j]
      <4>1. j # a /\ ~(j < a)
        BY <1>4, <1>10, <1>2, <2>1
      <4>2. f[j] \in 1 .. c /\ B[j] = A[f[j]] /\ f[j] = j - 1
        BY <1>8, <4>1
      <4>3. QED
        BY <1>4, <1>10, <1>2, <2>1, <4>1, <4>2
    <3>2. QED
      BY <1>6, <1>9, <2>1, <3>1
  <2>2. CASE j = a
    <3>1. i # a /\ i < a /\ i \in 1 .. c
      BY <1>4, <1>10, <1>2, <2>2
    <3>2. B[i] = A[i]
      BY <1>3, <3>1
    <3>3. QED
      BY <1>9, <1>2, <2>2, <3>1, <3>2
  <2>3. CASE i # a /\ j # a
    <3>1. /\ f[i] \in 1 .. c /\ B[i] = A[f[i]] /\ f[i] = (IF i < a THEN i ELSE i - 1)
          /\ f[j] \in 1 .. c /\ B[j] = A[f[j]] /\ f[j] = (IF j < a THEN j ELSE j - 1)
      BY <1>8, <2>3
    <3>2. f[i] < f[j]
      BY <1>4, <1>10, <1>2, <2>3, <3>1
    <3>3. QED
      BY <1>5, <3>1, <3>2
  <2>4. QED
    BY <2>1, <2>2, <2>3
<1>11. QED
  BY <1>4, <1>10 DEF InOrder

\* Taking one out.
LEMMA InOrderRemove ==
  ASSUME NEW A \in Seq(Payouts), InOrder(A), NEW a \in 1 .. Len(A),
         NEW B, B = RemoveAt(A, a)
  PROVE  InOrder(B)
<1>1. PICK c : c = Len(A) /\ c \in Nat /\ DOMAIN A = 1 .. c
  BY LenProperties
<1>2. Without(B, A, Payouts, a)
  BY RemoveAtIs
<1>3. /\ B \in Seq(Payouts) /\ Len(B) = c - 1 /\ a \in 1 .. c
      /\ \A i \in 1 .. c - 1 : B[i] = IF i < a THEN A[i] ELSE A[i + 1]
  BY <1>1, <1>2 DEF Without
<1>4. DOMAIN B = 1 .. c - 1
  BY <1>3, LenProperties
<1>5. ASSUME NEW i \in 1 .. c - 1, NEW j \in 1 .. c - 1, i < j
      PROVE  Start[B[i]] < Start[B[j]]
  <2>1. PICK g, h : /\ g = (IF i < a THEN i ELSE i + 1)
                    /\ h = (IF j < a THEN j ELSE j + 1)
    OBVIOUS
  <2>2. g \in 1 .. c /\ h \in 1 .. c /\ g < h
    BY <1>1, <1>3, <1>5, <2>1
  <2>3. B[i] = A[g] /\ B[j] = A[h]
    BY <1>3, <2>1
  <2>4. QED
    BY <1>1, <2>2, <2>3 DEF InOrder
<1>6. QED
  BY <1>4, <1>5 DEF InOrder

\* The list is linked and in order.
Orderly(l) == Linked(Nodes(l), l) /\ InOrder(Array(l))

\* A node's value is changed.
Revalued(m, l, s, V, a, v) ==
    HeapOK(m, V) /\ Linked(s, m) /\ Array(m) = [Array(l) EXCEPT ![a] = v]

LEMMA Revalue ==
  ASSUME NEW V, NEW l, HeapOK(l, V), NEW s, Linked(s, l), NEW v \in V,
         NEW a \in 1 .. Len(s), NEW m, m = ChangeValue(l, s[a], v)
  PROVE  Revalued(m, l, s, V, a, v)
BY ArrayChange DEF Revalued

\* on_payout_insert before a later payout: a new node after that one takes
\* its payout, and its own node the new one.
LEMMA InsertBefore ==
  ASSUME NEW l, HeapOK(l, Payouts), NEW p \in Payouts, NEW i \in 1 .. Len(l.val),
         NEW m, m = ChangeValue(Insert(l, l.val[i], i), i, p)
  PROVE  HeapOK(m, Payouts) /\ Len(m.val) = Len(l.val) + 1
<1>1. PICK n, k, v, q, x, w :
         /\ n = Len(l.val) /\ k = n + 1 /\ v = l.val[i] /\ q = Insert(l, v, i)
         /\ x = l.next[i] /\ w = (IF x = Nil THEN l.tail ELSE i)
  OBVIOUS
<1>2. n \in Nat /\ v \in Payouts /\ i \in 1 .. n
  BY <1>1, HeapTyped
<1>3. Inserted(q, l, Payouts, n, k, v, w, x)
  BY <1>1, <1>2, InsertFields
<1>4. HeapOK(q, Payouts) /\ Len(q.val) = k /\ i \in 1 .. k
  BY <1>1, <1>2, <1>3 DEF Inserted
<1>5. m = ChangeValue(q, i, p)
  BY <1>1
<1>6. Changed(m, q, Payouts, k, i, p)
  BY <1>4, <1>5, ChangeFields
<1>7. QED
  BY <1>1, <1>6 DEF Changed

LEMMA InsertBeforeOrderly ==
  ASSUME NEW l, HeapOK(l, Payouts), NEW s, Linked(s, l), InOrder(Array(l)),
         NEW p \in Payouts, NEW a \in 1 .. Len(s),
         Before(p, Array(l), a),
         NEW m, m = ChangeValue(Insert(l, l.val[s[a]], s[a]), s[a], p)
  PROVE  Orderly(m)
<1>1. PICK c, A : c = Len(s) /\ A = Array(l)
  OBVIOUS
<1>2. /\ A \in Seq(Payouts) /\ Len(A) = c /\ c \in Nat
      /\ \A i \in 1 .. c : A[i] = l.val[s[i]]
  BY <1>1, ArrayIs
<1>3. A[a] \in Payouts /\ a \in 1 .. c /\ a \in 1 .. Len(A)
  BY <1>1, <1>2, ElementOfSeq
<1>4. PICK v, q, k, t, b : /\ v = A[a] /\ q = Insert(l, v, s[a])
                           /\ k = Len(l.val) + 1 /\ b = a + 1
                           /\ t = InsertAt(s, b, k)
  OBVIOUS
<1>5. /\ HeapOK(q, Payouts) /\ Linked(t, q) /\ Len(q.val) = k
      /\ Array(q) = InsertAt(A, b, v)
  <2>1. v \in Payouts /\ q = Insert(l, v, s[a]) /\ k = Len(l.val) + 1
    BY <1>3, <1>4
  <2>2. /\ HeapOK(q, Payouts) /\ Linked(InsertAt(s, a + 1, k), q) /\ Len(q.val) = k
        /\ Array(q) = InsertAt(Array(l), a + 1, v)
    BY <2>1, ArrayInsert
  <2>3. QED
    BY <1>1, <1>4, <2>2
<1>6. Len(t) = c + 1 /\ t[a] = s[a] /\ a \in 1 .. Len(t)
  <2>1. PICK n : n = Len(l.val)
    OBVIOUS
  <2>2. LinkedBy(s, l, n, c) /\ s \in Seq(1 .. n)
    BY <1>1, <2>1, LinkedIs
  <2>3. n \in Nat
    BY <2>2 DEF LinkedBy
  <2>4. s \in Seq(Nat) /\ k \in Nat /\ b \in 1 .. Len(s) + 1
    <3>1. 1 .. n \subseteq Nat
      BY <2>3
    <3>2. s \in Seq(Nat)
      BY <2>2, <3>1, SeqMonotone
    <3>3. QED
      BY <1>1, <1>2, <1>4, <2>1, <2>3, <3>2
  <2>5. With(t, s, Nat, b, k)
    BY <1>4, <2>4, InsertAtIs
  <2>6. Len(t) = c + 1 /\ \A j \in 1 .. c + 1 : j < b => t[j] = s[j]
    BY <1>1, <2>5 DEF With
  <2>7. a \in 1 .. c + 1 /\ a < b
    BY <1>2, <1>3, <1>4
  <2>8. QED
    BY <2>6, <2>7
<1>7. m = ChangeValue(q, t[a], p)
  <2>1. l.val[s[a]] = v
    BY <1>2, <1>3, <1>4
  <2>2. QED
    BY <1>4, <1>6, <2>1
<1>8. /\ HeapOK(m, Payouts) /\ Linked(t, m)
      /\ Array(m) = [Array(q) EXCEPT ![a] = p]
  <2>1. HeapOK(q, Payouts) /\ Linked(t, q) /\ a \in 1 .. Len(t)
    BY <1>5, <1>6
  <2>2. QED
    BY <1>7, <2>1, Revalue DEF Revalued
<1>9. PICK C, B : C = Array(q) /\ B = Array(m)
  OBVIOUS
<1>10. /\ C \in Seq(Payouts) /\ Len(C) = c + 1 /\ DOMAIN C = 1 .. c + 1
       /\ \A j \in 1 .. c + 1 :
             C[j] = IF j < b THEN A[j] ELSE IF j = b THEN v ELSE A[j - 1]
  <2>1. b \in 1 .. Len(A) + 1 /\ v \in Payouts /\ C = InsertAt(A, b, v)
    BY <1>2, <1>3, <1>4, <1>5, <1>9
  <2>2. With(C, A, Payouts, b, v)
    BY <1>2, <2>1, InsertAtIs
  <2>3. QED
    BY <1>2, <2>2, LenProperties DEF With
<1>11. B \in Seq(Payouts) /\ Len(B) = c + 1
  <2>1. PICK d : d = Len(t)
    OBVIOUS
  <2>2. B \in Seq(Payouts) /\ Len(B) = d
    <3>1. HeapOK(m, Payouts) /\ Linked(t, m) /\ B = Array(m)
      BY <1>8, <1>9
    <3>2. QED
      BY <2>1, <3>1, ArrayIs
  <2>3. QED
    BY <1>6, <2>1, <2>2
<1>12. ASSUME NEW j \in 1 .. c + 1
       PROVE  B[j] = IF j < a THEN A[j] ELSE IF j = a THEN p ELSE A[j - 1]
  <2>1. B[j] = IF j = a THEN p ELSE C[j]
    BY <1>8, <1>9, <1>10
  <2>2. CASE j < a
    BY <1>3, <1>4, <1>10, <2>1, <2>2
  <2>3. CASE j = a
    BY <1>3, <2>1, <2>3
  <2>4. CASE j > a
    <3>1. B[j] = C[j] /\ ~(j < b) /\ (j = b => j - 1 = a)
      BY <1>3, <1>4, <2>1, <2>4
    <3>2. C[j] = A[j - 1]
      BY <1>4, <1>10, <3>1
    <3>3. ~(j < a) /\ j # a
      BY <1>3, <2>4
    <3>4. QED
      BY <3>1, <3>2, <3>3
  <2>5. QED
    BY <1>3, <2>2, <2>3, <2>4
<1>13. InOrder(B)
  <2>1. InOrder(A) /\ Before(p, A, a)
    BY <1>1, <1>2
  <2>2. With(B, A, Payouts, a, p)
    BY <1>2, <1>11, <1>12 DEF With
  <2>3. QED
    BY <1>2, <1>3, <2>1, <2>2, InOrderInsert
<1>14. Nodes(m) = t
  BY <1>8, LinkedNodes
<1>15. QED
  BY <1>8, <1>9, <1>13, <1>14 DEF Orderly

\* The node that on_payout_insert finds.
FirstLater(i, p) ==
    \E a \in DOMAIN Nodes(plist) :
        /\ i = Nodes(plist)[a]
        /\ Start[p] < Start[plist.val[Nodes(plist)[a]]]
        /\ \A j \in DOMAIN Nodes(plist) :
              j < a => ~(Start[p] < Start[plist.val[Nodes(plist)[j]]])

LEMMA LaterIs ==
  ASSUME HeapOK(plist, Payouts), NEW p \in Payouts, Later(p) # Nil
  PROVE  FirstLater(Later(p), p)
<1>1. PICK n, s : n = Len(plist.val) /\ s = Nodes(plist)
  OBVIOUS
<1>2. n \in Nat /\ DOMAIN s \subseteq 1 .. n
  BY <1>1, NodesTyped
<1>3. PICK k : k = {i \in DOMAIN s : Start[p] < Start[plist.val[s[i]]]}
  OBVIOUS
<1>4. Later(p) = IF k = {} THEN Nil ELSE s[CHOOSE i \in k : \A j \in k : i <= j]
  <2>1. Later(p) = IF {h \in DOMAIN Nodes(plist) :
                            Start[p] < Start[plist.val[Nodes(plist)[h]]]} = {}
                   THEN Nil
                   ELSE Nodes(plist)[CHOOSE i \in
                            {h \in DOMAIN Nodes(plist) :
                               Start[p] < Start[plist.val[Nodes(plist)[h]]]} :
                            \A j \in {h \in DOMAIN Nodes(plist) :
                                      Start[p] < Start[plist.val[Nodes(plist)[h]]]} :
                               i <= j]
    BY DEF Later
  <2>2. QED
    BY <1>1, <1>3, <2>1
<1>5. k # {} /\ Later(p) = s[CHOOSE i \in k : \A j \in k : i <= j]
  BY <1>4, Zenon
<1>6. k \in SUBSET Nat
  BY <1>2, <1>3
<1>7. \E x \in k : \A y \in k : x <= y
  BY <1>5, <1>6, LeastExists
<1>8. PICK a : a = CHOOSE i \in k : \A j \in k : i <= j
  OBVIOUS
<1>9. a \in k /\ \A j \in k : a <= j
  BY <1>7, <1>8, Zenon
<1>10. a \in DOMAIN s /\ Start[p] < Start[plist.val[s[a]]] /\ Later(p) = s[a]
  <2>1. Later(p) = s[a]
    BY <1>5, <1>8, Zenon
  <2>2. a \in k
    BY <1>9
  <2>3. QED
    BY <1>3, <2>1, <2>2
<1>11. ASSUME NEW j \in DOMAIN s, j < a
       PROVE  ~(Start[p] < Start[plist.val[s[j]]])
  <2>1. ~(a <= j)
    BY <1>2, <1>6, <1>9, <1>11
  <2>2. j \notin k
    BY <1>9, <2>1
  <2>3. QED
    BY <1>3, <2>2
<1>12. QED
  BY <1>1, <1>10, <1>11 DEF FirstLater

\* What on_payout_insert returns.
PayoutPut(r, n, p) ==
    /\ HeapOK(r.list, Payouts) /\ Len(r.list.val) \in {n, n + 1}
    /\ r.node \in 0 .. Len(r.list.val)
    /\ r.node = Nil => r.list = plist
    /\ Orderly(plist) => Orderly(r.list)
    /\ (Orderly(plist) /\ r.node # Nil /\ r.node \notin Allocated(plist)) =>
          /\ r.node = n + 1 /\ Len(r.list.val) = n + 1
          /\ Members(Nodes(r.list)) = Members(Nodes(plist)) \cup {n + 1}
          /\ r.list.val[n + 1] = p
          /\ \A j \in 1 .. n : r.list.val[j] = plist.val[j]

Grown(t, s, k) == Members(t) = Members(s) \cup {k}

LEMMA MembersGrow ==
  ASSUME NEW n, NEW s, NEW k, n \in Nat /\ s \in Seq(1 .. n) /\ k = n + 1,
         NEW t, t = Append(s, k)
  PROVE  Grown(t, s, k)
<1>1. Members(Append(s, k)) = Members(s) \cup {k}
  BY MembersChange
<1>2. QED
  BY <1>1 DEF Grown

LEMMA PayoutAppended ==
  ASSUME HeapOK(plist, Payouts), NEW p \in Payouts, NEW n, n = Len(plist.val),
         plist.size = 0 \/ Start[plist.val[plist.tail]] < Start[p],
         NEW r, r = [list |-> AppendList(plist, p), node |-> NewNode(plist)]
  PROVE  PayoutPut(r, n, p)
<1>1. PICK l, k, m : l = plist /\ k = n + 1 /\ m = AppendList(l, p)
  OBVIOUS
<1>2. r.list = m /\ r.node = k /\ HeapOK(l, Payouts)
  BY <1>1 DEF NewNode
<1>3. Appended(m, l, Payouts, n, k, p)
  BY <1>1, <1>2, AppendFields
<1>4. /\ HeapOK(m, Payouts) /\ n \in Nat /\ Len(m.val) = k
      /\ m.val[k] = p /\ \A j \in 1 .. n : m.val[j] = l.val[j]
  BY <1>3 DEF Appended
<1>5. k \in 0 .. k /\ k # Nil
  BY <1>1, <1>4 DEF Nil
<1>6. ASSUME Orderly(l)
      PROVE  Orderly(m) /\ Members(Nodes(m)) = Members(Nodes(l)) \cup {k}
  <2>1. PICK s, c, A, B, t : /\ s = Nodes(l) /\ c = Len(s) /\ A = Array(l)
                             /\ B = Array(m) /\ t = Append(s, k)
    OBVIOUS
  <2>2. Linked(s, l) /\ InOrder(A)
    BY <1>6, <2>1 DEF Orderly
  <2>3. LinkedBy(s, l, n, c) /\ s \in Seq(1 .. n)
    BY <1>1, <2>1, <2>2, LinkedIs
  <2>4. /\ A \in Seq(Payouts) /\ Len(A) = c /\ c \in Nat
        /\ \A i \in 1 .. c : A[i] = l.val[s[i]]
    BY <1>2, <2>1, <2>2, ArrayIs
  <2>5. k = Len(l.val) + 1 /\ m = AppendList(l, p)
    BY <1>1
  <2>6. Linked(t, m) /\ B = Append(A, p)
    <3>1. Linked(Append(s, k), m) /\ Array(m) = Append(Array(l), p)
      BY <1>2, <2>2, <2>5, ArrayAppend
    <3>2. QED
      BY <2>1, <3>1
  <2>7. c # 0 => Start[A[c]] < Start[p]
    <3>1. SUFFICES ASSUME c # 0 PROVE Start[A[c]] < Start[p]
      OBVIOUS
    <3>2. l.size = c /\ l.tail = s[c]
      BY <2>3, <3>1 DEF LinkedBy
    <3>3. A[c] = l.val[s[c]]
      BY <2>4, <3>1
    <3>4. QED
      BY <1>1, <3>1, <3>2, <3>3
  <2>8. InOrder(B)
    BY <2>2, <2>4, <2>6, <2>7, InOrderAppend
  <2>9. Nodes(m) = t
    BY <1>4, <2>6, LinkedNodes
  <2>10. Members(t) = Members(s) \cup {k}
    <3>1. n \in Nat /\ s \in Seq(1 .. n) /\ k = n + 1
      BY <1>1, <1>4, <2>3
    <3>2. t = Append(s, k)
      BY <2>1
    <3>3. Grown(t, s, k)
      BY <3>1, <3>2, MembersGrow
    <3>4. QED
      BY <3>3 DEF Grown
  <2>11. QED
    BY <2>1, <2>6, <2>8, <2>9, <2>10 DEF Orderly
<1>7. QED
  BY <1>1, <1>2, <1>4, <1>5, <1>6 DEF PayoutPut

LEMMA PayoutFound ==
  ASSUME HeapOK(plist, Payouts), NEW p \in Payouts, NEW n, n = Len(plist.val),
         NEW i, i = Nil \/ i \in Allocated(plist), NEW r, r = [list |-> plist, node |-> i]
  PROVE  PayoutPut(r, n, p)
<1>1. n \in Nat /\ plist.val \in [1 .. n -> Payouts]
  BY HeapTyped
<1>2. i \in 0 .. n
  BY <1>1 DEF Nil, Allocated
<1>3. r.list = plist /\ r.node = i
  OBVIOUS
<1>4. QED
  BY <1>1, <1>2, <1>3 DEF PayoutPut

LEMMA PayoutBefore ==
  ASSUME HeapOK(plist, Payouts), NEW p \in Payouts, NEW n, n = Len(plist.val),
         Same(p) = {}, NEW i, i = Later(p), i # Nil,
         NEW r, r = [list |-> ChangeValue(Insert(plist, plist.val[i], i), i, p),
                     node |-> i]
  PROVE  PayoutPut(r, n, p)
<1>1. PICK l, m, s : /\ l = plist /\ m = ChangeValue(Insert(l, l.val[i], i), i, p)
                     /\ s = Nodes(l)
  OBVIOUS
<1>2. r.list = m /\ r.node = i /\ HeapOK(l, Payouts)
  BY <1>1
<1>3. FirstLater(i, p)
  BY LaterIs
<1>4. PICK a \in DOMAIN s :
        /\ i = s[a] /\ Start[p] < Start[l.val[s[a]]]
        /\ \A j \in DOMAIN s : j < a => ~(Start[p] < Start[l.val[s[j]]])
  BY <1>1, <1>3 DEF FirstLater
<1>5. n \in Nat /\ \A j \in DOMAIN s : s[j] \in 1 .. n
  BY <1>1, NodesTyped
<1>6. i \in 1 .. n /\ i \in 1 .. Len(l.val) /\ DOMAIN l.val = 1 .. n
  BY <1>1, <1>4, <1>5, HeapTyped
<1>7. HeapOK(m, Payouts) /\ Len(m.val) = n + 1
  <2>1. HeapOK(m, Payouts) /\ Len(m.val) = Len(l.val) + 1
    BY <1>1, <1>2, <1>6, InsertBefore
  <2>2. QED
    BY <1>1, <2>1
<1>8. ASSUME Orderly(l) PROVE Orderly(m)
  <2>1. PICK c, A : c = Len(s) /\ A = Array(l)
    OBVIOUS
  <2>2. Linked(s, l) /\ InOrder(A)
    BY <1>1, <1>8, <2>1 DEF Orderly
  <2>3. DOMAIN s = 1 .. c
    BY <2>1, <2>2, LinkedIs
  <2>4. /\ A \in Seq(Payouts) /\ Len(A) = c /\ c \in Nat
        /\ \A j \in 1 .. c : A[j] = l.val[s[j]] /\ A[j] \in Payouts
    <3>1. /\ A \in Seq(Payouts) /\ Len(A) = c /\ c \in Nat
          /\ \A j \in 1 .. c : A[j] = l.val[s[j]]
      BY <1>2, <2>1, <2>2, ArrayIs
    <3>2. QED
      BY <3>1, ElementOfSeq
  <2>5. a \in 1 .. c /\ Start[p] < Start[A[a]]
    BY <1>4, <2>3, <2>4
  <2>6. ASSUME NEW j \in 1 .. c, j < a PROVE Start[A[j]] < Start[p]
    <3>1. ~(Start[p] < Start[A[j]])
      BY <1>4, <2>3, <2>4, <2>6
    <3>2. A[j] # p
      <4>1. SUFFICES ASSUME A[j] = p PROVE FALSE
        OBVIOUS
      <4>2. s[j] \in Allocated(l) /\ l.val[s[j]] = p
        BY <1>5, <1>6, <2>3, <2>4, <4>1 DEF Allocated
      <4>3. s[j] \in Same(p)
        BY <1>1, <2>3, <4>2 DEF Same
      <4>4. QED
        BY <4>3
    <3>3. PICK x, y : x = Start[p] /\ y = Start[A[j]]
      OBVIOUS
    <3>4. x \in Nat /\ y \in Nat /\ x # y /\ ~(x < y)
      BY <2>4, <3>1, <3>2, <3>3, PipelineStateAssumption
    <3>5. y < x
      BY <3>4
    <3>6. QED
      BY <3>3, <3>5
  <2>7. Before(p, A, a)
    BY <2>4, <2>5, <2>6 DEF Before
  <2>8. /\ InOrder(Array(l)) /\ a \in 1 .. Len(s) /\ Before(p, Array(l), a)
        /\ m = ChangeValue(Insert(l, l.val[s[a]], s[a]), s[a], p)
    BY <1>1, <1>4, <2>1, <2>2, <2>5, <2>7
  <2>9. QED
    BY <1>2, <2>2, <2>8, InsertBeforeOrderly
<1>9. i \in Allocated(plist) /\ i \in 0 .. n + 1
  BY <1>1, <1>5, <1>6 DEF Allocated
<1>10. QED
  BY <1>1, <1>2, <1>5, <1>7, <1>8, <1>9 DEF PayoutPut

LEMMA PayoutInserted ==
  ASSUME HeapOK(plist, Payouts), NEW p \in Payouts, NEW n, n = Len(plist.val),
         NEW r, r = on_payout_insert(p)
  PROVE  PayoutPut(r, n, p)
<1>1. CASE plist.size = 0 \/ Start[plist.val[plist.tail]] < Start[p]
  <2>1. r = [list |-> AppendList(plist, p), node |-> NewNode(plist)]
    BY <1>1, Zenon DEF on_payout_insert
  <2>2. QED
    BY <1>1, <2>1, PayoutAppended
<1>2. CASE ~(plist.size = 0 \/ Start[plist.val[plist.tail]] < Start[p]) /\ Same(p) # {}
  <2>1. PICK i : i = CHOOSE x \in Same(p) : TRUE
    OBVIOUS
  <2>2. r = [list |-> plist, node |-> i]
    BY <1>2, <2>1, Zenon DEF on_payout_insert
  <2>3. i \in Same(p)
    BY <1>2, <2>1
  <2>4. i \in Allocated(plist)
    BY <2>3 DEF Same
  <2>5. QED
    BY <2>2, <2>4, PayoutFound
<1>3. CASE ~(plist.size = 0 \/ Start[plist.val[plist.tail]] < Start[p]) /\ Same(p) = {}
  <2>1. PICK i : i = Later(p)
    OBVIOUS
  <2>2. r = IF i = Nil THEN [list |-> plist, node |-> Nil]
            ELSE [list |-> ChangeValue(Insert(plist, plist.val[i], i), i, p),
                  node |-> i]
    BY <1>3, <2>1, Zenon DEF on_payout_insert
  <2>3. CASE i = Nil
    <3>1. r = [list |-> plist, node |-> i]
      BY <2>2, <2>3, Zenon
    <3>2. QED
      BY <2>3, <3>1, PayoutFound
  <2>4. CASE i # Nil
    <3>1. r = [list |-> ChangeValue(Insert(plist, plist.val[i], i), i, p),
               node |-> i]
      BY <2>2, <2>4, Zenon
    <3>2. QED
      BY <1>3, <2>1, <2>4, <3>1, PayoutBefore
  <2>5. QED
    BY <2>3, <2>4
<1>4. QED
  BY <1>1, <1>2, <1>3

\* The closures of internalC.  Those of the router bring a payout the index
\* does not have, and none twice.
Closures == [op : {"payout", "period"}, arg : Payouts]
            \cup [op : {"announce", "vote"}, arg : Votes]
            \cup [op : Questions, arg : {NoPayout}]

QueueOK(q, b) ==
    /\ q \in Seq(Closures) /\ Len(q) <= PQueueCap
    /\ \A i \in DOMAIN q : q[i].op = "payout" => b[q[i].arg] = Nil
    /\ \A i, j \in DOMAIN q : q[i].op = "payout" /\ q[i] = q[j] => i = j

LEMMA QueueAppend ==
  ASSUME NEW q, NEW b, QueueOK(q, b), NEW f \in Closures, Len(q) < PQueueCap,
         f.op = "payout" => b[f.arg] = Nil /\ ~Within(f, q),
         NEW t, t = Append(q, f)
  PROVE  QueueOK(t, b)
<1>1. /\ q \in Seq(Closures)
      /\ \A i \in DOMAIN q : q[i].op = "payout" => b[q[i].arg] = Nil
      /\ \A i, j \in DOMAIN q : q[i].op = "payout" /\ q[i] = q[j] => i = j
  BY DEF QueueOK
<1>2. PICK n : n = Len(q)
  OBVIOUS
<1>3. /\ t \in Seq(Closures) /\ n \in Nat /\ Len(t) = n + 1 /\ t[n + 1] = f
      /\ \A i \in 1 .. n : t[i] = q[i]
  BY <1>1, <1>2, AppendTyped
<1>4. DOMAIN q = 1 .. n /\ DOMAIN t = 1 .. n + 1
  BY <1>1, <1>2, <1>3, LenProperties
<1>5. n + 1 <= PQueueCap
  BY <1>2, <1>3, PipelineStateAssumption
<1>6. ASSUME NEW i \in 1 .. n + 1, t[i].op = "payout" PROVE b[t[i].arg] = Nil
  <2>1. CASE i = n + 1
    BY <1>3, <1>6, <2>1
  <2>2. CASE i \in 1 .. n
    BY <1>1, <1>3, <1>4, <1>6, <2>2
  <2>3. QED
    BY <1>3, <2>1, <2>2
<1>7. ASSUME NEW i \in 1 .. n + 1, NEW j \in 1 .. n + 1,
             t[i].op = "payout", t[i] = t[j]
      PROVE  i = j
  <2>1. CASE i \in 1 .. n /\ j \in 1 .. n
    BY <1>1, <1>3, <1>4, <1>7, <2>1
  <2>2. CASE i = n + 1 /\ j \in 1 .. n
    BY <1>3, <1>4, <1>7, <2>2 DEF Within
  <2>3. CASE j = n + 1 /\ i \in 1 .. n
    BY <1>3, <1>4, <1>7, <2>3 DEF Within
  <2>4. QED
    BY <1>3, <2>1, <2>2, <2>3
<1>8. QED
  BY <1>3, <1>4, <1>5, <1>6, <1>7 DEF QueueOK

LEMMA QueueTail ==
  ASSUME NEW q, NEW b, QueueOK(q, b), q # <<>>, NEW f, f = Head(q),
         NEW t, t = Tail(q)
  PROVE  /\ f \in Closures /\ QueueOK(t, b)
         /\ f.op = "payout" => b[f.arg] = Nil /\ ~Within(f, t)
<1>1. /\ q \in Seq(Closures) /\ Len(q) <= PQueueCap
      /\ \A i \in DOMAIN q : q[i].op = "payout" => b[q[i].arg] = Nil
      /\ \A i, j \in DOMAIN q : q[i].op = "payout" /\ q[i] = q[j] => i = j
  BY DEF QueueOK
<1>2. PICK n : n = Len(q)
  OBVIOUS
<1>3. /\ f \in Closures /\ t \in Seq(Closures) /\ f = q[1] /\ n \in Nat \ {0}
      /\ Len(t) = n - 1 /\ \A i \in 1 .. n - 1 : t[i] = q[i + 1]
  BY <1>1, <1>2, TailTyped
<1>4. DOMAIN q = 1 .. n /\ DOMAIN t = 1 .. n - 1
  BY <1>1, <1>2, <1>3, LenProperties
<1>5. ASSUME NEW i \in 1 .. n - 1
      PROVE  i + 1 \in DOMAIN q /\ t[i] = q[i + 1] /\ 1 \in DOMAIN q
  BY <1>3, <1>4
<1>6. f.op = "payout" => b[f.arg] = Nil /\ ~Within(f, t)
  <2>1. SUFFICES ASSUME f.op = "payout" PROVE b[f.arg] = Nil /\ ~Within(f, t)
    OBVIOUS
  <2>2. 1 \in DOMAIN q
    BY <1>3, <1>4
  <2>3. ASSUME NEW i \in 1 .. n - 1, t[i] = f PROVE FALSE
    <3>1. i + 1 \in DOMAIN q /\ q[i + 1] = q[1] /\ q[1].op = "payout"
      BY <1>3, <1>5, <2>1, <2>3
    <3>2. i + 1 = 1
      BY <1>1, <2>2, <3>1
    <3>3. QED
      BY <1>3, <3>2
  <2>4. QED
    BY <1>1, <1>3, <1>4, <2>1, <2>2, <2>3 DEF Within
<1>7. Len(t) <= PQueueCap
  BY <1>1, <1>2, <1>3, PipelineStateAssumption
<1>8. ASSUME NEW i \in 1 .. n - 1, t[i].op = "payout" PROVE b[t[i].arg] = Nil
  BY <1>1, <1>5, <1>8
<1>9. ASSUME NEW i \in 1 .. n - 1, NEW j \in 1 .. n - 1,
             t[i].op = "payout", t[i] = t[j]
      PROVE  i = j
  <2>1. i + 1 \in DOMAIN q /\ j + 1 \in DOMAIN q /\ q[i + 1] = q[j + 1]
        /\ q[i + 1].op = "payout"
    BY <1>5, <1>9
  <2>2. i + 1 = j + 1
    BY <1>1, <2>1
  <2>3. QED
    BY <1>3, <2>2
<1>10. QED
  BY <1>3, <1>4, <1>6, <1>7, <1>8, <1>9 DEF QueueOK

\* The inductive invariant: the types; the queue; and the list, which is
\* linked and in order until a payout leaves after one was inserted before
\* another, and whose links stay inside the heap even then.
PCtl ==
    /\ pctx \in {"open", "closed"} /\ ploop \in {"run", "answer", "dead"}
    /\ pRing \in Payouts \cup {NoPayout} /\ finishC \in Seq(Payouts)
    /\ upd \in [Payouts -> {"none", "run", "err", "done"}]
    /\ del \in [Payouts -> {"none", "ask", "wait", "lost", "closed", "err", "done"}]
    /\ votes \subseteq Votes
    /\ vg \in [Votes -> {"none", "ask", "asked", "run", "err", "done"}]
    /\ caller \in Questions \cup {"idle"}

PList ==
    /\ HeapOK(plist, Payouts)
    /\ payoutById \in [Payouts -> 0 .. Len(plist.val)]
    /\ swapped \in {"no", "yes", "left"}
    /\ swapped # "left" => Orderly(plist)
    /\ IndexExact

PInv == /\ PCtl /\ PList /\ active \in 0 .. Len(plist.val)
        /\ QueueOK(internalC, payoutById)

\* The empty list.
LEMMA EmptyOrderly ==
  HeapOK(EmptyList, Payouts) /\ Len(EmptyList.val) = 0 /\ Orderly(EmptyList)
  /\ Nodes(EmptyList) = <<>>
<1>1. PICK l, s : l = EmptyList /\ s = <<>>
  OBVIOUS
<1>2. /\ l.size = 0 /\ l.head = Nil /\ l.tail = Nil
      /\ l.next = <<>> /\ l.prev = <<>> /\ l.val = <<>>
  BY <1>1 DEF EmptyList
<1>3. Len(l.val) = 0 /\ Len(s) = 0 /\ s \in [1 .. 0 -> 1 .. 0]
  BY <1>1, <1>2
<1>4. HeapOK(l, Payouts)
  BY <1>1, <1>2, <1>3 DEF HeapOK, Heap, EmptyList, Nil
<1>5. LinkedBy(s, l, 0, 0)
  BY <1>2, <1>3 DEF LinkedBy, Nil
<1>6. Linked(s, l)
  BY <1>3, <1>5 DEF Linked
<1>7. Nodes(l) = s
  BY <1>4, <1>6, LinkedNodes
<1>8. InOrder(Array(l))
  <2>1. PICK A, c : A = Array(l) /\ c = Len(s)
    OBVIOUS
  <2>2. DOMAIN A = 1 .. c
    BY <1>4, <1>6, <2>1, ArrayIs
  <2>3. QED
    BY <1>3, <2>1, <2>2 DEF InOrder
<1>9. QED
  BY <1>1, <1>3, <1>4, <1>6, <1>7, <1>8 DEF Orderly

LEMMA InitPInv == PpInit => PInv
<1> SUFFICES ASSUME PpInit PROVE PInv
  OBVIOUS
<1>1. /\ plist = EmptyList /\ payoutById = [p \in Payouts |-> Nil] /\ swapped = "no"
      /\ active = Nil /\ internalC = <<>>
  BY DEF PpInit
<1>2. PCtl
  BY DEF PpInit, PCtl
<1>3. Nil \in 0 .. 0
  BY DEF Nil
<1>4. HeapOK(plist, Payouts) /\ Len(plist.val) = 0 /\ Orderly(plist)
      /\ Nodes(plist) = <<>>
  BY <1>1, EmptyOrderly
<1>5. IndexExact
  BY <1>1, <1>4 DEF IndexExact
<1>6. PList
  BY <1>1, <1>3, <1>4, <1>5 DEF PList
<1>7. QueueOK(internalC, payoutById)
  BY <1>1, PipelineStateAssumption DEF QueueOK
<1>8. QED
  BY <1>1, <1>2, <1>3, <1>4, <1>6, <1>7 DEF PInv

\* The types.
LEMMA StepPCtl == PInv /\ PpNext => PCtl'
<1> SUFFICES ASSUME PInv, PpNext PROVE PCtl'
  OBVIOUS
<1>1. PCtl
  BY DEF PInv
<1>2. ASSUME NEW p \in Payouts,
             \/ UpdatePayout(p) \/ PayoutCloses(p) \/ UpdatePeriod(p)
             \/ UpdEnds(p) \/ CloseSignal(p) \/ SendError(p)
      PROVE  PCtl'
  BY <1>1, <1>2 DEF PCtl, UpdatePayout, PayoutCloses, UpdatePeriod, UpdEnds,
                    CloseSignal, SendError
<1>3. ASSUME NEW p \in Payouts, SendFinish(p) PROVE PCtl'
  <2>1. <<p>> \in Seq(Payouts)
    OBVIOUS
  <2>2. finishC' \in Seq(Payouts)
    BY <1>1, <1>3, <2>1 DEF PCtl, SendFinish
  <2>3. QED
    BY <1>1, <1>3, <2>2 DEF PCtl, SendFinish
<1>4. ASSUME NEW v \in Votes, UpdateValidatorByVote(v) \/ VoteStep(v) \/ VoteLost(v) PROVE PCtl'
  BY <1>1, <1>4 DEF PCtl, UpdateValidatorByVote, VoteStep, VoteLost
<1>5. ASSUME NEW op \in Questions, Ask(op) PROVE PCtl'
  BY <1>1, <1>5 DEF PCtl, Ask
<1>6. CASE AskCanceled \/ PpClose \/ PpFinish
  BY <1>1, <1>6 DEF PCtl, AskCanceled, PpClose, PpFinish
<1>7. CASE OnFinish
  BY <1>1, <1>7 DEF PCtl, OnFinish
<1>8. CASE RunClosure
  <2>1. PICK f : f = Head(internalC)
    OBVIOUS
  <2>2. internalC # <<>> /\ UNCHANGED <<pctx, popen, finishC, pErrorC>>
    BY <1>8 DEF RunClosure
  <2>3. f \in Closures
    BY <2>1, <2>2, QueueTail DEF PInv
  <2>4. CASE f.op = "payout" /\ PpOnPayout(f.arg)
             /\ UNCHANGED <<ploop, pRing, votes, vg, caller>>
    <3>1. (UNCHANGED <<upd, del>>)
          \/ (upd' = [upd EXCEPT ![f.arg] = "run"] /\ del' = [del EXCEPT ![f.arg] = "ask"])
      BY <2>4 DEF PpOnPayout
    <3>2. QED
      BY <1>1, <2>2, <2>4, <3>1 DEF PCtl
  <2>5. CASE f.op = "period" /\ PpOnPeriod(f.arg)
             /\ UNCHANGED <<ploop, plist, payoutById, told, upd, del, swapped, votes,
                            vg, caller>>
    <3>1. f.arg \in Payouts
      BY <2>3, <2>5 DEF Closures, Questions
    <3>2. QED
      BY <1>1, <2>2, <2>5, <3>1 DEF PCtl, PpOnPeriod
  <2>6. CASE f.op = "announce" /\ UNCHANGED <<ploop, pRing, upd, del, votes, vg, caller>>
    BY <1>1, <2>2, <2>6 DEF PCtl
  <2>7. CASE /\ f.op = "vote" /\ votes' = votes \cup {f.arg}
             /\ vg' = [vg EXCEPT ![f.arg] = IF f.arg \in votes THEN "done" ELSE "run"]
             /\ UNCHANGED <<ploop, pRing, upd, del, caller>>
    <3>1. f.arg \in Votes
      BY <2>3, <2>7 DEF Closures, Questions
    <3>2. QED
      BY <1>1, <2>2, <2>7, <3>1 DEF PCtl
  <2>8. CASE /\ caller' = IF caller = f.op THEN "idle" ELSE caller
             /\ ploop' = ploop \/ ploop' = IF caller = f.op THEN "run" ELSE "answer"
             /\ UNCHANGED <<pRing, upd, del, votes, vg>>
    BY <1>1, <2>2, <2>8 DEF PCtl
  <2>9. QED
    BY <1>8, <2>1, <2>4, <2>5, <2>6, <2>7, <2>8 DEF RunClosure
<1>9. QED
  BY <1>2, <1>3, <1>4, <1>5, <1>6, <1>7, <1>8 DEF PpNext

\* The nodes of an index.
Indexed(b) == {b[q] : q \in Payouts} \ {Nil}
IndexGrows(d, b, k) == Indexed(d) = Indexed(b) \cup {k}
IndexShrinks(d, b, i) == Indexed(d) = Indexed(b) \ {i}

LEMMA IndexAdd ==
  ASSUME NEW N, NEW b \in [Payouts -> N], NEW p \in Payouts, b[p] = Nil,
         NEW k \in N, k # Nil, NEW d, d = [b EXCEPT ![p] = k]
  PROVE  IndexGrows(d, b, k)
<1>1. \A q \in Payouts : d[q] = IF q = p THEN k ELSE b[q]
  OBVIOUS
<1>2. ASSUME NEW x, x \in Indexed(d) PROVE x \in Indexed(b) \cup {k}
  BY <1>1, <1>2 DEF Indexed
<1>3. ASSUME NEW x, x \in Indexed(b) \cup {k} PROVE x \in Indexed(d)
  <2>1. CASE x = k
    BY <1>1, <2>1 DEF Indexed
  <2>2. CASE x \in Indexed(b)
    <3>1. PICK q \in Payouts : x = b[q] /\ x # Nil
      BY <2>2 DEF Indexed
    <3>2. q # p /\ d[q] = x
      BY <1>1, <3>1
    <3>3. QED
      BY <3>1, <3>2 DEF Indexed
  <2>3. QED
    BY <1>3, <2>1, <2>2
<1>4. QED
  BY <1>2, <1>3 DEF IndexGrows

LEMMA IndexDrop ==
  ASSUME NEW N, NEW b \in [Payouts -> N], NEW p \in Payouts, NEW i, i = b[p],
         i # Nil, \A q \in Payouts : b[q] = i => q = p,
         NEW d, d = [b EXCEPT ![p] = Nil]
  PROVE  IndexShrinks(d, b, i)
<1>1. \A q \in Payouts : d[q] = IF q = p THEN Nil ELSE b[q]
  OBVIOUS
<1>2. ASSUME NEW x, x \in Indexed(d) PROVE x \in Indexed(b) \ {i}
  <2>1. PICK q \in Payouts : x = d[q] /\ x # Nil
    BY <1>2 DEF Indexed
  <2>2. q # p /\ x = b[q] /\ x # i
    BY <1>1, <2>1
  <2>3. QED
    BY <2>1, <2>2 DEF Indexed
<1>3. ASSUME NEW x, x \in Indexed(b) \ {i} PROVE x \in Indexed(d)
  <2>1. PICK q \in Payouts : x = b[q] /\ x # Nil /\ x # i
    BY <1>3 DEF Indexed
  <2>2. q # p /\ x = d[q]
    BY <1>1, <2>1
  <2>3. QED
    BY <2>1, <2>2 DEF Indexed
<1>4. QED
  BY <1>2, <1>3 DEF IndexShrinks

\* The index agrees with the list.
Exact(l, b) == /\ Members(Nodes(l)) = Indexed(b)
               /\ \A p \in Payouts : b[p] # Nil => l.val[b[p]] = p

LEMMA ExactIs == IndexExact <=> (swapped = "no" => Exact(plist, payoutById))
BY DEF IndexExact, Exact, Members, Indexed

LEMMA ExactIsNext ==
  IndexExact' <=> (swapped' = "no" => Exact(plist', payoutById'))
BY DEF IndexExact, Exact, Members, Indexed

LEMMA PListNext ==
  ASSUME HeapOK(plist', Payouts), payoutById' \in [Payouts -> 0 .. Len(plist'.val)],
         swapped' \in {"no", "yes", "left"},
         swapped' # "left" => Orderly(plist'),
         swapped' = "no" => Exact(plist', payoutById')
  PROVE  PList'
<1>1. IndexExact'
  BY ExactIsNext
<1>2. QED
  BY <1>1 DEF PList

LEMMA PListSame == PList /\ UNCHANGED <<plist, payoutById, swapped>> => PList'
<1> SUFFICES ASSUME PList, plist' = plist, payoutById' = payoutById, swapped' = swapped
             PROVE  PList'
  OBVIOUS
<1>1. swapped = "no" => Exact(plist, payoutById)
  BY ExactIs DEF PList
<1>2. /\ HeapOK(plist, Payouts) /\ payoutById \in [Payouts -> 0 .. Len(plist.val)]
      /\ swapped \in {"no", "yes", "left"} /\ (swapped # "left" => Orderly(plist))
  BY DEF PList
<1>3. /\ HeapOK(plist', Payouts) /\ payoutById' \in [Payouts -> 0 .. Len(plist'.val)]
      /\ swapped' \in {"no", "yes", "left"} /\ (swapped' # "left" => Orderly(plist'))
      /\ (swapped' = "no" => Exact(plist', payoutById'))
  BY <1>1, <1>2
<1>4. QED
  BY <1>3, PListNext

\* A payout arrives.
LEMMA PayoutArrives ==
  ASSUME PList, NEW p \in Payouts, payoutById[p] = Nil, PpOnPayout(p),
         pRing \in Payouts \cup {NoPayout}, active \in 0 .. Len(plist.val)
  PROVE  /\ PList' /\ active' \in 0 .. Len(plist'.val)
         /\ \A q \in Payouts : q # p => payoutById'[q] = payoutById[q]
<1>1. PICK r, n, N, m, b, i : /\ r = on_payout_insert(p) /\ n = Len(plist.val)
                              /\ N = Len(r.list.val) /\ m = r.list /\ i = r.node
                              /\ b = payoutById
  OBVIOUS
<1>2. /\ HeapOK(plist, Payouts) /\ b \in [Payouts -> 0 .. n]
      /\ swapped \in {"no", "yes", "left"} /\ (swapped # "left" => Orderly(plist))
      /\ (swapped = "no" => Exact(plist, b))
  BY <1>1, ExactIs DEF PList
<1>3. PayoutPut(r, n, p) /\ n \in Nat /\ DOMAIN plist.val = 1 .. n
  BY <1>1, <1>2, PayoutInserted, HeapTyped
<1>4. /\ HeapOK(m, Payouts) /\ N \in {n, n + 1} /\ i \in 0 .. N
      /\ (i = Nil => m = plist) /\ (Orderly(plist) => Orderly(m))
  BY <1>1, <1>3 DEF PayoutPut
<1>5. 0 .. n \subseteq 0 .. N
  BY <1>3, <1>4
<1>6. /\ plist' = m
      /\ IF i = Nil
         THEN UNCHANGED <<payoutById, told, upd, del, active, swapped>>
         ELSE /\ payoutById' = [b EXCEPT ![p] = i]
              /\ active' = IF pRing = NoPayout THEN active ELSE payoutById'[pRing]
              /\ swapped' = IF swapped = "no" /\ i \in Allocated(plist)
                            THEN "yes" ELSE swapped
  BY <1>1, Zenon DEF PpOnPayout
<1>7. CASE i = Nil
  <2>1. UNCHANGED <<plist, payoutById, swapped, active>>
    BY <1>4, <1>6, <1>7
  <2>2. QED
    BY <2>1, PListSame
<1>8. CASE i # Nil
  <2>1. PICK d : d = [b EXCEPT ![p] = i]
    OBVIOUS
  <2>2. b \in [Payouts -> 0 .. N] /\ N = Len(m.val)
    BY <1>1, <1>2, <1>5
  <2>3. /\ d \in [Payouts -> 0 .. N] /\ d[p] = i
        /\ \A q \in Payouts : q # p => d[q] = b[q]
    BY <1>4, <2>1, <2>2
  <2>4. payoutById' = d /\ plist' = m
    BY <1>6, <1>8, <2>1
  <2>5. active' \in 0 .. N
    BY <1>1, <1>5, <1>6, <1>8, <2>3, <2>4
  <2>6. ASSUME swapped' = "no" PROVE Exact(m, d)
    <3>1. swapped = "no" /\ i \notin Allocated(plist)
      BY <1>6, <1>8, <2>6
    <3>2. PICK k : k = n + 1
      OBVIOUS
    <3>3. /\ i = k /\ Members(Nodes(m)) = Members(Nodes(plist)) \cup {k}
          /\ m.val[k] = p /\ \A j \in 1 .. n : m.val[j] = plist.val[j]
      BY <1>1, <1>2, <1>3, <1>8, <3>1, <3>2 DEF PayoutPut
    <3>4. Exact(plist, b)
      BY <1>2, <3>1
    <3>5. Indexed(d) = Indexed(b) \cup {i}
      <4>1. i \in 0 .. N /\ b[p] = Nil
        BY <1>1, <1>4
      <4>2. PICK M : M = 0 .. N
        OBVIOUS
      <4>3. b \in [Payouts -> M] /\ i \in M
        BY <2>2, <4>1, <4>2
      <4>4. IndexGrows(d, b, i)
        BY <1>8, <2>1, <4>1, <4>3, IndexAdd
      <4>5. QED
        BY <4>4 DEF IndexGrows
    <3>6. ASSUME NEW q \in Payouts, d[q] # Nil PROVE m.val[d[q]] = q
      <4>1. CASE q = p
        BY <2>3, <3>3, <4>1
      <4>2. CASE q # p
        <5>1. d[q] = b[q] /\ plist.val[b[q]] = q /\ b[q] \in 0 .. n /\ b[q] # Nil
          BY <1>2, <2>3, <3>4, <3>6, <4>2 DEF Exact
        <5>2. b[q] \in 1 .. n
          BY <1>3, <5>1 DEF Nil
        <5>3. QED
          BY <3>3, <5>1, <5>2
      <4>3. QED
        BY <4>1, <4>2
    <3>7. QED
      BY <3>3, <3>4, <3>5, <3>6 DEF Exact
  <2>7. swapped' \in {"no", "yes", "left"} /\ (swapped' # "left" => swapped # "left")
    BY <1>2, <1>6, <1>8
  <2>8. PList'
    <3>1. /\ HeapOK(plist', Payouts) /\ payoutById' \in [Payouts -> 0 .. Len(plist'.val)]
          /\ (swapped' # "left" => Orderly(plist'))
          /\ (swapped' = "no" => Exact(plist', payoutById'))
      BY <1>2, <1>4, <2>2, <2>3, <2>4, <2>6, <2>7
    <3>2. QED
      BY <2>7, <3>1, PListNext
  <2>9. QED
    BY <1>1, <2>2, <2>3, <2>4, <2>5, <2>8
<1>9. QED
  BY <1>7, <1>8

\* A payout leaves.
LEMMA MembersShrink ==
  ASSUME NEW n \in Nat, NEW s \in Seq(1 .. n), NoneTwice(s), NEW a \in 1 .. Len(s),
         NEW t, t = RemoveAt(s, a)
  PROVE  Members(t) = Members(s) \ {s[a]}
<1>1. PICK k : k = n + 1
  OBVIOUS
<1>2. \A g \in 1 .. Len(s) : Members(RemoveAt(s, g)) = Members(s) \ {s[g]}
  BY <1>1, MembersChange
<1>3. QED
  BY <1>2

LEMMA PayoutLeaves ==
  ASSUME PList, OnFinish, finishC \in Seq(Payouts)
  PROVE  /\ PList' /\ Len(plist'.val) = Len(plist.val)
         /\ \A q \in Payouts : payoutById'[q] \in {payoutById[q], Nil}
<1>1. PICK p, l, n, b, i, m : /\ p = Head(finishC) /\ l = plist /\ n = Len(plist.val)
                              /\ b = payoutById /\ i = b[p] /\ m = RemoveNode(l, i)
  OBVIOUS
<1>2. p \in Payouts
  <2>1. finishC # <<>>
    BY DEF OnFinish
  <2>2. QED
    BY <1>1, <2>1, TailTyped
<1>3. /\ HeapOK(l, Payouts) /\ b \in [Payouts -> 0 .. n]
      /\ swapped \in {"no", "yes", "left"} /\ (swapped # "left" => Orderly(l))
      /\ (swapped = "no" => Exact(l, b))
  BY <1>1, ExactIs DEF PList
<1>4. IF i = Nil THEN UNCHANGED <<plist, payoutById, swapped>>
      ELSE /\ plist' = m /\ payoutById' = [b EXCEPT ![p] = Nil]
           /\ swapped' = IF swapped = "no" THEN "no" ELSE "left"
  BY <1>1, Zenon DEF OnFinish
<1>5. CASE i = Nil
  <2>1. UNCHANGED <<plist, payoutById, swapped>>
    BY <1>4, <1>5
  <2>2. QED
    BY <2>1, PListSame
<1>6. CASE i # Nil
  <2>1. PICK d, x, y : d = [b EXCEPT ![p] = Nil] /\ x = l.prev[i] /\ y = l.next[i]
    OBVIOUS
  <2>2. plist' = m /\ payoutById' = d
        /\ swapped' = IF swapped = "no" THEN "no" ELSE "left"
    BY <1>4, <1>6, <2>1
  <2>3. n \in Nat /\ i \in 1 .. n /\ n = Len(l.val)
    <3>1. n \in Nat /\ i \in 0 .. n /\ n = Len(l.val)
      BY <1>1, <1>2, <1>3, HeapTyped
    <3>2. QED
      BY <1>6, <3>1 DEF Nil
  <2>4. Removed(m, l, Payouts, n, x, y)
    BY <1>1, <1>3, <2>1, <2>3, RemoveFields
  <2>5. HeapOK(m, Payouts) /\ Len(m.val) = n /\ m.val = l.val
    BY <2>4 DEF Removed
  <2>6. /\ d \in [Payouts -> 0 .. n]
        /\ \A q \in Payouts : d[q] = IF q = p THEN Nil ELSE b[q]
    BY <1>2, <1>3, <2>1, <2>3 DEF Nil
  <2>7. ASSUME swapped = "no" PROVE Orderly(m) /\ Exact(m, d)
    <3>1. PICK s, c, A, B : s = Nodes(l) /\ c = Len(s) /\ A = Array(l) /\ B = Array(m)
      OBVIOUS
    <3>2. Linked(s, l) /\ InOrder(A) /\ Exact(l, b)
      BY <1>3, <2>7, <3>1 DEF Orderly
    <3>3. LinkedBy(s, l, n, c) /\ s \in Seq(1 .. n) /\ DOMAIN s = 1 .. c
      BY <2>3, <3>1, <3>2, LinkedIs
    <3>4. Members(s) = Indexed(b) /\ \A q \in Payouts : b[q] # Nil => l.val[b[q]] = q
      BY <3>1, <3>2 DEF Exact
    <3>5. i \in Members(s)
      BY <1>1, <1>2, <1>6, <3>4 DEF Indexed
    <3>6. PICK a \in 1 .. c : i = s[a]
      BY <3>3, <3>5 DEF Members
    <3>7. PICK t : t = RemoveAt(s, a)
      OBVIOUS
    <3>8. a \in 1 .. Len(s) /\ m = RemoveNode(l, s[a])
      BY <1>1, <3>1, <3>6
    <3>9. Linked(t, m) /\ B = RemoveAt(A, a)
      <4>1. Linked(RemoveAt(s, a), m) /\ Array(m) = RemoveAt(Array(l), a)
        BY <1>3, <3>2, <3>8, ArrayRemove
      <4>2. QED
        BY <3>1, <3>7, <4>1
    <3>10. Nodes(m) = t
      BY <2>5, <3>9, LinkedNodes
    <3>11. InOrder(B)
      <4>1. A \in Seq(Payouts) /\ Len(A) = c
        BY <1>3, <3>1, <3>2, ArrayIs
      <4>2. a \in 1 .. Len(A)
        BY <4>1
      <4>3. QED
        BY <3>2, <3>9, <4>1, <4>2, InOrderRemove
    <3>12. Members(t) = Members(s) \ {i}
      <4>1. NoneTwice(s)
        BY <3>3 DEF LinkedBy, NoneTwice
      <4>2. Members(t) = Members(s) \ {s[a]}
        BY <2>3, <3>3, <3>7, <3>8, <4>1, MembersShrink
      <4>3. QED
        BY <3>6, <4>2
    <3>13. IndexShrinks(d, b, i)
      <4>1. PICK M : M = 0 .. n
        OBVIOUS
      <4>2. b \in [Payouts -> M]
        BY <1>3, <4>1
      <4>3. ASSUME NEW q \in Payouts, b[q] = i PROVE q = p
        BY <1>1, <1>2, <1>6, <3>4, <4>3
      <4>4. QED
        BY <1>1, <1>2, <1>6, <2>1, <4>2, <4>3, IndexDrop
    <3>14. Members(Nodes(m)) = Indexed(d)
      BY <3>4, <3>10, <3>12, <3>13 DEF IndexShrinks
    <3>15. ASSUME NEW q \in Payouts, d[q] # Nil PROVE m.val[d[q]] = q
      BY <2>5, <2>6, <3>4, <3>15
    <3>16. QED
      BY <3>1, <3>9, <3>10, <3>11, <3>14, <3>15 DEF Orderly, Exact
  <2>8. PList'
    <3>1. swapped' \in {"no", "left"} /\ (swapped' = "no" => swapped = "no")
      BY <2>2
    <3>2. /\ HeapOK(plist', Payouts) /\ payoutById' \in [Payouts -> 0 .. Len(plist'.val)]
          /\ (swapped' # "left" => Orderly(plist'))
          /\ (swapped' = "no" => Exact(plist', payoutById'))
      BY <2>2, <2>5, <2>6, <2>7, <3>1
    <3>3. QED
      BY <3>1, <3>2, PListNext
  <2>9. QED
    BY <1>1, <2>2, <2>3, <2>5, <2>6, <2>8
<1>7. QED
  BY <1>5, <1>6

LEMMA StepPInv == PInv /\ [PpNext]_pipelineVars => PInv'
<1> SUFFICES ASSUME PInv, [PpNext]_pipelineVars PROVE PInv'
  OBVIOUS
<1>1. /\ PCtl /\ PList /\ active \in 0 .. Len(plist.val)
      /\ QueueOK(internalC, payoutById)
  BY DEF PInv
<1>2. PCtl'
  <2>1. CASE PpNext
    BY <2>1, StepPCtl
  <2>2. CASE UNCHANGED pipelineVars
    BY <1>1, <2>2 DEF PCtl, pipelineVars
  <2>3. QED
    BY <2>1, <2>2
<1>3. ASSUME UNCHANGED <<plist, payoutById, swapped, active>>,
             QueueOK(internalC', payoutById)
      PROVE  PInv'
  <2>1. PList'
    BY <1>1, <1>3, PListSame
  <2>2. QED
    BY <1>1, <1>2, <1>3, <2>1 DEF PInv
<1>4. ASSUME UNCHANGED <<plist, payoutById, swapped, active>>,
             NEW op, NEW arg, Enqueue(op, arg), [op |-> op, arg |-> arg] \in Closures,
             op = "payout" => payoutById[arg] = Nil /\ ~Queued("payout", arg)
      PROVE  PInv'
  <2>1. PICK f : f = [op |-> op, arg |-> arg]
    OBVIOUS
  <2>2. f \in Closures /\ f.op = op /\ f.arg = arg
    BY <1>4, <2>1
  <2>3. Len(internalC) < PQueueCap /\ internalC' = Append(internalC, f)
    BY <1>4, <2>1 DEF Enqueue
  <2>4. f.op = "payout" => payoutById[f.arg] = Nil /\ ~Within(f, internalC)
    BY <1>4, <2>1, <2>2 DEF Queued, Within
  <2>5. QueueOK(internalC', payoutById)
    BY <1>1, <2>2, <2>3, <2>4, QueueAppend
  <2>6. QED
    BY <1>3, <1>4, <2>5
<1>5. CASE UNCHANGED <<internalC, plist, payoutById, swapped, active>>
  BY <1>1, <1>3, <1>5
<1>6. ASSUME NEW p \in Payouts, UpdatePayout(p) PROVE PInv'
  <2>1. [op |-> "payout", arg |-> p] \in Closures
    BY DEF Closures
  <2>2. /\ UNCHANGED <<plist, payoutById, swapped, active>> /\ Enqueue("payout", p)
        /\ payoutById[p] = Nil /\ ~Queued("payout", p)
    BY <1>6 DEF UpdatePayout
  <2>3. QED
    BY <1>4, <2>1, <2>2
<1>7. ASSUME NEW p \in Payouts, UpdatePeriod(p) PROVE PInv'
  <2>1. [op |-> "period", arg |-> p] \in Closures
    BY DEF Closures
  <2>2. UNCHANGED <<plist, payoutById, swapped, active>> /\ Enqueue("period", p)
    BY <1>7 DEF UpdatePeriod
  <2>3. QED
    BY <1>4, <2>1, <2>2
<1>8. ASSUME NEW v \in Votes, UpdateValidatorByVote(v) PROVE PInv'
  <2>1. [op |-> "announce", arg |-> v] \in Closures
    BY DEF Closures
  <2>2. UNCHANGED <<plist, payoutById, swapped, active>> /\ Enqueue("announce", v)
    BY <1>8 DEF UpdateValidatorByVote
  <2>3. QED
    BY <1>4, <2>1, <2>2
<1>9. ASSUME NEW v \in Votes, VoteStep(v) PROVE PInv'
  <2>1. [op |-> "vote", arg |-> v] \in Closures
    BY DEF Closures
  <2>2. /\ UNCHANGED <<plist, payoutById, swapped, active>>
        /\ Enqueue("vote", v) \/ UNCHANGED internalC
    BY <1>9 DEF VoteStep
  <2>3. CASE Enqueue("vote", v)
    BY <1>4, <2>1, <2>2, <2>3
  <2>4. CASE UNCHANGED internalC
    BY <1>5, <2>2, <2>4
  <2>5. QED
    BY <2>2, <2>3, <2>4
<1>10. ASSUME NEW op \in Questions, Ask(op) PROVE PInv'
  <2>1. [op |-> op, arg |-> NoPayout] \in Closures /\ op # "payout"
    BY DEF Closures, Questions
  <2>2. UNCHANGED <<plist, payoutById, swapped, active>> /\ Enqueue(op, NoPayout)
    BY <1>10 DEF Ask
  <2>3. QED
    BY <1>4, <2>1, <2>2
<1>11. CASE OnFinish
  <2>1. finishC \in Seq(Payouts)
    BY <1>1 DEF PCtl
  <2>2. /\ PList' /\ Len(plist'.val) = Len(plist.val)
        /\ \A q \in Payouts : payoutById'[q] \in {payoutById[q], Nil}
    BY <1>1, <1>11, <2>1, PayoutLeaves
  <2>3. active' = active /\ internalC' = internalC
    BY <1>11 DEF OnFinish
  <2>4. QueueOK(internalC, payoutById')
    <3>1. \A f \in Closures : f.op = "payout" => f.arg \in Payouts
      BY DEF Closures, Questions
    <3>2. /\ internalC \in Seq(Closures)
          /\ \A i \in DOMAIN internalC : internalC[i] \in Closures
      BY <1>1, ElementOfSeq, LenProperties DEF QueueOK
    <3>3. QED
      BY <1>1, <2>2, <3>1, <3>2 DEF QueueOK
  <2>5. QED
    BY <1>1, <1>2, <2>2, <2>3, <2>4 DEF PInv
<1>12. CASE RunClosure
  <2>1. PICK f, t : f = Head(internalC) /\ t = Tail(internalC)
    OBVIOUS
  <2>2. internalC # <<>> /\ internalC' = t
    BY <1>12, <2>1 DEF RunClosure
  <2>3. /\ f \in Closures /\ QueueOK(t, payoutById)
        /\ f.op = "payout" => payoutById[f.arg] = Nil /\ ~Within(f, t)
    BY <1>1, <2>1, <2>2, QueueTail
  <2>4. CASE f.op = "payout" /\ PpOnPayout(f.arg)
    <3>1. PICK p : p = f.arg
      OBVIOUS
    <3>2. p \in Payouts /\ payoutById[p] = Nil /\ PpOnPayout(p)
      BY <2>3, <2>4, <3>1 DEF Closures, Questions
    <3>3. pRing \in Payouts \cup {NoPayout}
      BY <1>1 DEF PCtl
    <3>4. /\ PList' /\ active' \in 0 .. Len(plist'.val)
          /\ \A q \in Payouts : q # p => payoutById'[q] = payoutById[q]
      BY <1>1, <3>2, <3>3, PayoutArrives
    <3>5. QueueOK(t, payoutById')
      <4>1. \A g \in Closures : g.op = "payout" =>
                g.arg \in Payouts /\ (g.arg = p => g = f)
        BY <2>3, <2>4, <3>1 DEF Closures, Questions
      <4>2. /\ t \in Seq(Closures) /\ \A i \in DOMAIN t : t[i] \in Closures
            /\ \A i \in DOMAIN t : t[i].op = "payout" => payoutById[t[i].arg] = Nil
        BY <2>3, ElementOfSeq, LenProperties DEF QueueOK
      <4>3. ASSUME NEW i \in DOMAIN t, t[i].op = "payout"
            PROVE  payoutById'[t[i].arg] = Nil
        <5>1. t[i] # f
          BY <2>3, <2>4, <4>3 DEF Within
        <5>2. t[i].arg \in Payouts /\ t[i].arg # p
          BY <4>1, <4>2, <4>3, <5>1
        <5>3. QED
          BY <3>4, <4>2, <4>3, <5>2
      <4>4. QED
        BY <2>3, <4>3 DEF QueueOK
    <3>6. QED
      BY <1>2, <2>2, <3>4, <3>5 DEF PInv
  <2>5. CASE f.op = "period" /\ PpOnPeriod(f.arg)
             /\ UNCHANGED <<plist, payoutById, swapped>>
    <3>1. f.arg \in Payouts
      BY <2>3, <2>5 DEF Closures, Questions
    <3>2. payoutById \in [Payouts -> 0 .. Len(plist.val)]
      BY <1>1 DEF PList
    <3>3. Nil \in 0 .. Len(plist.val)
      <4>1. Len(plist.val) \in Nat
        BY <1>1, HeapTyped DEF PList
      <4>2. QED
        BY <4>1 DEF Nil
    <3>4. active' \in 0 .. Len(plist.val)
      BY <1>1, <2>5, <3>1, <3>2, <3>3 DEF PpOnPeriod, Find
    <3>5. PList'
      BY <1>1, <2>5, PListSame
    <3>6. QED
      BY <1>2, <2>2, <2>3, <2>5, <3>4, <3>5 DEF PInv
  <2>6. CASE UNCHANGED <<plist, payoutById, swapped, active>>
    BY <1>3, <2>2, <2>3, <2>6
  <2>7. QED
    BY <1>12, <2>1, <2>4, <2>5, <2>6 DEF RunClosure
<1>13. CASE \/ AskCanceled \/ PpClose \/ PpFinish
            \/ \E p \in Payouts : \/ PayoutCloses(p) \/ UpdEnds(p) \/ CloseSignal(p)
                                  \/ SendError(p) \/ SendFinish(p)
            \/ \E v \in Votes : VoteLost(v)
  BY <1>5, <1>13 DEF AskCanceled, PpClose, PpFinish, PayoutCloses, UpdEnds,
                     CloseSignal, SendError, SendFinish, VoteLost
<1>14. CASE UNCHANGED pipelineVars
  BY <1>5, <1>14 DEF pipelineVars
<1>15. QED
  BY <1>6, <1>7, <1>8, <1>9, <1>10, <1>11, <1>12, <1>13, <1>14 DEF PpNext

LEMMA PInvTells == PInv => PpTypeOK /\ PayoutsSorted /\ IndexExact
<1> SUFFICES ASSUME PInv PROVE PpTypeOK /\ PayoutsSorted /\ IndexExact
  OBVIOUS
<1>1. /\ PCtl /\ PList /\ active \in 0 .. Len(plist.val)
      /\ QueueOK(internalC, payoutById)
  BY DEF PInv
<1>2. PICK n : n = Len(plist.val)
  OBVIOUS
<1>3. n \in Nat /\ Allocated(plist) = 1 .. n
  BY <1>1, <1>2, HeapTyped DEF PList, Allocated
<1>4. Allocated(plist) \cup {Nil} = 0 .. n
  BY <1>3 DEF Nil
<1>5. PpTypeOK
  BY <1>1, <1>2, <1>4 DEF PpTypeOK, PCtl, PList, QueueOK
<1>6. PayoutsSorted
  BY <1>1 DEF PayoutsSorted, PList, Orderly, InOrder
<1>7. QED
  BY <1>1, <1>5, <1>6 DEF PList

\* The pipeline's list of payouts is in the order of their periods and none
\* is there twice, in whatever order the payouts arrive, until one leaves
\* after another was inserted before it; and as long as they arrive in order
\* the index has exactly the nodes of the list, each with its payout
\* (on_payout, on_payout_insert and the finishPayoutC case of loopInternal).
THEOREM PipelineListRight == PpSpec => [](PpTypeOK /\ PayoutsSorted /\ IndexExact)
<1>1. PInv => PpTypeOK /\ PayoutsSorted /\ IndexExact
  BY PInvTells
<1>2. QED
  BY InitPInv, StepPInv, <1>1, PTL DEF PpSpec

-----------------------------------------------------------------------------
(* Receipts and the validator that holds them.                             *)

\* A staker more adds its stake.
Units(m) == {m} \X (1 .. Stake[m])

LEMMA UnitsCount ==
  ASSUME NEW m \in Managers
  PROVE  IsFiniteSet(Units(m)) /\ Cardinality(Units(m)) = Stake[m]
<1>1. PICK a, k : a = 1 /\ k = Stake[m]
  OBVIOUS
<1>2. a \in Int /\ k \in Int /\ k \in Nat
  BY <1>1, ReceiptStateAssumption
<1>3. IsFiniteSet(a .. k) /\ Cardinality(a .. k) = IF a > k THEN 0 ELSE k - a + 1
  BY <1>2, FS_Interval
<1>4. PICK S, T, f : S = 1 .. k /\ T = Units(m) /\ f = [i \in 1 .. k |-> <<m, i>>]
  OBVIOUS
<1>5. IsFiniteSet(S) /\ Cardinality(S) = k
  BY <1>1, <1>2, <1>3, <1>4
<1>6. f \in Bijection(S, T)
  <2>1. T = {m} \X S
    BY <1>1, <1>4 DEF Units
  <2>2. f \in [S -> T] /\ \A i \in S : f[i] = <<m, i>>
    BY <1>4, <2>1
  <2>3. \A i, j \in S : f[i] = f[j] => i = j
    BY <2>2
  <2>4. \A t \in T : \E i \in S : f[i] = t
    BY <2>1, <2>2
  <2>5. QED
    BY <2>2, <2>3, <2>4 DEF Bijection, Injection, Surjection, IsInjective
<1>7. ExistsBijection(S, T)
  BY <1>6 DEF ExistsBijection
<1>8. IsFiniteSet(T) /\ Cardinality(T) = Cardinality(S)
  BY <1>5, <1>7, FS_Bijection
<1>9. QED
  BY <1>1, <1>4, <1>5, <1>8

\* The pairs of a finite set of managers are finitely many, as many as their
\* stake.
AllUnits(S) == UNION {{m} \X (1 .. Stake[m]) : m \in S}

Counted(S) == IsFiniteSet(AllUnits(S)) /\ StakeOf(S) = Cardinality(AllUnits(S))
              /\ StakeOf(S) \in Nat

LEMMA NoStake == Counted({}) /\ StakeOf({}) = 0
<1>1. AllUnits({}) = {}
  BY DEF AllUnits
<1>2. StakeOf({}) = Cardinality(AllUnits({}))
  BY DEF StakeOf, AllUnits
<1>3. QED
  BY <1>1, <1>2, FS_EmptySet DEF Counted

LEMMA MoreStake ==
  ASSUME NEW S \in SUBSET Managers, Counted(S), NEW m \in Managers, m \notin S,
         NEW R, R = S \cup {m}
  PROVE  Counted(R) /\ StakeOf(R) = StakeOf(S) + Stake[m]
<1>1. PICK A, B, C : A = AllUnits(S) /\ B = Units(m) /\ C = AllUnits(R)
  OBVIOUS
<1>2. C = A \cup B
  <2>1. ASSUME NEW x, x \in C PROVE x \in A \cup B
    BY <1>1, <2>1 DEF AllUnits, Units
  <2>2. ASSUME NEW x, x \in A PROVE x \in C
    BY <1>1, <2>2 DEF AllUnits
  <2>3. ASSUME NEW x, x \in B PROVE x \in C
    <3>1. x \in {m} \X (1 .. Stake[m]) /\ m \in R
      BY <1>1, <2>3 DEF Units
    <3>2. QED
      BY <1>1, <3>1 DEF AllUnits
  <2>4. QED
    BY <2>1, <2>2, <2>3
<1>3. A \cap B = {}
  <2>1. ASSUME NEW x, x \in A, x \in B PROVE FALSE
    <3>1. PICK g \in S : x \in {g} \X (1 .. Stake[g])
      BY <1>1, <2>1 DEF AllUnits
    <3>2. x[1] = g
      BY <3>1
    <3>3. x[1] = m
      BY <1>1, <2>1 DEF Units
    <3>4. QED
      BY <3>2, <3>3
  <2>2. QED
    BY <2>1
<1>4. IsFiniteSet(A) /\ StakeOf(S) = Cardinality(A) /\ StakeOf(S) \in Nat
  BY <1>1 DEF Counted
<1>5. IsFiniteSet(B) /\ Cardinality(B) = Stake[m] /\ Stake[m] \in Nat
  BY <1>1, UnitsCount, ReceiptStateAssumption
<1>6. /\ IsFiniteSet(A \cup B)
      /\ Cardinality(A \cup B) = Cardinality(A) + Cardinality(B) - Cardinality(A \cap B)
  BY <1>4, <1>5, FS_Union
<1>7. Cardinality(A \cap B) = 0
  BY <1>3, FS_EmptySet
<1>8. IsFiniteSet(C) /\ Cardinality(C) = StakeOf(S) + Stake[m]
  BY <1>2, <1>4, <1>5, <1>6, <1>7
<1>9. StakeOf(R) = Cardinality(C)
  BY <1>1 DEF StakeOf, AllUnits
<1>10. QED
  BY <1>1, <1>4, <1>5, <1>8, <1>9 DEF Counted

\* The receipts' invariant: an error of nil stands for a closed receipt, and
\* the registered stake is that of the stakers.
RcInv ==
    /\ rctx \in [Receipts -> {"open", "closed"}]
    /\ rloop \in [Receipts -> {"run", "dead"}]
    /\ rver \in [Receipts -> Nat \ {0}]
    /\ rdata \in [Receipts -> Nat \ {0}]
    /\ rdataC \in [Receipts -> Seq(Nat \ {0})]
    /\ rstaker \in [Receipts -> Seq(Managers)]
    /\ stakers \in [Receipts -> SUBSET Managers]
    /\ registered \in [Receipts -> Nat]
    /\ rsub \in [Receipts -> {"none", "asked", "open"}]
    /\ rstream \in [Receipts -> Seq(Nat \ {0})]
    /\ rerr \in [Receipts -> {<<>>, <<"nil">>, <<"full">>}]
    /\ \A r \in Receipts : Len(rstream[r]) <= RQueueCap
    /\ \A r \in Receipts : rerr[r] = <<"nil">> => rctx[r] = "closed"
    /\ \A r \in Receipts : Counted(stakers[r]) /\ registered[r] = StakeOf(stakers[r])

LEMMA InitRcInv == ReceiptInit => RcInv
<1> SUFFICES ASSUME ReceiptInit PROVE RcInv
  OBVIOUS
<1>1. <<>> # <<"nil">>
  OBVIOUS
<1>2. Counted({}) /\ StakeOf({}) = 0
  BY NoStake
<1>3. /\ rctx = [r \in Receipts |-> "open"] /\ rloop = [r \in Receipts |-> "run"]
      /\ rver = [r \in Receipts |-> 1] /\ rdata = [r \in Receipts |-> 1]
      /\ rdataC = [r \in Receipts |-> <<>>] /\ rstaker = [r \in Receipts |-> <<>>]
      /\ stakers = [r \in Receipts |-> {}] /\ registered = [r \in Receipts |-> 0]
      /\ rsub = [r \in Receipts |-> "none"] /\ rstream = [r \in Receipts |-> <<>>]
      /\ rerr = [r \in Receipts |-> <<>>]
  BY DEF ReceiptInit
<1>4. \A r \in Receipts : Len(rstream[r]) <= RQueueCap
  BY <1>3, ReceiptStateAssumption
<1>5. \A r \in Receipts : Counted(stakers[r]) /\ registered[r] = StakeOf(stakers[r])
  BY <1>2, <1>3
<1>6. /\ rver \in [Receipts -> Nat \ {0}] /\ rdata \in [Receipts -> Nat \ {0}]
      /\ registered \in [Receipts -> Nat]
  BY <1>3
<1>7. /\ rdataC \in [Receipts -> Seq(Nat \ {0})] /\ rstaker \in [Receipts -> Seq(Managers)]
      /\ rstream \in [Receipts -> Seq(Nat \ {0})]
  BY <1>3
<1>8. QED
  BY <1>1, <1>3, <1>4, <1>5, <1>6, <1>7 DEF RcInv

\* Queues of one receipt.
LEMMA QueuesGrow ==
  ASSUME NEW X, NEW q \in [Receipts -> Seq(X)], NEW r \in Receipts, NEW e \in X,
         NEW d, d = [q EXCEPT ![r] = Append(@, e)]
  PROVE  /\ d \in [Receipts -> Seq(X)]
         /\ \A s \in Receipts : Len(d[s]) = IF s = r THEN Len(q[s]) + 1 ELSE Len(q[s])
<1>1. PICK t : t = Append(q[r], e)
  OBVIOUS
<1>2. q[r] \in Seq(X) /\ t \in Seq(X) /\ Len(t) = Len(q[r]) + 1
  BY <1>1, AppendTyped
<1>3. d = [q EXCEPT ![r] = t]
  BY <1>1
<1>4. QED
  BY <1>2, <1>3

LEMMA QueuesShrink ==
  ASSUME NEW X, NEW q \in [Receipts -> Seq(X)], NEW r \in Receipts, q[r] # <<>>,
         NEW d, d = [q EXCEPT ![r] = Tail(@)]
  PROVE  /\ d \in [Receipts -> Seq(X)] /\ Head(q[r]) \in X
         /\ \A s \in Receipts : Len(d[s]) <= Len(q[s])
<1>1. PICK t : t = Tail(q[r])
  OBVIOUS
<1>2. /\ q[r] \in Seq(X) /\ t \in Seq(X) /\ Head(q[r]) \in X
      /\ Len(q[r]) \in Nat /\ Len(t) = Len(q[r]) - 1
  BY <1>1, TailTyped
<1>3. d = [q EXCEPT ![r] = t]
  BY <1>1
<1>4. \A s \in Receipts : Len(q[s]) \in Nat
  BY LenProperties
<1>5. QED
  BY <1>2, <1>3, <1>4

LEMMA ReceiptUpdateRcInv ==
  ASSUME RcInv, NEW r \in Receipts, ReceiptUpdate(r)
  PROVE  RcInv'
<1>1. PICK e, X : e = rver[r] + 1 /\ X = Nat \ {0}
  OBVIOUS
<1>2. /\ rver' = [rver EXCEPT ![r] = e] /\ rver'[r] = e
      /\ rdataC' = [rdataC EXCEPT ![r] = Append(@, e)]
      /\ UNCHANGED <<rctx, rloop, rdata, rstaker, stakers, registered, rsub,
                     rstream, rerr>>
  BY <1>1 DEF ReceiptUpdate, RcInv
<1>3. e \in X /\ rdataC \in [Receipts -> Seq(X)] /\ rver' \in [Receipts -> X]
  BY <1>1, <1>2 DEF RcInv
<1>4. rdataC' \in [Receipts -> Seq(X)]
  BY <1>2, <1>3, QueuesGrow
<1>5. QED
  BY <1>1, <1>2, <1>3, <1>4 DEF RcInv

LEMMA UpdateStakerRcInv ==
  ASSUME RcInv, NEW r \in Receipts, NEW m \in Managers, UpdateStaker(r, m)
  PROVE  RcInv'
<1>1. /\ rstaker' = [rstaker EXCEPT ![r] = Append(@, m)]
      /\ UNCHANGED <<rctx, rloop, rver, rdata, rdataC, stakers, registered,
                     rsub, rstream, rerr>>
  BY DEF UpdateStaker
<1>2. rstaker' \in [Receipts -> Seq(Managers)]
  BY <1>1, QueuesGrow DEF RcInv
<1>3. QED
  BY <1>1, <1>2 DEF RcInv

LEMMA OnStakerRcInv ==
  ASSUME RcInv, NEW r \in Receipts, on_staker(r)
  PROVE  RcInv'
<1>1. PICK m, S, n : m = Head(rstaker[r]) /\ S = stakers[r] /\ n = registered[r]
  OBVIOUS
<1>2. /\ rstaker[r] # <<>> /\ rstaker' = [rstaker EXCEPT ![r] = Tail(@)]
      /\ UNCHANGED <<rctx, rloop, rver, rdata, rdataC, rsub, rstream, rerr>>
      /\ IF m \in S THEN UNCHANGED <<stakers, registered>>
         ELSE /\ stakers' = [stakers EXCEPT ![r] = S \cup {m}]
              /\ registered' = [registered EXCEPT ![r] = n + Stake[m]]
  BY <1>1 DEF on_staker
<1>3. rstaker' \in [Receipts -> Seq(Managers)] /\ m \in Managers
  BY <1>1, <1>2, QueuesShrink DEF RcInv
<1>4. /\ S \in SUBSET Managers /\ Counted(S) /\ n = StakeOf(S)
      /\ stakers \in [Receipts -> SUBSET Managers] /\ registered \in [Receipts -> Nat]
      /\ \A s \in Receipts : Counted(stakers[s]) /\ registered[s] = StakeOf(stakers[s])
  BY <1>1 DEF RcInv
<1>5. /\ stakers' \in [Receipts -> SUBSET Managers] /\ registered' \in [Receipts -> Nat]
      /\ \A s \in Receipts : Counted(stakers'[s]) /\ registered'[s] = StakeOf(stakers'[s])
  <2>1. CASE m \in S
    BY <1>2, <1>4, <2>1
  <2>2. CASE m \notin S
    <3>1. PICK R, k : R = S \cup {m} /\ k = n + Stake[m]
      OBVIOUS
    <3>2. Counted(R) /\ StakeOf(R) = k
      BY <1>3, <1>4, <2>2, <3>1, MoreStake
    <3>3. k \in Nat /\ R \in SUBSET Managers
      BY <1>3, <1>4, <3>1, <3>2 DEF Counted
    <3>4. stakers' = [stakers EXCEPT ![r] = R] /\ registered' = [registered EXCEPT ![r] = k]
      BY <1>2, <2>2, <3>1
    <3>5. QED
      BY <1>4, <3>2, <3>3, <3>4
  <2>3. QED
    BY <2>1, <2>2
<1>6. QED
  BY <1>2, <1>3, <1>5 DEF RcInv

LEMMA ReceiptOnDataRcInv ==
  ASSUME RcInv, NEW r \in Receipts, ReceiptOnData(r)
  PROVE  RcInv'
<1>1. PICK e, X, d : e = Head(rdataC[r]) /\ X = Nat \ {0}
                     /\ d = [rstream EXCEPT ![r] = Append(@, e)]
  OBVIOUS
<1>2. /\ rdataC[r] # <<>> /\ rdata' = [rdata EXCEPT ![r] = e]
      /\ rdataC' = [rdataC EXCEPT ![r] = Tail(@)] /\ rdata'[r] = e
      /\ UNCHANGED <<rctx, rloop, rver, rstaker, stakers, registered>>
  BY <1>1 DEF ReceiptOnData, RcInv
<1>3. \/ UNCHANGED <<rsub, rstream, rerr>>
      \/ Len(rstream[r]) < RQueueCap /\ rstream' = d /\ UNCHANGED <<rsub, rerr>>
      \/ /\ rerr' = [rerr EXCEPT ![r] = <<"full">>]
         /\ rsub' = [rsub EXCEPT ![r] = "none"] /\ UNCHANGED rstream
  BY <1>1, <1>2 DEF ReceiptOnData
<1>4. rdataC \in [Receipts -> Seq(X)] /\ rstream \in [Receipts -> Seq(X)]
  BY <1>1 DEF RcInv
<1>5. rdataC' \in [Receipts -> Seq(X)] /\ e \in X
  BY <1>1, <1>2, <1>4, QueuesShrink
<1>6. rdata' \in [Receipts -> Nat \ {0}] /\ rdataC' \in [Receipts -> Seq(Nat \ {0})]
  BY <1>1, <1>2, <1>5 DEF RcInv
<1>7. CASE UNCHANGED <<rsub, rstream, rerr>>
  BY <1>2, <1>6, <1>7 DEF RcInv
<1>8. CASE Len(rstream[r]) < RQueueCap /\ rstream' = d /\ UNCHANGED <<rsub, rerr>>
  <2>1. /\ d \in [Receipts -> Seq(X)]
        /\ \A s \in Receipts : Len(d[s]) = IF s = r THEN Len(rstream[s]) + 1
                                           ELSE Len(rstream[s])
    BY <1>1, <1>4, <1>5, QueuesGrow
  <2>2. ASSUME NEW s \in Receipts PROVE Len(d[s]) <= RQueueCap
    <3>1. Len(rstream[s]) \in Nat /\ Len(rstream[s]) <= RQueueCap
      BY <1>4, LenProperties DEF RcInv
    <3>2. QED
      BY <1>8, <2>1, <3>1, ReceiptStateAssumption
  <2>3. QED
    BY <1>1, <1>2, <1>6, <1>8, <2>1, <2>2 DEF RcInv
<1>9. CASE /\ rerr' = [rerr EXCEPT ![r] = <<"full">>]
           /\ rsub' = [rsub EXCEPT ![r] = "none"] /\ UNCHANGED rstream
  <2>1. <<"full">> # <<"nil">>
    OBVIOUS
  <2>2. /\ rerr' \in [Receipts -> {<<>>, <<"nil">>, <<"full">>}]
        /\ \A s \in Receipts : rerr'[s] = <<"nil">> => rctx[s] = "closed"
    BY <1>9, <2>1 DEF RcInv
  <2>3. QED
    BY <1>2, <1>6, <1>9, <2>2 DEF RcInv
<1>10. QED
  BY <1>3, <1>7, <1>8, <1>9

LEMMA StepRcInv ==
  ASSUME RcInv, ReceiptNext
  PROVE  RcInv' /\ \A r \in Receipts : rctx[r] = "closed" => rctx'[r] = "closed"
<1>1. ASSUME NEW r \in Receipts, ReceiptClose(r) \/ ReceiptReceive(r) PROVE RcInv'
  BY <1>1 DEF RcInv, ReceiptClose, ReceiptReceive
<1>2. ASSUME NEW r \in Receipts, ReceiptFinish(r) PROVE RcInv'
  <2>1. /\ rloop' \in [Receipts -> {"run", "dead"}]
        /\ rerr' \in [Receipts -> {<<>>, <<"nil">>, <<"full">>}]
        /\ \A s \in Receipts : rerr'[s] = <<"nil">> => rctx[s] = "closed"
    BY <1>2 DEF RcInv, ReceiptFinish
  <2>2. QED
    BY <1>2, <2>1 DEF RcInv, ReceiptFinish
<1>3. RcInv'
  BY <1>1, <1>2, ReceiptUpdateRcInv, UpdateStakerRcInv, OnStakerRcInv, ReceiptOnDataRcInv
     DEF ReceiptNext, ReceiptLoop
<1>4. \A r \in Receipts : rctx[r] = "closed" => rctx'[r] = "closed"
  BY DEF ReceiptNext, ReceiptLoop, ReceiptUpdate, ReceiptClose, UpdateStaker,
         ReceiptOnData, on_staker, ReceiptReceive, ReceiptFinish, RcInv
<1>5. QED
  BY <1>3, <1>4

\* The validator's invariant.  A receipt that waits on internalC has no
\* goroutine yet; one whose goroutine runs is in both indexes, and is still
\* there when its deletion is read; and it asks for that only when it, or the
\* validator, has closed.
Dated == Receipts \X (Nat \ {0})

Over(r) == rctx[r] = "closed" \/ vctx = "closed"

VTypes ==
    /\ vctx \in {"open", "closed"} /\ vloop \in {"run", "dead"}
    /\ byPayout \in [PayoutsOfReceipts -> Receipts \cup {None}]
    /\ receiptsById \subseteq Receipts
    /\ ri \in [Receipts -> RiStates]
    /\ stake \in [activated : 0 .. MaxStake, total : 0 .. MaxStake]
    /\ updateC \in Seq(Dated) /\ Len(updateC) <= UpdateCap
    /\ Len(vErrorC) <= 1

VWaiting ==
    /\ vint \in Seq(Dated)
    /\ \A i, j \in DOMAIN vint : vint[i][1] = vint[j][1] => i = j
    /\ \A i \in DOMAIN vint : ri[vint[i][1]] = "none"

VIndex ==
    /\ \A r \in Receipts : r \in receiptsById <=> byPayout[PayoutOf[r]] = r
    /\ \A p \in PayoutsOfReceipts : byPayout[p] # None => PayoutOf[byPayout[p]] = p

VGoing ==
    /\ \A r \in Receipts : ri[r] \notin {"none", "done"} => r \in receiptsById
    /\ \A r \in rcancel : ri[r] = "done"
    /\ \A r \in Receipts : ri[r] = "del" => Over(r)
    /\ \/ deleteC = <<>>
       \/ \E r \in receiptsById : deleteC = <<r>> /\ ri[r] = "done" /\ Over(r)

VInv == RcInv /\ VTypes /\ VWaiting /\ VIndex /\ VGoing

LEMMA InitVInv == VdInit => VInv
<1> SUFFICES ASSUME VdInit PROVE VInv
  OBVIOUS
<1>1. RcInv
  BY InitRcInv DEF VdInit
<1>2. /\ vctx = "open" /\ vloop = "run" /\ vint = <<>>
      /\ byPayout = [p \in PayoutsOfReceipts |-> None] /\ receiptsById = {}
      /\ rcancel = {} /\ ri = [r \in Receipts |-> "none"]
      /\ updateC = <<>> /\ deleteC = <<>> /\ vErrorC = <<>>
      /\ stake = [activated |-> 0, total |-> 0]
  BY DEF VdInit
<1>3. VTypes
  BY <1>2, ValidatorStateAssumption DEF VTypes, RiStates
<1>4. VWaiting
  BY <1>2 DEF VWaiting
<1>5. VIndex
  <2>1. \A r \in Receipts : PayoutOf[r] \in PayoutsOfReceipts
    BY DEF PayoutsOfReceipts
  <2>2. QED
    BY <1>2, <2>1, ValidatorStateAssumption DEF VIndex
<1>6. VGoing
  BY <1>2 DEF VGoing
<1>7. QED
  BY <1>1, <1>3, <1>4, <1>5, <1>6 DEF VInv

\* A step of the receipts.
LEMMA ReceiptsStep ==
  ASSUME VInv, ReceiptNext, UNCHANGED validatorVars
  PROVE  VInv'
<1>1. RcInv' /\ \A r \in Receipts : rctx[r] = "closed" => rctx'[r] = "closed"
  BY StepRcInv DEF VInv
<1>2. VTypes' /\ VWaiting' /\ VIndex'
  BY DEF VInv, VTypes, VWaiting, VIndex, validatorVars
<1>3. \A r \in Receipts : Over(r) => Over(r)'
  BY <1>1 DEF Over, validatorVars
<1>4. receiptsById \subseteq Receipts
  BY DEF VInv, VTypes
<1>5. VGoing'
  BY <1>3, <1>4 DEF VInv, VGoing, validatorVars
<1>6. QED
  BY <1>1, <1>2, <1>5 DEF VInv

\* The goroutine of a receipt moves on.
LEMMA GoroutineMoves ==
  ASSUME VInv, NEW r \in Receipts, ri[r] \notin {"none", "done"}, NEW s \in RiStates,
         Sets(r, s), s \notin {"none"}, s = "del" => Over(r),
         UNCHANGED <<rctx, vctx, vint, byPayout, receiptsById, rcancel>>,
         \/ UNCHANGED deleteC
         \/ s = "done" /\ ri[r] = "del" /\ deleteC' = <<r>>
  PROVE  VWaiting' /\ VIndex' /\ VGoing' /\ ri' \in [Receipts -> RiStates]
<1>1. /\ VTypes /\ VWaiting /\ VIndex /\ VGoing /\ ri' = [ri EXCEPT ![r] = s]
      /\ ri \in [Receipts -> RiStates]
  BY DEF VInv, Sets, VTypes
<1>2. \A q \in Receipts : ri'[q] = IF q = r THEN s ELSE ri[q]
  BY <1>1
<1>3. ri' \in [Receipts -> RiStates]
  BY <1>1
<1>4. VWaiting'
  <2>1. ASSUME NEW i \in DOMAIN vint PROVE ri'[vint[i][1]] = "none"
    <3>1. vint[i] \in Dated /\ ri[vint[i][1]] = "none"
      BY <1>1, <2>1, ElementOfSeq, LenProperties DEF VWaiting
    <3>2. vint[i][1] \in Receipts /\ vint[i][1] # r
      BY <3>1 DEF Dated
    <3>3. QED
      BY <1>2, <3>1, <3>2
  <2>2. QED
    BY <1>1, <2>1 DEF VWaiting
<1>5. VIndex'
  BY <1>1 DEF VIndex
<1>6. \A q \in Receipts : Over(q) <=> Over(q)'
  BY DEF Over
<1>7. r \in receiptsById /\ r \notin rcancel
  BY <1>1 DEF VGoing
<1>8. rcancel' = rcancel /\ receiptsById' = receiptsById /\ receiptsById \subseteq Receipts
  BY <1>1 DEF VTypes
<1>9. /\ \A q \in Receipts : ri'[q] \notin {"none", "done"} => q \in receiptsById
      /\ \A q \in Receipts : ri'[q] = "del" => Over(q)'
  BY <1>1, <1>2, <1>6, <1>7 DEF VGoing
<1>10. \A q \in rcancel : ri'[q] = "done"
  BY <1>1, <1>7 DEF VGoing
<1>11. \/ deleteC' = <<>>
       \/ \E q \in receiptsById : deleteC' = <<q>> /\ ri'[q] = "done" /\ Over(q)'
  <2>1. CASE UNCHANGED deleteC
    <3>1. \A q \in receiptsById : ri[q] = "done" => ri'[q] = "done"
      BY <1>2, <1>8
    <3>2. QED
      BY <1>1, <1>6, <1>8, <2>1, <3>1 DEF VGoing
  <2>2. CASE s = "done" /\ ri[r] = "del" /\ deleteC' = <<r>>
    <3>1. Over(r)'
      BY <1>1, <1>6, <2>2 DEF VGoing
    <3>2. QED
      BY <1>2, <1>7, <2>2, <3>1
  <2>3. QED
    BY <2>1, <2>2
<1>12. VGoing'
  BY <1>8, <1>9, <1>10, <1>11 DEF VGoing
<1>13. QED
  BY <1>3, <1>4, <1>5, <1>12

LEMMA RiStep ==
  ASSUME VInv, NEW r \in Receipts, RiLoop(r)
  PROVE  VInv'
<1>1. RcInv /\ VTypes /\ VWaiting /\ VIndex /\ VGoing
  BY DEF VInv
<1>2. CASE RiUpdate(r)
  <2>1. PICK e, X, u : e = Head(rstream[r]) /\ X = Nat \ {0}
                       /\ u = <<r, Head(rstream[r])>>
    OBVIOUS
  <2>2. /\ rstream[r] # <<>> /\ Len(updateC) < UpdateCap
        /\ updateC' = Append(updateC, u) /\ rstream' = [rstream EXCEPT ![r] = Tail(@)]
        /\ UNCHANGED <<rctx, rloop, rver, rdata, rdataC, rstaker, stakers,
                   registered, rsub, rerr, vctx, vloop, vint, byPayout, receiptsById,
                   holder, rcancel, ri, deleteC, vErrorC, stake>>
    BY <1>2, <2>1 DEF RiUpdate
  <2>3. rstream \in [Receipts -> Seq(X)]
    BY <1>1, <2>1 DEF RcInv
  <2>4. /\ rstream' \in [Receipts -> Seq(X)] /\ e \in X
        /\ \A s \in Receipts : Len(rstream'[s]) <= Len(rstream[s])
    BY <2>1, <2>2, <2>3, QueuesShrink
  <2>5. \A s \in Receipts : Len(rstream'[s]) <= RQueueCap
    <3>1. ASSUME NEW s \in Receipts PROVE Len(rstream'[s]) <= RQueueCap
      <4>1. /\ Len(rstream'[s]) \in Nat /\ Len(rstream[s]) \in Nat
            /\ Len(rstream'[s]) <= Len(rstream[s]) /\ Len(rstream[s]) <= RQueueCap
        BY <1>1, <2>3, <2>4, LenProperties DEF RcInv
      <4>2. QED
        BY <4>1, ReceiptStateAssumption
    <3>2. QED
      BY <3>1
  <2>6. RcInv'
    BY <1>1, <2>1, <2>2, <2>4, <2>5 DEF RcInv
  <2>7. u \in Dated
    BY <2>1, <2>4 DEF Dated
  <2>8. updateC' \in Seq(Dated) /\ Len(updateC') <= UpdateCap
    <3>1. updateC \in Seq(Dated)
      BY <1>1 DEF VTypes
    <3>2. updateC' \in Seq(Dated) /\ Len(updateC) \in Nat
          /\ Len(updateC') = Len(updateC) + 1
      BY <2>2, <2>7, <3>1, AppendTyped
    <3>3. QED
      BY <2>2, <3>2, ValidatorStateAssumption
  <2>9. VTypes' /\ VWaiting' /\ VIndex'
    BY <1>1, <2>2, <2>8 DEF VTypes, VWaiting, VIndex
  <2>10. VGoing'
    BY <1>1, <2>2 DEF VGoing, Over
  <2>11. QED
    BY <2>6, <2>9, <2>10 DEF VInv
<1>3. CASE RiAsk(r)
  <2>1. /\ ri[r] = "ask" /\ Sets(r, "wait") /\ rsub' = [rsub EXCEPT ![r] = "asked"]
        /\ UNCHANGED <<rctx, rloop, rver, rdata, rdataC, rstaker, stakers,
                   registered, rstream, rerr, vctx, vloop, vint, byPayout,
                   receiptsById, holder, rcancel, updateC, deleteC, vErrorC, stake>>
    BY <1>3 DEF RiAsk
  <2>2. VWaiting' /\ VIndex' /\ VGoing' /\ ri' \in [Receipts -> RiStates]
    BY <2>1, GoroutineMoves DEF RiStates
  <2>3. RcInv'
    BY <1>1, <2>1 DEF RcInv
  <2>4. VTypes'
    BY <1>1, <2>1, <2>2 DEF VTypes
  <2>5. QED
    BY <2>2, <2>3, <2>4 DEF VInv
<1>4. ASSUME NEW s \in RiStates, ri[r] \notin {"none", "done"}, Sets(r, s), s # "none",
             s = "del" => Over(r),
             UNCHANGED <<receiptVars, vctx, vloop, vint, byPayout, receiptsById,
                         rcancel, updateC, stake>>,
             Len(vErrorC') <= 1,
             \/ UNCHANGED deleteC
             \/ s = "done" /\ ri[r] = "del" /\ deleteC' = <<r>>
      PROVE  VInv'
  <2>1. UNCHANGED <<rctx, vctx, vint, byPayout, receiptsById, rcancel>>
    BY <1>4 DEF receiptVars
  <2>2. VWaiting' /\ VIndex' /\ VGoing' /\ ri' \in [Receipts -> RiStates]
    BY <1>4, <2>1, GoroutineMoves
  <2>3. RcInv'
    BY <1>1, <1>4 DEF RcInv, receiptVars
  <2>4. VTypes'
    BY <1>1, <1>4, <2>2 DEF VTypes
  <2>5. QED
    BY <2>2, <2>3, <2>4 DEF VInv
<1>5. Len(vErrorC) <= 1
  BY <1>1 DEF VTypes
<1>6. CASE RiAnswered(r)
  <2>1. "run" \in RiStates
    BY DEF RiStates
  <2>2. /\ ri[r] = "wait" /\ Sets(r, "run") /\ UNCHANGED <<deleteC, vErrorC>>
        /\ UNCHANGED <<receiptVars, vctx, vloop, vint, byPayout, receiptsById,
                       rcancel, updateC, stake>>
    BY <1>6 DEF RiAnswered
  <2>3. QED
    BY <1>4, <1>5, <2>1, <2>2
<1>7. CASE RiBreak(r)
  <2>1. "err" \in RiStates /\ "del" \in RiStates
    BY DEF RiStates
  <2>2. /\ ri[r] = "run" /\ UNCHANGED <<deleteC, vErrorC>>
        /\ UNCHANGED <<receiptVars, vctx, vloop, vint, byPayout, receiptsById,
                       rcancel, updateC, stake>>
        /\ \/ Sets(r, "err")
           \/ rerr[r] = <<"nil">> /\ Sets(r, "del")
           \/ (r \in rcancel \/ vctx = "closed") /\ Sets(r, "del")
    BY <1>7 DEF RiBreak
  <2>3. r \notin rcancel /\ (rerr[r] = <<"nil">> => Over(r))
    BY <1>1, <2>2 DEF VGoing, RcInv, Over
  <2>4. CASE Sets(r, "err")
    BY <1>4, <1>5, <2>1, <2>2, <2>4
  <2>5. CASE Sets(r, "del") /\ Over(r)
    BY <1>4, <1>5, <2>1, <2>2, <2>5
  <2>6. QED
    BY <2>2, <2>3, <2>4, <2>5 DEF Over
<1>8. CASE RiReport(r)
  <2>1. "done" \in RiStates /\ Len(<<r>>) = 1
    BY DEF RiStates
  <2>2. /\ Sets(r, "done")
        /\ UNCHANGED <<receiptVars, vctx, vloop, vint, byPayout, receiptsById,
                       rcancel, updateC, stake>>
        /\ \/ ri[r] = "del" /\ deleteC' = <<r>> /\ UNCHANGED vErrorC
           \/ ri[r] = "err" /\ vErrorC' = <<r>> /\ UNCHANGED deleteC
    BY <1>8 DEF RiReport
  <2>3. CASE ri[r] = "del" /\ deleteC' = <<r>> /\ UNCHANGED vErrorC
    BY <1>4, <1>5, <2>1, <2>2, <2>3
  <2>4. CASE ri[r] = "err" /\ vErrorC' = <<r>> /\ UNCHANGED deleteC
    BY <1>4, <1>5, <2>1, <2>2, <2>4
  <2>5. QED
    BY <2>2, <2>3, <2>4
<1>9. QED
  BY <1>2, <1>3, <1>6, <1>7, <1>8 DEF RiLoop

LEMMA UpdateReceiptStep ==
  ASSUME VInv, NEW r \in Receipts, UpdateReceipt(r)
  PROVE  VInv'
<1>1. PICK u, n : u = <<r, rdata[r]>> /\ n = Len(vint)
  OBVIOUS
<1>2. /\ vint' = Append(vint, u) /\ ri[r] = "none"
      /\ \A i \in DOMAIN vint : vint[i][1] # r
      /\ UNCHANGED <<receiptVars, vctx, vloop, byPayout, receiptsById, rcancel,
                     ri, updateC, deleteC, vErrorC, stake>>
  BY <1>1 DEF UpdateReceipt
<1>3. RcInv /\ VTypes /\ VWaiting /\ VIndex /\ VGoing
  BY DEF VInv
<1>4. u \in Dated /\ vint \in Seq(Dated)
  BY <1>1, <1>3 DEF RcInv, Dated, VWaiting
<1>5. /\ vint' \in Seq(Dated) /\ n \in Nat /\ Len(vint') = n + 1 /\ vint'[n + 1] = u
      /\ \A i \in 1 .. n : vint'[i] = vint[i]
  BY <1>1, <1>2, <1>4, AppendTyped
<1>6. DOMAIN vint = 1 .. n /\ DOMAIN vint' = 1 .. n + 1 /\ u[1] = r
  BY <1>1, <1>4, <1>5, LenProperties
<1>7. ASSUME NEW i \in 1 .. n + 1 PROVE ri[vint'[i][1]] = "none"
  <2>1. CASE i \in 1 .. n
    BY <1>3, <1>5, <1>6, <2>1 DEF VWaiting
  <2>2. CASE i = n + 1
    BY <1>2, <1>5, <1>6, <2>2
  <2>3. QED
    BY <1>5, <2>1, <2>2
<1>8. ASSUME NEW i \in 1 .. n + 1, NEW j \in 1 .. n + 1, vint'[i][1] = vint'[j][1]
      PROVE  i = j
  <2>1. CASE i \in 1 .. n /\ j \in 1 .. n
    BY <1>3, <1>5, <1>6, <1>8, <2>1 DEF VWaiting
  <2>2. CASE i = n + 1 /\ j \in 1 .. n
    BY <1>2, <1>5, <1>6, <1>8, <2>2
  <2>3. CASE j = n + 1 /\ i \in 1 .. n
    BY <1>2, <1>5, <1>6, <1>8, <2>3
  <2>4. QED
    BY <1>5, <2>1, <2>2, <2>3
<1>9. VWaiting'
  BY <1>2, <1>5, <1>6, <1>7, <1>8 DEF VWaiting
<1>10. RcInv' /\ VTypes' /\ VIndex'
  BY <1>2, <1>3 DEF RcInv, receiptVars, VTypes, VIndex
<1>11. VGoing'
  BY <1>2, <1>3 DEF VGoing, Over, receiptVars
<1>12. QED
  BY <1>9, <1>10, <1>11 DEF VInv

\* on_receipt: the receipt has no goroutine yet, and none of those that wait
\* behind it is the same.
LEMMA OnReceiptStep ==
  ASSUME VInv, VdOnReceipt
  PROVE  VInv'
<1>1. PICK r, u, n, t : u = Head(vint) /\ r = u[1] /\ n = Len(vint) /\ t = Tail(vint)
  OBVIOUS
<1>2. RcInv /\ VTypes /\ VWaiting /\ VIndex /\ VGoing
  BY DEF VInv
<1>3. /\ vint # <<>> /\ vint' = t
      /\ UNCHANGED <<receiptVars, vctx, vloop, rcancel, updateC, deleteC,
                     vErrorC, stake>>
      /\ IF byPayout[PayoutOf[r]] # None
         THEN UNCHANGED <<byPayout, receiptsById, ri>>
         ELSE /\ byPayout' = [byPayout EXCEPT ![PayoutOf[r]] = r]
              /\ receiptsById' = receiptsById \cup {r}
              /\ ri' = [ri EXCEPT ![r] = "ask"]
  BY <1>1 DEF VdOnReceipt
<1>4. vint \in Seq(Dated)
  BY <1>2 DEF VWaiting
<1>5. /\ u \in Dated /\ t \in Seq(Dated) /\ u = vint[1] /\ n \in Nat \ {0}
      /\ Len(t) = n - 1 /\ \A i \in 1 .. n - 1 : t[i] = vint[i + 1]
  BY <1>1, <1>3, <1>4, TailTyped
<1>6. DOMAIN vint = 1 .. n /\ DOMAIN t = 1 .. n - 1
  BY <1>1, <1>4, <1>5, LenProperties
<1>7. r \in Receipts /\ ri[r] = "none" /\ 1 \in DOMAIN vint
  <2>1. 1 \in DOMAIN vint
    BY <1>5, <1>6
  <2>2. QED
    BY <1>1, <1>2, <1>5, <2>1 DEF VWaiting, Dated
<1>8. ASSUME NEW i \in 1 .. n - 1
      PROVE  /\ t[i] = vint[i + 1] /\ i + 1 \in DOMAIN vint
             /\ t[i][1] # r /\ t[i][1] \in Receipts /\ ri[t[i][1]] = "none"
  <2>1. t[i] = vint[i + 1] /\ i + 1 \in DOMAIN vint /\ i + 1 # 1
    BY <1>5, <1>6
  <2>2. vint[i + 1][1] # vint[1][1] /\ ri[vint[i + 1][1]] = "none"
    BY <1>2, <1>7, <2>1 DEF VWaiting
  <2>3. t[i] \in Dated
    BY <1>5, <1>6, ElementOfSeq
  <2>4. QED
    BY <1>1, <1>5, <2>1, <2>2, <2>3 DEF Dated
<1>9. \A i, j \in 1 .. n - 1 : t[i][1] = t[j][1] => i = j
  <2>1. ASSUME NEW i \in 1 .. n - 1, NEW j \in 1 .. n - 1, t[i][1] = t[j][1]
        PROVE  i = j
    <3>1. /\ i + 1 \in DOMAIN vint /\ j + 1 \in DOMAIN vint
          /\ vint[i + 1][1] = vint[j + 1][1]
      BY <1>8, <2>1
    <3>2. i + 1 = j + 1
      BY <1>2, <3>1 DEF VWaiting
    <3>3. QED
      BY <1>5, <3>2
  <2>2. QED
    BY <2>1
<1>10. \A q \in Receipts : ri'[q] = ri[q] \/ (q = r /\ ri'[q] = "ask")
  BY <1>2, <1>3, <1>7 DEF VTypes
<1>11. VWaiting'
  <2>1. \A i \in 1 .. n - 1 : ri'[t[i][1]] = "none"
    BY <1>8, <1>10
  <2>2. QED
    BY <1>3, <1>5, <1>6, <1>9, <2>1 DEF VWaiting
<1>12. RcInv'
  BY <1>2, <1>3 DEF RcInv, receiptVars
<1>13. \A q \in Receipts : Over(q) <=> Over(q)'
  BY <1>3 DEF Over, receiptVars
<1>14. PayoutOf[r] \in PayoutsOfReceipts /\ \A q \in Receipts : PayoutOf[q] \in PayoutsOfReceipts
  BY <1>7 DEF PayoutsOfReceipts
<1>15. CASE byPayout[PayoutOf[r]] # None
  <2>1. UNCHANGED <<byPayout, receiptsById, ri>>
    BY <1>3, <1>15
  <2>2. VTypes' /\ VIndex'
    BY <1>2, <1>3, <2>1 DEF VTypes, VIndex
  <2>3. receiptsById \subseteq Receipts
    BY <1>2 DEF VTypes
  <2>4. VGoing'
    BY <1>2, <1>3, <1>13, <2>1, <2>3 DEF VGoing
  <2>5. QED
    BY <1>11, <1>12, <2>2, <2>4 DEF VInv
<1>16. CASE byPayout[PayoutOf[r]] = None
  <2>1. /\ byPayout' = [byPayout EXCEPT ![PayoutOf[r]] = r]
        /\ receiptsById' = receiptsById \cup {r} /\ ri' = [ri EXCEPT ![r] = "ask"]
    BY <1>3, <1>16
  <2>2. VTypes'
    BY <1>2, <1>3, <1>7, <2>1 DEF VTypes, RiStates
  <2>3. byPayout \in [PayoutsOfReceipts -> Receipts \cup {None}]
    BY <1>2 DEF VTypes
  <2>4. \A p \in PayoutsOfReceipts :
           byPayout'[p] = IF p = PayoutOf[r] THEN r ELSE byPayout[p]
    BY <1>14, <2>1, <2>3
  <2>5. VIndex'
    <3>1. ASSUME NEW q \in Receipts
          PROVE  q \in receiptsById' <=> byPayout'[PayoutOf[q]] = q
      <4>1. CASE q = r
        BY <1>14, <2>1, <2>4, <4>1
      <4>2. CASE q # r /\ PayoutOf[q] = PayoutOf[r]
        <5>1. byPayout'[PayoutOf[q]] = r
          BY <1>14, <2>4, <4>2
        <5>2. q \notin receiptsById
          BY <1>2, <1>16, <4>2, ValidatorStateAssumption DEF VIndex
        <5>3. QED
          BY <2>1, <4>2, <5>1, <5>2
      <4>3. CASE q # r /\ PayoutOf[q] # PayoutOf[r]
        BY <1>2, <1>14, <2>1, <2>4, <4>3 DEF VIndex
      <4>4. QED
        BY <4>1, <4>2, <4>3
    <3>2. \A p \in PayoutsOfReceipts : byPayout'[p] # None => PayoutOf[byPayout'[p]] = p
      BY <1>2, <2>4 DEF VIndex
    <3>3. QED
      BY <3>1, <3>2 DEF VIndex
  <2>6. VGoing'
    <3>1. \A q \in Receipts : ri'[q] = IF q = r THEN "ask" ELSE ri[q]
      BY <1>2, <2>1 DEF VTypes
    <3>2. receiptsById \subseteq Receipts
      BY <1>2 DEF VTypes
    <3>3. \A q \in Receipts : ri'[q] \notin {"none", "done"} => q \in receiptsById'
      BY <1>2, <2>1, <3>1 DEF VGoing
    <3>4. rcancel' = rcancel /\ \A q \in rcancel : ri'[q] = "done"
      <4>1. r \notin rcancel
        BY <1>2, <1>7 DEF VGoing
      <4>2. QED
        BY <1>2, <1>3, <2>1, <4>1 DEF VGoing, VTypes
    <3>5. \A q \in Receipts : ri'[q] = "del" => Over(q)'
      BY <1>2, <1>13, <3>1 DEF VGoing
    <3>6. \/ deleteC' = <<>>
          \/ \E q \in receiptsById' : deleteC' = <<q>> /\ ri'[q] = "done" /\ Over(q)'
      <4>1. CASE deleteC = <<>>
        BY <1>3, <4>1
      <4>2. ASSUME NEW q \in receiptsById, deleteC = <<q>>, ri[q] = "done", Over(q)
            PROVE  q \in receiptsById' /\ deleteC' = <<q>> /\ ri'[q] = "done" /\ Over(q)'
        BY <1>3, <1>7, <1>13, <2>1, <3>1, <3>2, <4>2
      <4>3. QED
        BY <1>2, <4>1, <4>2 DEF VGoing
    <3>7. QED
      BY <3>3, <3>4, <3>5, <3>6 DEF VGoing
  <2>7. QED
    BY <1>11, <1>12, <2>2, <2>5, <2>6 DEF VInv
<1>17. QED
  BY <1>15, <1>16

\* The receipt whose deletion is read is still in both indexes.
LEMMA OnDeleteStep ==
  ASSUME VInv, OnDelete
  PROVE  /\ VInv'
         /\ \A r \in receiptsById : r \notin receiptsById' => Over(r)
<1>1. RcInv /\ VTypes /\ VWaiting /\ VIndex /\ VGoing
  BY DEF VInv
<1>2. deleteC # <<>>
  BY DEF OnDelete
<1>3. PICK r \in receiptsById : deleteC = <<r>> /\ ri[r] = "done" /\ Over(r)
  BY <1>1, <1>2 DEF VGoing
<1>4. Head(deleteC) = r /\ Tail(deleteC) = <<>> /\ r \in Receipts
  BY <1>1, <1>3 DEF VTypes
<1>5. byPayout[PayoutOf[r]] = r /\ r # None
  BY <1>1, <1>3, <1>4, ValidatorStateAssumption DEF VIndex
<1>6. /\ deleteC' = <<>> /\ byPayout' = [byPayout EXCEPT ![PayoutOf[r]] = None]
      /\ rcancel' = rcancel \cup {r} /\ receiptsById' = receiptsById \ {r}
      /\ UNCHANGED <<receiptVars, vctx, vloop, vint, ri, updateC, vErrorC, stake>>
  BY <1>4, <1>5 DEF OnDelete
<1>7. \A q \in Receipts : PayoutOf[q] \in PayoutsOfReceipts
  BY DEF PayoutsOfReceipts
<1>8. /\ byPayout \in [PayoutsOfReceipts -> Receipts \cup {None}]
      /\ \A p \in PayoutsOfReceipts :
            byPayout'[p] = IF p = PayoutOf[r] THEN None ELSE byPayout[p]
  BY <1>1, <1>4, <1>6, <1>7 DEF VTypes
<1>9. RcInv' /\ VWaiting'
  BY <1>1, <1>6 DEF RcInv, receiptVars, VWaiting
<1>10. VTypes'
  BY <1>1, <1>4, <1>6, <1>8 DEF VTypes
<1>11. VIndex'
  <2>1. ASSUME NEW q \in Receipts
        PROVE  q \in receiptsById' <=> byPayout'[PayoutOf[q]] = q
    <3>1. CASE PayoutOf[q] = PayoutOf[r]
      <4>1. byPayout'[PayoutOf[q]] = None /\ q # None
        BY <1>7, <1>8, <3>1, ValidatorStateAssumption
      <4>2. q \in receiptsById => q = r
        BY <1>1, <1>5, <3>1 DEF VIndex
      <4>3. QED
        BY <1>6, <4>1, <4>2
    <3>2. CASE PayoutOf[q] # PayoutOf[r]
      BY <1>1, <1>6, <1>7, <1>8, <3>2 DEF VIndex
    <3>3. QED
      BY <3>1, <3>2
  <2>2. \A p \in PayoutsOfReceipts : byPayout'[p] # None => PayoutOf[byPayout'[p]] = p
    BY <1>1, <1>8 DEF VIndex
  <2>3. QED
    BY <2>1, <2>2 DEF VIndex
<1>12. VGoing'
  BY <1>1, <1>3, <1>4, <1>6 DEF VGoing, Over, receiptVars
<1>13. QED
  BY <1>3, <1>6, <1>9, <1>10, <1>11, <1>12 DEF VInv

LEMMA StepVInv ==
  ASSUME VInv, [VdNext]_vdVars
  PROVE  /\ VInv'
         /\ \A r \in receiptsById : r \notin receiptsById' => Over(r)
<1>1. RcInv /\ VTypes /\ VWaiting /\ VIndex /\ VGoing
  BY DEF VInv
<1>2. CASE ReceiptNext /\ UNCHANGED validatorVars
  BY <1>2, ReceiptsStep DEF validatorVars
<1>3. ASSUME NEW r \in Receipts, UpdateReceipt(r) PROVE VInv' /\ UNCHANGED receiptsById
  BY <1>3, UpdateReceiptStep DEF UpdateReceipt
<1>4. ASSUME NEW r \in Receipts, RiLoop(r) PROVE VInv' /\ UNCHANGED receiptsById
  BY <1>4, RiStep DEF RiLoop, RiAsk, RiAnswered, RiUpdate, RiBreak, RiReport
<1>5. CASE VdOnReceipt
  <2>1. receiptsById \subseteq receiptsById'
    BY <1>5 DEF VdOnReceipt
  <2>2. QED
    BY <1>5, <2>1, OnReceiptStep
<1>6. CASE OnDelete
  BY <1>6, OnDeleteStep
<1>7. CASE \/ VdClose \/ StakeError \/ VdFinish \/ on_receipt_update
           \/ UNCHANGED vdVars
           \/ \E f \in {"activated", "total"}, n \in 0 .. MaxStake : OnStake(f, n)
  <2>1. /\ UNCHANGED <<receiptVars, vint, byPayout, receiptsById, rcancel, ri, deleteC,
                       vErrorC>>
        /\ vctx' \in {vctx, "closed"} /\ vloop' \in {vloop, "dead"}
    BY <1>7 DEF VdClose, StakeError, VdFinish, on_receipt_update, OnStake, vdVars,
                validatorVars
  <2>2. stake' \in [activated : 0 .. MaxStake, total : 0 .. MaxStake]
    <3>1. stake \in [activated : 0 .. MaxStake, total : 0 .. MaxStake]
      BY <1>1 DEF VTypes
    <3>2. ASSUME NEW f \in {"activated", "total"}, NEW n \in 0 .. MaxStake, OnStake(f, n)
          PROVE  stake' \in [activated : 0 .. MaxStake, total : 0 .. MaxStake]
      <4>1. stake' = [stake EXCEPT ![f] = n]
        BY <3>2 DEF OnStake
      <4>2. CASE f = "activated"
        BY <3>1, <4>1, <4>2
      <4>3. CASE f = "total"
        BY <3>1, <4>1, <4>3
      <4>4. QED
        BY <4>2, <4>3
    <3>3. QED
      BY <1>7, <3>1, <3>2 DEF VdClose, StakeError, VdFinish, on_receipt_update, vdVars,
                              validatorVars
  <2>3. updateC' \in Seq(Dated) /\ Len(updateC') <= UpdateCap
    <3>1. updateC \in Seq(Dated) /\ Len(updateC) <= UpdateCap
      BY <1>1 DEF VTypes
    <3>2. CASE on_receipt_update
      <4>1. updateC # <<>> /\ updateC' = Tail(updateC)
        BY <3>2 DEF on_receipt_update
      <4>2. /\ updateC' \in Seq(Dated) /\ Len(updateC) \in Nat
            /\ Len(updateC') = Len(updateC) - 1
        BY <3>1, <4>1, TailTyped
      <4>3. QED
        BY <3>1, <4>2, ValidatorStateAssumption
    <3>3. CASE UNCHANGED updateC
      BY <3>1, <3>3
    <3>4. QED
      BY <1>7, <3>2, <3>3 DEF VdClose, StakeError, VdFinish, OnStake, vdVars,
                              validatorVars
  <2>4. RcInv' /\ VWaiting' /\ VIndex'
    BY <1>1, <2>1 DEF RcInv, receiptVars, VWaiting, VIndex
  <2>5. VTypes'
    BY <1>1, <2>1, <2>2, <2>3 DEF VTypes
  <2>6. \A r \in Receipts : Over(r) => Over(r)'
    BY <2>1 DEF Over, receiptVars
  <2>7. receiptsById \subseteq Receipts
    BY <1>1 DEF VTypes
  <2>8. VGoing'
    BY <1>1, <2>1, <2>6, <2>7 DEF VGoing
  <2>9. QED
    BY <2>1, <2>4, <2>5, <2>8 DEF VInv
<1>8. QED
  BY <1>2, <1>3, <1>4, <1>5, <1>6, <1>7 DEF VdNext, ValidatorLoop

LEMMA VInvTells == VInv => VdTypeOK /\ IndexesAgree /\ RegisteredOnce
<1> SUFFICES ASSUME VInv PROVE VdTypeOK /\ IndexesAgree /\ RegisteredOnce
  OBVIOUS
<1>1. RcInv /\ VTypes /\ VIndex /\ VGoing
  BY DEF VInv
<1>2. RegisteredOnce
  BY <1>1 DEF RcInv, RegisteredOnce
<1>3. ReceiptTypeOK
  <2>1. ASSUME NEW r \in Receipts PROVE Len(rerr[r]) <= 1
    <3>1. rerr[r] = <<>> \/ rerr[r] = <<"nil">> \/ rerr[r] = <<"full">>
      BY <1>1 DEF RcInv
    <3>2. Len(<<>>) = 0 /\ Len(<<"nil">>) = 1 /\ Len(<<"full">>) = 1
      OBVIOUS
    <3>3. PICK z : z = Len(rerr[r])
      OBVIOUS
    <3>4. z = 0 \/ z = 1
      BY <3>1, <3>2, <3>3, Zenon
    <3>5. z <= 1
      BY <3>4
    <3>6. QED
      BY <3>3, <3>5
  <2>2. QED
    BY <1>1, <2>1 DEF RcInv, ReceiptTypeOK
<1>4. Len(deleteC) <= 1
  <2>1. CASE deleteC = <<>>
    BY <2>1
  <2>2. ASSUME NEW r, deleteC = <<r>> PROVE Len(deleteC) <= 1
    BY <2>2
  <2>3. QED
    BY <1>1, <2>1, <2>2 DEF VGoing
<1>5. VdTypeOK
  BY <1>1, <1>3, <1>4 DEF VTypes, VdTypeOK
<1>6. \A r \in Receipts : PayoutOf[r] \in PayoutsOfReceipts
  BY DEF PayoutsOfReceipts
<1>7. AllReceipt = receiptsById
  <2>1. ASSUME NEW x, x \in AllReceipt PROVE x \in receiptsById
    <3>1. PICK p \in PayoutsOfReceipts : x = byPayout[p] /\ x # None
      BY <2>1 DEF AllReceipt
    <3>2. x \in Receipts /\ PayoutOf[x] = p
      BY <1>1, <3>1 DEF VTypes, VIndex
    <3>3. QED
      BY <1>1, <3>1, <3>2 DEF VIndex
  <2>2. ASSUME NEW x, x \in receiptsById PROVE x \in AllReceipt
    <3>1. x \in Receipts /\ byPayout[PayoutOf[x]] = x /\ x # None
      BY <1>1, <2>2, ValidatorStateAssumption DEF VTypes, VIndex
    <3>2. QED
      BY <1>6, <3>1 DEF AllReceipt
  <2>3. QED
    BY <2>1, <2>2
<1>8. ASSUME NEW r \in receiptsById
      PROVE  ReceiptByPayoutId(PayoutOf[r]) = VdReceiptById(r)
  <2>1. r \in Receipts /\ byPayout[PayoutOf[r]] = r /\ r # None
    BY <1>1, <1>8, ValidatorStateAssumption DEF VTypes, VIndex
  <2>2. QED
    BY <1>8, <2>1 DEF ReceiptByPayoutId, VdReceiptById
<1>9. QED
  BY <1>2, <1>5, <1>7, <1>8 DEF IndexesAgree

LEMMA ValidatorInvariance == VdSpec => []VInv
<1>1. VInv /\ [VdNext]_vdVars => VInv'
  BY StepVInv
<1>2. QED
  BY InitVInv, <1>1, PTL DEF VdSpec

\* The two receipt maps of a validator hold the same receipts and answer
\* alike, and the stake registered for a receipt is that of its stakers, each
\* counted once (on_receipt, the deleteReceiptC case of loopInternal,
\* on_staker).
THEOREM ReceiptIndexesRight == VdSpec => [](VdTypeOK /\ IndexesAgree /\ RegisteredOnce)
<1>1. VInv => VdTypeOK /\ IndexesAgree /\ RegisteredOnce
  BY VInvTells
<1>2. QED
  BY ValidatorInvariance, <1>1, PTL

\* While the validator is open, a receipt leaves its indexes only after its
\* own object was closed (receiptInternal.loop, deleteReceiptC).
THEOREM OnlyClosedReceiptsLeave == VdSpec => OnlyClosedLeave
<1>1. VInv /\ [VdNext]_vdVars =>
        [\A r \in receiptsById :
            r \notin receiptsById' => rctx[r] = "closed" \/ vctx = "closed"]_vdVars
  BY StepVInv DEF Over
<1>2. QED
  BY ValidatorInvariance, <1>1, PTL DEF VdSpec, OnlyClosedLeave

-----------------------------------------------------------------------------

\* The router and the objects together: while objects come and close under
\* them, the pipeline's list and its index, the two receipt maps of a
\* validator and the registered stake of a receipt agree with what they
\* index, and all variables keep their types.
THEOREM ObjectsIndexesExact == Spec /\ PpSpec /\ VdSpec => []IndexesExact
<1>1. TypeOK /\ (PpTypeOK /\ PayoutsSorted /\ IndexExact)
        /\ (VdTypeOK /\ IndexesAgree /\ RegisteredOnce) => IndexesExact
  BY DEF IndexesExact, ObjectsTypeOK
<1>2. QED
  BY <1>1, RouterTyped, PipelineListRight, ReceiptIndexesRight, PTL
=============================================================================
