----------------------- MODULE PipelineScheduleProofs -----------------------
(***************************************************************************)
(* Proofs about PipelineSchedule, for every bound, every set of lengths    *)
(* and look-aheads, every capacity of eventC and every ring the scheduler  *)
(* may start from: type correctness, at most one live trigger, a live      *)
(* trigger is ahead of the known periods, and the exact bookkeeping of the *)
(* events sent.                                                            *)
(*                                                                         *)
(* The home looks at a ring entry by entry, and while it does so eventC    *)
(* fills up, triggers time out and further rings arrive.  The properties   *)
(* speak of the moments between; Linked and Counted say what holds on the  *)
(* way: which entries are still to be looked at, which period the home     *)
(* takes for the last one, and how much of what it issued has been sent.   *)
(***************************************************************************)
EXTENDS PipelineSchedule, SequenceFacts, FiniteSetTheorems, TLAPS

\* The periods of the chain follow each other.
Ordered ==
    /\ \A i \in 1 .. Len(ring) :
          1 <= ring[i].start /\ ring[i].start <= ring[i].finish
    /\ \A i, j \in 1 .. Len(ring) : i < j => ring[i].finish < ring[j].start

\* The home before its loop: no slot has been seen, so nothing is issued.
Quiet ==
    /\ slot = 0 /\ trig = <<>> /\ cancel = 0 /\ outbox = 0 /\ periodQ = <<>>
    /\ pc = "init" => todo = <<>>

\* The type invariant, and how the home's variables refer to each other.
TInv ==
    /\ TypeOK
    /\ Ordered
    /\ \A i \in 1 .. Len(periodQ) : periodQ[i] \in 0 .. Len(ring)
    /\ cancel <= Len(trig)
    /\ OneLiveTrigger
    /\ pc \in {"init", "subscribe"} => Quiet

\* How many triggers, and how many period ends, are in a sequence of events.
Issued(s) == {n \in 1 .. Len(s) : s[n] # FINISH}
Ends(s) == {n \in 1 .. Len(s) : s[n] = FINISH}

\* The n-th trigger in s is trigger n.
InOrder(s) ==
    \A n \in 1 .. Len(s) : s[n] # FINISH =>
        s[n] = Cardinality({m \in 1 .. n : s[m] # FINISH})

\* Every trigger issued has been sent, or is the one being sent.
Counted ==
    /\ InOrder(Sent)
    /\ pc # "exit" =>
          \/ outbox = 0 /\ Cardinality(Issued(Sent)) = Len(trig)
          \/ /\ outbox # 0 /\ outbox = Len(trig)
             /\ Cardinality(Issued(Sent)) + 1 = Len(trig)

\* The number of ring entries the home has been shown, when it missed none.
Shown == Len(ring) - Len(periodQ)

\* The number of periods on_period took.
Taken ==
    CASE pc = "init"      -> 0
      [] pc = "subscribe" -> Shown - Len(todo)
      [] OTHER            -> IF todo = <<>> THEN Shown ELSE Shown - 1

Known(n) == IF n = 0 THEN [start |-> 0, finish |-> 0] ELSE ring[n]

Live(k) == trig[k].ctx = "live"

\* While no ring was missed: each one in the stream is longer by one than
\* the one before, the home is at the end of the one it looks at, and only
\* its last entry is new.
Linked ==
    /\ Len(periodQ) <= Len(ring)
    /\ \A i \in 1 .. Len(periodQ) : periodQ[i] = Shown + i
    /\ Len(todo) <= Shown
    /\ \A i \in 1 .. Len(todo) : todo[i] = ring[(Shown - Len(todo)) + i]
    /\ last = Known(Taken)
    /\ Cardinality(Ends(Sent)) + starting = Taken
    /\ todo # <<>> => \A k \in 1 .. Len(trig) : ~Live(k)
    /\ \A k \in 1 .. Len(trig) :
          Live(k) /\ trig[k].start # 0 => trig[k].start > last.finish

\* The inductive invariant.
IInv ==
    /\ TInv
    /\ Counted
    /\ gap = 0 /\ pc # "exit" => Linked

-----------------------------------------------------------------------------
(* The triggers.                                                           *)

\* One field of one trigger changes.
LEMMA TriggerExcept ==
  ASSUME NEW ts \in Seq(Trigger), NEW k \in 1 .. Len(ts), NEW r \in Trigger,
         NEW us, us = [ts EXCEPT ![k] = r]
  PROVE  /\ us \in Seq(Trigger) /\ Len(us) = Len(ts) /\ us[k] = r
         /\ \A i \in 1 .. Len(ts) : i # k => us[i] = ts[i]
  BY ExceptSeq, LenProperties

\* append_cancel leaves no live trigger behind the handle.
LEMMA CancelEffect ==
  ASSUME NEW ts \in Seq(Trigger), NEW h \in Nat, h <= Len(ts),
         NEW us, us = append_cancel(h, ts)
  PROVE  /\ us \in Seq(Trigger) /\ Len(us) = Len(ts)
         /\ \A k \in 1 .. Len(ts) : us[k].ctx = "live" =>
               k # h /\ ts[k].ctx = "live"
         /\ \A k \in 1 .. Len(ts) : us[k].start = ts[k].start
<1>0. Len(ts) \in Nat
  BY LenProperties
<1>1. CASE h = 0
  <2>1. us = ts
    BY <1>1 DEF append_cancel
  <2>2. QED
    BY <1>0, <1>1, <2>1
<1>2. CASE h # 0
  <2> DEFINE r == [ts[h] EXCEPT !.ctx = "done"]
  <2>1. h \in 1 .. Len(ts)
    BY <1>0, <1>2
  <2>2. ts[h] \in Trigger
    BY <2>1, ElementOfSeq
  <2>3. r \in Trigger /\ r.ctx = "done" /\ r.start = ts[h].start
    BY <2>2 DEF Trigger
  <2>4. us = [ts EXCEPT ![h] = r]
    BY <1>2 DEF append_cancel
  <2> HIDE DEF r
  <2>5. /\ us \in Seq(Trigger) /\ Len(us) = Len(ts) /\ us[h] = r
        /\ \A i \in 1 .. Len(ts) : i # h => us[i] = ts[i]
    BY <2>1, <2>3, <2>4, TriggerExcept
  <2>6. QED
    BY <2>3, <2>5
<1>3. QED
  BY <1>1, <1>2

\* A trigger starts at slot 0 or after the last period.
LEMMA StartAhead ==
  ASSUME NEW s \in Nat, NEW finish \in Nat
  PROVE  /\ TriggerStart(s, finish) \in Nat
         /\ TriggerStart(s, finish) # 0 => TriggerStart(s, finish) > finish
  BY PipelineScheduleAssumption DEF TriggerStart

\* on_latest issues a trigger only if there is no handle, or changes nothing.
LEMMA LatestEffect ==
  ASSUME NEW s \in Nat, NEW ahead \in Nat, NEW finish \in Nat, NEW h \in Nat,
         NEW ts \in Seq(Trigger), h <= Len(ts),
         \A k \in 1 .. Len(ts) : ts[k].ctx = "live" => h = k,
         on_latest(s, ahead, finish, h, ts)
  PROVE  /\ trig' \in Seq(Trigger) /\ cancel' \in Nat /\ cancel' <= Len(trig')
         /\ outbox' \in Nat
         /\ \A k \in 1 .. Len(trig') : trig'[k].ctx = "live" => cancel' = k
         /\ \/ trig' = ts /\ cancel' = h /\ outbox' = 0
            \/ /\ s # 0 /\ Len(trig') = Len(ts) + 1
               /\ outbox' # 0 /\ outbox' = Len(trig')
               /\ \A k \in 1 .. Len(ts) : trig'[k].ctx # "live"
               /\ trig'[Len(ts) + 1].start # 0 => trig'[Len(ts) + 1].start > finish
<1>0. Len(ts) \in Nat
  BY LenProperties
<1>1. CASE s # 0 /\ h = 0 /\ finish < s + ahead
  <2> DEFINE r == [start |-> TriggerStart(s, finish), ctx |-> "live",
                   waiter |-> TRUE]
  <2>1. /\ trig' = Append(ts, r) /\ cancel' = Len(ts) + 1
        /\ outbox' = Len(ts) + 1
    BY <1>1 DEF on_latest
  <2>2. r \in Trigger /\ (r.start # 0 => r.start > finish)
    BY StartAhead DEF Trigger
  <2> HIDE DEF r
  <2>3. /\ trig' \in Seq(Trigger) /\ Len(trig') = Len(ts) + 1
        /\ \A i \in 1 .. Len(ts) : trig'[i] = ts[i]
        /\ trig'[Len(ts) + 1] = r
    BY <2>1, <2>2, AppendTyped
  <2>4. \A k \in 1 .. Len(ts) : trig'[k].ctx # "live"
    BY <1>1, <2>3
  <2>5. \A k \in 1 .. Len(trig') : trig'[k].ctx = "live" => cancel' = k
    BY <1>0, <2>1, <2>3, <2>4
  <2>6. outbox' # 0 /\ outbox' = Len(trig') /\ cancel' \in Nat
        /\ cancel' <= Len(trig') /\ outbox' \in Nat
    BY <1>0, <2>1, <2>3
  <2>7. QED
    BY <1>1, <2>2, <2>3, <2>4, <2>5, <2>6
<1>2. CASE ~(s # 0 /\ h = 0 /\ finish < s + ahead)
  <2>1. trig' = ts /\ cancel' = h /\ outbox' = 0
    BY <1>2 DEF on_latest
  <2>2. QED
    BY <2>1
<1>3. QED
  BY <1>1, <1>2

-----------------------------------------------------------------------------
(* The events.                                                             *)

\* One more event is sent: it counts as a trigger or as an end.
LEMMA CountSent ==
  ASSUME NEW s \in Seq(Nat), NEW e \in Nat, NEW t, t = Append(s, e)
  PROVE  /\ Cardinality(Issued(s)) \in Nat /\ Cardinality(Ends(s)) \in Nat
         /\ e # FINISH => Cardinality(Issued(t)) = Cardinality(Issued(s)) + 1
         /\ e # FINISH => Cardinality(Ends(t)) = Cardinality(Ends(s))
         /\ e = FINISH => Cardinality(Issued(t)) = Cardinality(Issued(s))
         /\ e = FINISH => Cardinality(Ends(t)) = Cardinality(Ends(s)) + 1
<1>1. /\ t \in Seq(Nat) /\ Len(s) \in Nat /\ Len(t) = Len(s) + 1
      /\ \A i \in 1 .. Len(s) : t[i] = s[i]
      /\ t[Len(s) + 1] = e
  BY AppendTyped
<1>2. /\ Issued(t) \subseteq 1 .. Len(s) + 1
      /\ Issued(s) = Issued(t) \ {Len(s) + 1}
      /\ Len(s) + 1 \in Issued(t) <=> e # FINISH
  BY <1>1 DEF Issued
<1>3. /\ Ends(t) \subseteq 1 .. Len(s) + 1
      /\ Ends(s) = Ends(t) \ {Len(s) + 1}
      /\ Len(s) + 1 \in Ends(t) <=> e = FINISH
  BY <1>1 DEF Ends
<1>4. /\ Cardinality(Issued(s)) \in Nat
      /\ e # FINISH => Cardinality(Issued(t)) = Cardinality(Issued(s)) + 1
      /\ e = FINISH => Cardinality(Issued(t)) = Cardinality(Issued(s))
  <2> DEFINE A == Issued(s)
             B == Issued(t)
             n == Len(s) + 1
  <2>1. n \in Nat /\ B \subseteq 1 .. n /\ A = B \ {n}
    BY <1>1, <1>2
  <2>2. n \in B <=> e # FINISH
    BY <1>2
  <2> HIDE DEF A, B, n
  <2>3. /\ Cardinality(A) \in Nat
        /\ n \in B => Cardinality(B) = Cardinality(A) + 1
        /\ n \notin B => Cardinality(B) = Cardinality(A)
    BY <2>1, CountLast
  <2>4. QED
    BY <2>2, <2>3 DEF A, B
<1>5. /\ Cardinality(Ends(s)) \in Nat
      /\ e # FINISH => Cardinality(Ends(t)) = Cardinality(Ends(s))
      /\ e = FINISH => Cardinality(Ends(t)) = Cardinality(Ends(s)) + 1
  <2> DEFINE A == Ends(s)
             B == Ends(t)
             n == Len(s) + 1
  <2>1. n \in Nat /\ B \subseteq 1 .. n /\ A = B \ {n}
    BY <1>1, <1>3
  <2>2. n \in B <=> e = FINISH
    BY <1>3
  <2> HIDE DEF A, B, n
  <2>3. /\ Cardinality(A) \in Nat
        /\ n \in B => Cardinality(B) = Cardinality(A) + 1
        /\ n \notin B => Cardinality(B) = Cardinality(A)
    BY <2>1, CountLast
  <2>4. QED
    BY <2>2, <2>3 DEF A, B
<1>6. QED
  BY <1>4, <1>5

\* The triggers stay in order when the next one is sent.
LEMMA EventSent ==
  ASSUME NEW s \in Seq(Nat), NEW e \in Nat, NEW t, t = Append(s, e), InOrder(s),
         e # FINISH => e = Cardinality(Issued(s)) + 1
  PROVE  InOrder(t)
<1>1. /\ t \in Seq(Nat) /\ Len(s) \in Nat /\ Len(t) = Len(s) + 1
      /\ \A i \in 1 .. Len(s) : t[i] = s[i]
      /\ t[Len(s) + 1] = e
  BY AppendTyped
<1>2. e # FINISH => Cardinality(Issued(t)) = e
  BY CountSent
<1> SUFFICES ASSUME NEW n \in 1 .. Len(t), t[n] # FINISH
             PROVE  t[n] = Cardinality({m \in 1 .. n : t[m] # FINISH})
  BY DEF InOrder
<1>3. CASE n \in 1 .. Len(s)
  <2>1. {m \in 1 .. n : t[m] # FINISH} = {m \in 1 .. n : s[m] # FINISH}
    <3>1. \A m \in 1 .. n : m \in 1 .. Len(s)
      BY <1>1, <1>3
    <3>2. \A m \in 1 .. n : t[m] = s[m]
      BY <1>1, <3>1
    <3>3. QED
      BY <3>2
  <2>2. QED
    BY <1>1, <1>3, <2>1 DEF InOrder
<1>4. CASE n = Len(s) + 1
  <2>1. {m \in 1 .. n : t[m] # FINISH} = Issued(t)
    BY <1>1, <1>4 DEF Issued
  <2>2. t[n] = Cardinality(Issued(t))
    BY <1>1, <1>2, <1>4
  <2>3. QED
    BY <2>1, <2>2
<1>5. n \in 1 .. Len(s) \/ n = Len(s) + 1
  <2>1. n \in 1 .. Len(s) + 1 /\ Len(s) \in Nat
    BY <1>1
  <2>2. QED
    BY <2>1
<1>6. QED
  BY <1>3, <1>4, <1>5

\* At the start.
LEMMA NothingSent ==
  InOrder(<<>>) /\ Cardinality(Issued(<<>>)) = 0 /\ Cardinality(Ends(<<>>)) = 0
<1>1. Issued(<<>>) = {} /\ Ends(<<>>) = {} /\ InOrder(<<>>)
  BY DEF Issued, Ends, InOrder
<1>2. QED
  BY <1>1, FS_EmptySet

-----------------------------------------------------------------------------
(* The steps.                                                              *)

\* What the invariant says in a form the steps use.
LEMMA Facts ==
  ASSUME IInv
  PROVE  /\ TypeOK /\ Ordered /\ cancel <= Len(trig)
         /\ \A i \in 1 .. Len(periodQ) : periodQ[i] \in 0 .. Len(ring)
         /\ \A k \in 1 .. Len(trig) : trig[k].ctx = "live" => cancel = k
         /\ DOMAIN trig = 1 .. Len(trig)
         /\ Len(ring) \in Nat /\ Len(trig) \in Nat /\ Len(todo) \in Nat
         /\ Len(periodQ) \in Nat
         /\ Sent \in Seq(Nat)
         /\ Cardinality(Issued(Sent)) \in Nat /\ Cardinality(Ends(Sent)) \in Nat
<1>1. TypeOK /\ Ordered /\ cancel <= Len(trig) /\ OneLiveTrigger
      /\ \A i \in 1 .. Len(periodQ) : periodQ[i] \in 0 .. Len(ring)
  BY DEF IInv, TInv
<1>2. /\ ring \in Seq(Period) /\ trig \in Seq(Trigger) /\ todo \in Seq(Period)
      /\ periodQ \in Seq(Nat) /\ history \in Seq(Nat) /\ eventC \in Seq(Nat)
  BY <1>1 DEF TypeOK
<1>3. /\ DOMAIN trig = 1 .. Len(trig)
      /\ Len(ring) \in Nat /\ Len(trig) \in Nat /\ Len(todo) \in Nat
      /\ Len(periodQ) \in Nat
  BY <1>2, LenProperties
<1>4. Sent \in Seq(Nat)
  BY <1>2, ConcatProperties DEF Sent
<1>5. /\ Issued(Sent) \subseteq 1 .. Len(Sent) /\ Ends(Sent) \subseteq 1 .. Len(Sent)
      /\ Len(Sent) \in Nat
  BY <1>4, LenProperties DEF Issued, Ends
<1>6. Cardinality(Issued(Sent)) \in Nat /\ Cardinality(Ends(Sent)) \in Nat
  <2> DEFINE A == Issued(Sent)
             B == Ends(Sent)
             n == Len(Sent)
  <2>1. A \subseteq 1 .. n /\ B \subseteq 1 .. n /\ n \in Nat
    BY <1>5
  <2> HIDE DEF A, B, n
  <2>2. Cardinality(A) \in Nat /\ Cardinality(B) \in Nat
    BY <2>1, CountLast
  <2>3. QED
    BY <2>2 DEF A, B
<1>7. QED
  BY <1>1, <1>3, <1>4, <1>6 DEF OneLiveTrigger

\* The new triggers are well kept.
LEMMA TriggersKept ==
  ASSUME trig' \in Seq(Trigger),
         \A k \in 1 .. Len(trig') : trig'[k].ctx = "live" => cancel' = k
  PROVE  OneLiveTrigger'
<1>1. DOMAIN trig' = 1 .. Len(trig')
  BY LenProperties
<1>2. QED
  BY <1>1 DEF OneLiveTrigger

\* A step that sends nothing keeps the count, if it keeps the number of
\* triggers or issues one and has it in the outbox.
LEMMA CountedKept ==
  ASSUME IInv, history' = history, eventC' = eventC,
         pc' = "exit" \/ pc # "exit",
         \/ pc' = "exit"
         \/ Len(trig') = Len(trig) /\ outbox' = outbox
         \/ /\ outbox = 0 /\ outbox' # 0 /\ outbox' = Len(trig')
            /\ Len(trig') = Len(trig) + 1
  PROVE  Counted' /\ Sent' = Sent
<1>1. Sent' = Sent
  BY DEF Sent
<1>2. InOrder(Sent)' /\ Issued(Sent)' = Issued(Sent)
  BY <1>1 DEF IInv, Counted, InOrder, Issued
<1>3. Cardinality(Issued(Sent)) \in Nat /\ Len(trig) \in Nat
  BY Facts
<1>4. pc # "exit" =>
          \/ outbox = 0 /\ Cardinality(Issued(Sent)) = Len(trig)
          \/ /\ outbox # 0 /\ outbox = Len(trig)
             /\ Cardinality(Issued(Sent)) + 1 = Len(trig)
  BY DEF IInv, Counted
<1>5. pc' # "exit" =>
          \/ outbox' = 0 /\ Cardinality(Issued(Sent)) = Len(trig')
          \/ /\ outbox' # 0 /\ outbox' = Len(trig')
             /\ Cardinality(Issued(Sent)) + 1 = Len(trig')
  BY <1>3, <1>4
<1>6. QED
  BY <1>1, <1>2, <1>5 DEF Counted

\* Another period on the chain.
LEMMA ChainAppendStep == ASSUME IInv, ChainAppend PROVE IInv'
<1>1. PICK s \in NextFree .. MaxSlot, n \in Lengths :
         ring' = Append(ring, [start |-> s, finish |-> s + n - 1])
  BY DEF ChainAppend
<1> DEFINE r == [start |-> s, finish |-> s + n - 1]
<1>2. /\ pc # "exit" /\ UNCHANGED <<home, trig, starting, eventC, history>>
      /\ \/ /\ pc = "loop" /\ periodQ' = Append(periodQ, Len(ring'))
            /\ gap' = gap
         \/ /\ pc # "loop" /\ gap < MaxGap /\ gap' = gap + 1
            /\ periodQ' = periodQ
  BY DEF ChainAppend
<1>3. /\ TypeOK /\ Ordered /\ Len(ring) \in Nat /\ Len(periodQ) \in Nat
      /\ \A i \in 1 .. Len(periodQ) : periodQ[i] \in 0 .. Len(ring)
      /\ Len(todo) \in Nat
  BY Facts
<1>4. ring \in Seq(Period) /\ periodQ \in Seq(Nat) /\ gap \in 0 .. MaxGap
  BY <1>3 DEF TypeOK
<1>5. \A i \in 1 .. Len(ring) : ring[i] \in Period
  BY <1>4, ElementOfSeq
<1>6. /\ NextFree \in Nat \ {0}
      /\ \A i \in 1 .. Len(ring) : ring[i].finish < NextFree
  <2>1. CASE ring = <<>>
    BY <2>1 DEF NextFree
  <2>2. CASE ring # <<>>
    <3>1. Len(ring) \in 1 .. Len(ring)
      BY <1>3, <1>4, <2>2, EmptySeq
    <3>2. NextFree = ring[Len(ring)].finish + 1
      BY <2>2 DEF NextFree
    <3>3. ring[Len(ring)].finish \in Nat
      BY <1>5, <3>1 DEF Period
    <3>4. ASSUME NEW i \in 1 .. Len(ring)
          PROVE  ring[i].finish <= ring[Len(ring)].finish
      <4>1. CASE i = Len(ring)
        BY <3>3, <4>1
      <4>2. CASE i # Len(ring)
        <5>1. i < Len(ring)
          BY <1>3, <4>2
        <5>2. ring[i].finish < ring[Len(ring)].start
          BY <1>3, <3>1, <5>1 DEF Ordered
        <5>3. ring[Len(ring)].start <= ring[Len(ring)].finish
          BY <1>3, <3>1 DEF Ordered
        <5>4. ring[i].finish \in Nat /\ ring[Len(ring)].start \in Nat
          BY <1>5, <3>1 DEF Period
        <5>5. QED
          BY <3>3, <5>2, <5>3, <5>4
      <4>3. QED
        BY <4>1, <4>2
    <3>5. \A i \in 1 .. Len(ring) : ring[i].finish \in Nat
      BY <1>5 DEF Period
    <3>6. QED
      BY <3>2, <3>3, <3>4, <3>5
  <2>3. QED
    BY <2>1, <2>2
<1>7. s \in Nat /\ s >= NextFree /\ n \in Nat /\ n >= 1
  BY <1>6, PipelineScheduleAssumption
<1>8. /\ r \in Period /\ 1 <= r.start /\ r.start <= r.finish
      /\ \A i \in 1 .. Len(ring) : ring[i].finish < r.start
  <2>1. s + n - 1 \in Nat /\ s <= s + n - 1 /\ 1 <= s
    BY <1>6, <1>7
  <2>2. r.start = s /\ r.finish = s + n - 1
    OBVIOUS
  <2>3. r \in Period
    BY <1>7, <2>1 DEF Period
  <2>4. \A i \in 1 .. Len(ring) : ring[i].finish < s
    <3>1. \A i \in 1 .. Len(ring) : ring[i].finish \in Nat
      BY <1>5 DEF Period
    <3>2. QED
      BY <1>6, <1>7, <3>1
  <2>5. QED
    BY <2>1, <2>2, <2>3, <2>4
<1> HIDE DEF r
<1>9. /\ ring' \in Seq(Period) /\ Len(ring') = Len(ring) + 1
      /\ \A i \in 1 .. Len(ring) : ring'[i] = ring[i]
      /\ ring'[Len(ring) + 1] = r
  <2>1. ring' = Append(ring, r)
    BY <1>1 DEF r
  <2>2. QED
    BY <1>4, <1>8, <2>1, AppendTyped
<1>10. \A i \in 1 .. Len(ring') : i \in 1 .. Len(ring) \/ i = Len(ring) + 1
  BY <1>3, <1>9
<1>11. Ordered'
  <2>1. \A i \in 1 .. Len(ring') :
           1 <= ring'[i].start /\ ring'[i].start <= ring'[i].finish
    BY <1>3, <1>8, <1>9, <1>10 DEF Ordered
  <2>2. ASSUME NEW i \in 1 .. Len(ring'), NEW j \in 1 .. Len(ring'), i < j
        PROVE  ring'[i].finish < ring'[j].start
    <3>1. i \in 1 .. Len(ring)
      BY <1>3, <1>9, <2>2
    <3>2. CASE j \in 1 .. Len(ring)
      BY <1>3, <1>9, <2>2, <3>1, <3>2 DEF Ordered
    <3>3. CASE j = Len(ring) + 1
      BY <1>8, <1>9, <3>1, <3>3
    <3>4. QED
      BY <1>10, <3>2, <3>3
  <2>3. QED
    BY <2>1, <2>2 DEF Ordered
<1>12. /\ periodQ' \in Seq(Nat) /\ Len(periodQ') \in Nat
       /\ \A i \in 1 .. Len(periodQ) : periodQ'[i] = periodQ[i]
       /\ \/ pc # "loop" /\ Len(periodQ') = Len(periodQ)
          \/ /\ pc = "loop" /\ Len(periodQ') = Len(periodQ) + 1
             /\ periodQ'[Len(periodQ) + 1] = Len(ring')
  <2>1. CASE pc = "loop"
    <3>1. periodQ' = Append(periodQ, Len(ring')) /\ Len(ring') \in Nat
      BY <1>2, <1>3, <1>9, <2>1
    <3>2. /\ periodQ' \in Seq(Nat) /\ Len(periodQ') = Len(periodQ) + 1
          /\ \A i \in 1 .. Len(periodQ) : periodQ'[i] = periodQ[i]
          /\ periodQ'[Len(periodQ) + 1] = Len(ring')
      BY <1>4, <3>1, AppendTyped
    <3>3. QED
      BY <1>3, <2>1, <3>2
  <2>2. CASE pc # "loop"
    BY <1>2, <1>3, <1>4, <2>2
  <2>3. QED
    BY <2>1, <2>2
<1>13. \A i \in 1 .. Len(periodQ') : periodQ'[i] \in 0 .. Len(ring')
  <2> TAKE i \in 1 .. Len(periodQ')
  <2>1. CASE i \in 1 .. Len(periodQ)
    <3>1. periodQ'[i] \in 0 .. Len(ring)
      BY <1>3, <1>12, <2>1
    <3>2. QED
      BY <1>3, <1>9, <3>1
  <2>2. CASE i \notin 1 .. Len(periodQ)
    <3>1. pc = "loop" /\ i = Len(periodQ) + 1
      BY <1>3, <1>12, <2>2
    <3>2. periodQ'[i] = Len(ring')
      BY <1>12, <3>1
    <3>3. QED
      BY <1>3, <1>9, <3>2
  <2>3. QED
    BY <2>1, <2>2
<1>14. TypeOK'
  <2>1. gap' \in 0 .. MaxGap
    BY <1>2, <1>4, PipelineScheduleAssumption
  <2>2. QED
    BY <1>2, <1>3, <1>9, <1>12, <2>1 DEF TypeOK, home
<1>15. TInv'
  <2>1. cancel' <= Len(trig)' /\ OneLiveTrigger'
    BY <1>2 DEF IInv, TInv, OneLiveTrigger, home
  <2>2. pc' \in {"init", "subscribe"} => Quiet'
    BY <1>2 DEF IInv, TInv, Quiet, home
  <2>3. QED
    BY <1>11, <1>13, <1>14, <2>1, <2>2 DEF TInv
<1>16. Counted' /\ Sent' = Sent
  BY <1>2, CountedKept DEF home
<1>17. gap' = 0 => Linked'
  <2> SUFFICES ASSUME gap' = 0 PROVE Linked'
    OBVIOUS
  <2>1. pc = "loop" /\ gap = 0
    BY <1>2, <1>4
  <2>2. Linked
    BY <1>2, <2>1 DEF IInv
  <2>3. /\ UNCHANGED <<todo, last, trig, starting, pc>>
    BY <1>2 DEF home
  <2>4. /\ Len(periodQ) <= Len(ring) /\ Shown \in Nat /\ Shown <= Len(ring)
        /\ Len(todo) <= Shown
    BY <1>3, <2>2 DEF Linked, Shown
  <2>5. Shown' = Shown
    <3>1. Len(ring') = Len(ring) + 1 /\ Len(periodQ') = Len(periodQ) + 1
      BY <1>9, <1>12, <2>1
    <3>2. Shown' = Len(ring') - Len(periodQ')
      BY DEF Shown
    <3>3. QED
      BY <1>3, <3>1, <3>2 DEF Shown
  <2>6. Taken' = Taken /\ Taken \in 0 .. Len(ring)
    <3>1. Taken' = Taken
      BY <2>1, <2>3, <2>5 DEF Taken
    <3>2. Taken = IF todo = <<>> THEN Shown ELSE Shown - 1
      BY <2>1 DEF Taken
    <3>3. todo # <<>> => Len(todo) > 0
      BY <1>3, EmptySeq DEF TypeOK
    <3>4. QED
      BY <1>3, <2>4, <3>1, <3>2, <3>3
  <2>7. Known(Taken)' = Known(Taken)
    BY <1>3, <1>9, <2>6 DEF Known
  <2>8. \A i \in 1 .. Len(periodQ') : periodQ'[i] = Shown + i
    <3> TAKE i \in 1 .. Len(periodQ')
    <3>1. CASE i \in 1 .. Len(periodQ)
      BY <1>12, <2>2, <3>1 DEF Linked
    <3>2. CASE i \notin 1 .. Len(periodQ)
      <4>1. i = Len(periodQ) + 1
        BY <1>3, <1>12, <2>1, <3>2
      <4>2. periodQ'[i] = Len(ring) + 1
        BY <1>9, <1>12, <2>1, <4>1
      <4>3. QED
        BY <1>3, <4>1, <4>2 DEF Shown
    <3>3. QED
      BY <3>1, <3>2
  <2>9. \A i \in 1 .. Len(todo) : todo[i] = ring'[(Shown - Len(todo)) + i]
    <3> TAKE i \in 1 .. Len(todo)
    <3>1. (Shown - Len(todo)) + i \in 1 .. Len(ring)
      BY <1>3, <2>4
    <3>2. todo[i] = ring[(Shown - Len(todo)) + i]
      BY <2>2 DEF Linked
    <3>3. QED
      BY <1>9, <3>1, <3>2
  <2>10. Len(periodQ') <= Len(ring')
    BY <1>3, <1>9, <1>12, <2>4
  <2>11. Cardinality(Ends(Sent)') + starting' = Taken'
    BY <1>16, <2>2, <2>3, <2>6 DEF Linked, Ends
  <2>12. QED
    BY <2>2, <2>3, <2>4, <2>5, <2>6, <2>7, <2>8, <2>9, <2>10, <2>11
    DEF Linked, Live
<1>18. QED
  BY <1>15, <1>16, <1>17 DEF IInv

\* The first ring is read, and the loop is entered.
LEMMA StartSteps == ASSUME IInv, LoadRing \/ Subscribe PROVE IInv'
<1>1. /\ TypeOK /\ Ordered /\ Len(ring) \in Nat /\ Len(periodQ) \in Nat
      /\ Len(todo) \in Nat
  BY Facts
<1>2. /\ UNCHANGED <<ring, gap, periodQ, outbox, slot, lookAhead, last, cancel,
                     trig, starting, eventC, history>>
      /\ pc \in {"init", "subscribe"} /\ pc' \in {"subscribe", "loop"}
      /\ \/ pc = "init" /\ pc' = "subscribe" /\ todo = <<>> /\ todo' = ring
         \/ pc = "subscribe" /\ pc' = "loop" /\ todo = <<>> /\ todo' = todo
  BY DEF LoadRing, Subscribe
<1>3. Quiet
  BY <1>2 DEF IInv, TInv
<1>4. TInv'
  <2>1. TypeOK'
    BY <1>1, <1>2 DEF TypeOK
  <2>2. Ordered' /\ cancel' <= Len(trig)' /\ OneLiveTrigger'
        /\ (\A i \in 1 .. Len(periodQ)' : periodQ'[i] \in 0 .. Len(ring)')
    BY <1>2 DEF IInv, TInv, OneLiveTrigger, Ordered
  <2>3. pc' \in {"init", "subscribe"} => Quiet'
    BY <1>2, <1>3 DEF Quiet
  <2>4. QED
    BY <2>1, <2>2, <2>3 DEF TInv
<1>5. Counted' /\ Sent' = Sent
  BY <1>2, CountedKept
<1>6. ASSUME gap' = 0 PROVE Linked'
  <2>1. Linked
    BY <1>2, <1>6 DEF IInv
  <2>2. Len(periodQ) = 0 /\ Len(trig) = 0 /\ Shown = Len(ring) /\ Shown' = Shown
        /\ Len(todo) = 0
    BY <1>1, <1>2, <1>3 DEF Quiet, Shown
  <2>3. Taken' = Taken
    <3>1. CASE pc = "init"
      <4>1. Taken = 0
        BY <3>1 DEF Taken
      <4>2. Taken' = Shown' - Len(todo')
        BY <1>2, <3>1 DEF Taken
      <4>3. Len(todo') = Len(ring)
        BY <1>2, <3>1
      <4>4. QED
        BY <1>1, <2>2, <4>1, <4>2, <4>3
    <3>2. CASE pc = "subscribe"
      <4>1. Taken = Shown - Len(todo)
        BY <3>2 DEF Taken
      <4>2. Taken' = Shown'
        BY <1>2, <3>2 DEF Taken
      <4>3. QED
        BY <1>1, <2>2, <4>1, <4>2
    <3>3. QED
      BY <1>2, <3>1, <3>2
  <2>4. last' = Known(Taken)' /\ Cardinality(Ends(Sent)') + starting' = Taken'
    BY <1>2, <1>5, <2>1, <2>3 DEF Linked, Known, Ends
  <2>5. /\ Len(todo') <= Shown'
        /\ \A i \in 1 .. Len(todo') : todo'[i] = ring'[(Shown' - Len(todo')) + i]
    <3>1. CASE pc = "init"
      <4>1. todo' = ring /\ ring' = ring
        BY <1>2, <3>1
      <4>2. \A i \in 1 .. Len(ring) : (Shown' - Len(ring)) + i = i
        BY <1>1, <2>2
      <4>3. QED
        BY <1>1, <2>2, <4>1, <4>2
    <3>2. CASE pc = "subscribe"
      <4>1. Len(todo') = 0
        BY <1>2, <2>2, <3>2
      <4>2. QED
        BY <1>1, <2>2, <4>1
    <3>3. QED
      BY <1>2, <3>1, <3>2
  <2>6. /\ Len(periodQ') = 0 /\ Len(trig') = 0 /\ Len(ring') \in Nat
    BY <1>1, <1>2, <2>2
  <2>7. /\ Len(periodQ') <= Len(ring')
        /\ \A i \in 1 .. Len(periodQ') : periodQ'[i] = Shown' + i
        /\ todo' # <<>> => \A k \in 1 .. Len(trig') : ~Live(k)'
        /\ \A k \in 1 .. Len(trig') :
             Live(k)' /\ trig'[k].start # 0 => trig'[k].start > last'.finish
    BY <2>6
  <2>8. QED
    BY <2>4, <2>5, <2>7 DEF Linked
<1>7. QED
  BY <1>4, <1>5, <1>6 DEF IInv

\* A slot or a look-ahead arrives in the loop: on_latest.
LEMMA LatestSteps == ASSUME IInv, OnSlot \/ OnLookAhead PROVE IInv'
<1>1. /\ TypeOK /\ cancel <= Len(trig) /\ Len(trig) \in Nat
      /\ \A k \in 1 .. Len(trig) : trig[k].ctx = "live" => cancel = k
  BY Facts
<1>2. /\ UNCHANGED <<ring, gap, periodQ, pc, todo, last, starting, eventC, history>>
      /\ pc = "loop" /\ todo = <<>> /\ outbox = 0
      /\ on_latest(slot', lookAhead', last.finish, cancel, trig)
      /\ slot' \in Nat /\ lookAhead' \in Nat
  <2>1. CASE OnSlot
    <3>1. lookAhead' = lookAhead /\ slot' \in 1 .. MaxSlot
      BY <2>1 DEF OnSlot
    <3>2. on_latest(slot', lookAhead', last.finish, cancel, trig)
      BY <2>1, <3>1 DEF OnSlot, on_latest
    <3>3. QED
      BY <1>1, <2>1, <3>1, <3>2, PipelineScheduleAssumption
      DEF OnSlot, Selecting, TypeOK
  <2>2. CASE OnLookAhead
    <3>1. slot' = slot /\ lookAhead' \in LookAheads
      BY <2>2 DEF OnLookAhead
    <3>2. on_latest(slot', lookAhead', last.finish, cancel, trig)
      BY <2>2, <3>1 DEF OnLookAhead, on_latest
    <3>3. QED
      BY <1>1, <2>2, <3>1, <3>2, PipelineScheduleAssumption
      DEF OnLookAhead, Selecting, TypeOK
  <2>3. QED
    BY <2>1, <2>2
<1>3. trig \in Seq(Trigger) /\ cancel \in Nat /\ last.finish \in Nat
  BY <1>1 DEF TypeOK, Period
<1>4. /\ trig' \in Seq(Trigger) /\ cancel' \in Nat /\ cancel' <= Len(trig')
      /\ outbox' \in Nat
      /\ \A k \in 1 .. Len(trig') : trig'[k].ctx = "live" => cancel' = k
      /\ \/ trig' = trig /\ cancel' = cancel /\ outbox' = 0
         \/ /\ Len(trig') = Len(trig) + 1
            /\ outbox' # 0 /\ outbox' = Len(trig')
            /\ \A k \in 1 .. Len(trig) : trig'[k].ctx # "live"
            /\ trig'[Len(trig) + 1].start # 0 =>
                  trig'[Len(trig) + 1].start > last.finish
  BY <1>1, <1>2, <1>3, LatestEffect
<1>5. TInv'
  <2>1. TypeOK'
    BY <1>1, <1>2, <1>4 DEF TypeOK
  <2>2. OneLiveTrigger'
    BY <1>4, TriggersKept
  <2>3. Ordered' /\ (\A i \in 1 .. Len(periodQ)' : periodQ'[i] \in 0 .. Len(ring)')
    BY <1>2 DEF IInv, TInv, Ordered
  <2>4. QED
    BY <1>2, <1>4, <2>1, <2>2, <2>3 DEF TInv
<1>6. Counted' /\ Sent' = Sent
  BY <1>2, <1>4, CountedKept
<1>7. ASSUME gap' = 0 PROVE Linked'
  <2>1. Linked
    BY <1>2, <1>7 DEF IInv
  <2>2. Shown' = Shown /\ Taken' = Taken /\ Known(Taken)' = Known(Taken)
        /\ Ends(Sent)' = Ends(Sent)
    BY <1>2, <1>6 DEF Shown, Taken, Known, Ends
  <2>3. \A k \in 1 .. Len(trig') :
           Live(k)' /\ trig'[k].start # 0 => trig'[k].start > last.finish
    <3>1. CASE trig' = trig
      BY <2>1, <3>1 DEF Linked, Live
    <3>2. CASE trig' # trig
      <4>1. ASSUME NEW k \in 1 .. Len(trig'), trig'[k].ctx = "live"
            PROVE  k = Len(trig) + 1
        BY <1>1, <1>4, <3>2, <4>1
      <4>2. QED
        BY <1>4, <3>2, <4>1 DEF Live
    <3>3. QED
      BY <3>1, <3>2
  <2>4. QED
    BY <1>2, <2>1, <2>2, <2>3 DEF Linked
<1>8. QED
  BY <1>2, <1>5, <1>6, <1>7 DEF IInv

\* A ring arrives: the current trigger is cancelled.
LEMMA OnPeriodStep == ASSUME IInv, OnPeriod PROVE IInv'
<1>1. /\ TypeOK /\ cancel <= Len(trig) /\ Len(trig) \in Nat
      /\ \A k \in 1 .. Len(trig) : trig[k].ctx = "live" => cancel = k
      /\ \A i \in 1 .. Len(periodQ) : periodQ[i] \in 0 .. Len(ring)
      /\ Len(ring) \in Nat /\ Len(periodQ) \in Nat
  BY Facts
<1>2. /\ UNCHANGED <<ring, gap, pc, outbox, slot, lookAhead, last, starting,
                     eventC, history>>
      /\ pc = "loop" /\ todo = <<>> /\ outbox = 0 /\ periodQ # <<>>
      /\ todo' = SubSeq(ring, 1, Head(periodQ)) /\ periodQ' = Tail(periodQ)
      /\ trig' = append_cancel(cancel, trig) /\ cancel' = 0
  BY DEF OnPeriod, Selecting
<1>3. /\ trig \in Seq(Trigger) /\ cancel \in Nat /\ ring \in Seq(Period)
      /\ periodQ \in Seq(Nat)
  BY <1>1 DEF TypeOK
<1>4. /\ trig' \in Seq(Trigger) /\ Len(trig') = Len(trig)
      /\ \A k \in 1 .. Len(trig) : trig'[k].ctx = "live" =>
            k # cancel /\ trig[k].ctx = "live"
  BY <1>1, <1>2, <1>3, CancelEffect
<1>5. \A k \in 1 .. Len(trig') : trig'[k].ctx # "live"
  BY <1>1, <1>4
<1> DEFINE h == Head(periodQ)
<1>6. /\ h = periodQ[1] /\ Len(periodQ) \in Nat \ {0}
      /\ periodQ' \in Seq(Nat) /\ Len(periodQ') = Len(periodQ) - 1
      /\ \A i \in 1 .. Len(periodQ') : periodQ'[i] = periodQ[i + 1]
  BY <1>2, <1>3, TailTyped
<1>7. h \in 0 .. Len(ring)
  BY <1>1, <1>6
<1> HIDE DEF h
<1>8. /\ todo' \in Seq(Period) /\ Len(todo') = h
      /\ \A i \in 1 .. h : todo'[i] = ring[i]
  <2> DEFINE w == SubSeq(ring, 1, h)
  <2>1. todo' = w
    BY <1>2 DEF h
  <2>2. \A i \in 1 .. h : ring[i] \in Period
    BY <1>1, <1>3, <1>7, ElementOfSeq
  <2>3. w \in Seq(Period) /\ Len(w) = h /\ \A i \in 1 .. h : w[i] = ring[i]
    BY <1>1, <1>3, <1>7, SubSeqProperties
  <2> HIDE DEF w
  <2>4. QED
    BY <2>1, <2>3
<1>9. TInv'
  <2>1. TypeOK'
    BY <1>1, <1>2, <1>4, <1>6, <1>8 DEF TypeOK
  <2>2. OneLiveTrigger'
    BY <1>4, <1>5, TriggersKept
  <2>3. Ordered'
    BY <1>2 DEF IInv, TInv, Ordered
  <2>4. \A i \in 1 .. Len(periodQ') : periodQ'[i] \in 0 .. Len(ring')
    <3> TAKE i \in 1 .. Len(periodQ')
    <3>1. i + 1 \in 1 .. Len(periodQ) /\ periodQ'[i] = periodQ[i + 1]
      BY <1>1, <1>6
    <3>2. QED
      BY <1>1, <1>2, <3>1
  <2>5. cancel' <= Len(trig')
    BY <1>1, <1>2, <1>4
  <2>6. QED
    BY <1>2, <2>1, <2>2, <2>3, <2>4, <2>5 DEF TInv
<1>10. Counted' /\ Sent' = Sent
  BY <1>2, <1>4, CountedKept
<1>11. ASSUME gap' = 0 PROVE Linked'
  <2>1. Linked
    BY <1>2, <1>11 DEF IInv
  <2>2. h = Shown + 1 /\ Shown \in Nat /\ Shown' = Shown + 1
    <3>1. 1 \in 1 .. Len(periodQ)
      BY <1>6
    <3>2. h = Shown + 1
      BY <1>6, <2>1, <3>1 DEF Linked
    <3>3. Shown' = Len(ring) - Len(periodQ')
      BY <1>2 DEF Shown
    <3>4. Len(periodQ) <= Len(ring)
      BY <2>1 DEF Linked
    <3>5. QED
      BY <1>1, <1>6, <3>2, <3>3, <3>4 DEF Shown
  <2>3. todo' # <<>>
    BY <1>8, <2>2, EmptySeq
  <2>4. Taken = Shown
    BY <1>2 DEF Taken
  <2>5. Taken' = Shown
    <3>1. Taken' = Shown' - 1
      BY <1>2, <2>3 DEF Taken
    <3>2. QED
      BY <2>2, <3>1
  <2>6. last' = Known(Taken)'
    BY <1>2, <2>1, <2>4, <2>5 DEF Linked, Known
  <2>7. Cardinality(Ends(Sent)') + starting' = Taken'
    BY <1>2, <1>10, <2>1, <2>4, <2>5 DEF Linked, Ends
  <2>8. /\ Len(periodQ') <= Len(ring')
        /\ \A i \in 1 .. Len(periodQ') : periodQ'[i] = Shown' + i
    <3>1. Len(periodQ') <= Len(ring')
      BY <1>1, <1>2, <1>6, <2>1 DEF Linked
    <3>2. ASSUME NEW i \in 1 .. Len(periodQ') PROVE periodQ'[i] = Shown' + i
      <4>1. i + 1 \in 1 .. Len(periodQ) /\ periodQ'[i] = periodQ[i + 1]
        BY <1>1, <1>6
      <4>2. periodQ[i + 1] = Shown + (i + 1)
        BY <2>1, <4>1 DEF Linked
      <4>3. QED
        BY <2>2, <4>1, <4>2
    <3>3. QED
      BY <3>1, <3>2
  <2>9. /\ Len(todo') <= Shown'
        /\ \A i \in 1 .. Len(todo') : todo'[i] = ring'[(Shown' - Len(todo')) + i]
    <3>1. Len(todo') = Shown'
      BY <1>8, <2>2
    <3>2. \A i \in 1 .. Len(todo') : (Shown' - Len(todo')) + i = i
      BY <2>2, <3>1
    <3>3. \A i \in 1 .. Len(todo') : todo'[i] = ring'[i]
      BY <1>2, <1>8
    <3>4. QED
      BY <2>2, <3>1, <3>2, <3>3
  <2>10. \A k \in 1 .. Len(trig') : ~Live(k)'
    BY <1>5 DEF Live
  <2>11. QED
    BY <2>6, <2>7, <2>8, <2>9, <2>10 DEF Linked
<1>12. QED
  BY <1>2, <1>9, <1>10, <1>11 DEF IInv

\* The slots of a period are numbers.
LEMMA SlotsTyped ==
  ASSUME IInv
  PROVE  \A i \in 1 .. Len(ring) : ring[i].start \in Nat /\ ring[i].finish \in Nat
<1>1. ring \in Seq(Period)
  BY Facts DEF TypeOK
<1>2. \A i \in 1 .. Len(ring) : ring[i] \in Period
  BY <1>1, ElementOfSeq
<1>3. QED
  BY <1>2 DEF Period

\* A later period starts later.
LEMMA LaterStarts ==
  ASSUME IInv, NEW n \in 1 .. Len(ring), NEW m \in 0 .. Len(ring), m < n
  PROVE  Known(m).start < ring[n].start
<1>1. /\ Ordered /\ ring \in Seq(Period) /\ Len(ring) \in Nat
  BY Facts DEF TypeOK
<1>2. \A i \in 1 .. Len(ring) : ring[i].start \in Nat /\ ring[i].finish \in Nat
  BY SlotsTyped
<1>3. CASE m = 0
  <2>1. Known(m).start = 0 /\ 1 <= ring[n].start
    BY <1>1, <1>3 DEF Known, Ordered
  <2>2. QED
    BY <1>2, <2>1
<1>4. CASE m # 0
  <2>1. m \in 1 .. Len(ring) /\ Known(m) = ring[m]
    BY <1>1, <1>4 DEF Known
  <2>2. ring[m].start <= ring[m].finish /\ ring[m].finish < ring[n].start
    BY <1>1, <2>1 DEF Ordered
  <2>3. QED
    BY <1>2, <2>1, <2>2
<1>5. QED
  BY <1>3, <1>4

\* What on_period finds: before the loop every entry is new, in the loop the
\* last one only.
LEMMA NextEntry ==
  ASSUME IInv, Linked, pc \in {"subscribe", "loop"}, todo # <<>>
  PROVE  /\ Len(todo) >= 1 /\ Shown \in Nat /\ Shown <= Len(ring)
         /\ pc = "subscribe" => /\ IsNew(Head(todo)) /\ Taken = Shown - Len(todo)
                                /\ Head(todo) = Known(Taken + 1)
         /\ pc = "loop" => /\ IsNew(Head(todo)) <=> Len(todo) = 1
                           /\ Taken = Shown - 1
                           /\ Len(todo) = 1 => Head(todo) = Known(Shown)
<1>1. /\ todo \in Seq(Period) /\ Len(ring) \in Nat /\ Len(periodQ) \in Nat
      /\ Len(todo) \in Nat /\ ring \in Seq(Period)
  BY Facts DEF TypeOK
<1>2. Len(todo) >= 1 /\ Head(todo) = todo[1]
  BY <1>1, TailTyped
<1>3. Shown \in Nat /\ Shown <= Len(ring) /\ Len(todo) <= Shown
  BY <1>1 DEF Linked, Shown
<1> DEFINE n == (Shown - Len(todo)) + 1
<1>4. n \in 1 .. Len(ring) /\ n \in 1 .. Shown /\ Head(todo) = ring[n]
      /\ Known(n) = ring[n] /\ n # 0
  <2>1. n \in 1 .. Len(ring) /\ n \in 1 .. Shown /\ n # 0
    BY <1>1, <1>2, <1>3
  <2>2. 1 \in 1 .. Len(todo)
    BY <1>1, <1>2
  <2>3. todo[1] = ring[n]
    BY <2>2 DEF Linked
  <2>4. QED
    BY <1>2, <2>1, <2>3 DEF Known
<1>5. CASE pc = "subscribe"
  <2>1. Taken = Shown - Len(todo)
    BY <1>5 DEF Taken
  <2>2. Taken \in 0 .. Len(ring) /\ Taken < n /\ n = Taken + 1
    BY <1>1, <1>2, <1>3, <2>1
  <2>3. Known(Taken).start < ring[n].start
    BY <1>4, <2>2, LaterStarts
  <2>4. IsNew(Head(todo))
    BY <1>4, <2>3 DEF IsNew, Linked
  <2>5. QED
    BY <1>2, <1>3, <1>4, <1>5, <2>1, <2>2, <2>4
<1>6. CASE pc = "loop"
  <2>1. Taken = Shown - 1
    BY <1>6 DEF Taken
  <2>2. CASE Len(todo) = 1
    <3>1. n = Shown /\ Taken \in 0 .. Len(ring) /\ Taken < n
      BY <1>1, <1>2, <1>3, <2>1, <2>2
    <3>2. Known(Taken).start < ring[n].start
      BY <1>4, <3>1, LaterStarts
    <3>3. IsNew(Head(todo))
      BY <1>4, <3>2 DEF IsNew, Linked
    <3>4. QED
      BY <1>2, <1>3, <1>4, <1>6, <2>1, <2>2, <3>1, <3>3
  <2>3. CASE Len(todo) # 1
    <3>1. Taken \in 1 .. Len(ring) /\ n <= Taken
      <4>0. Len(todo) \in Nat /\ Len(todo) <= Shown /\ Shown \in Nat
        BY <1>1, <1>3
      <4>1. Len(todo) >= 2 /\ Shown >= 2
        <5> HIDE DEF n
        <5>1. Len(todo) >= 2
          BY <1>2, <2>3, <4>0
        <5>2. QED
          BY <4>0, <5>1
      <4>2. Shown - 1 \in 1 .. Len(ring) /\ n <= Shown - 1
        BY <1>1, <1>3, <4>1
      <4>3. QED
        BY <2>1, <4>2
    <3>2. Known(Taken) = ring[Taken]
      BY <3>1 DEF Known
    <3>3. ring[n].start <= ring[Taken].start
      <4>0. ring[n].start \in Nat /\ ring[Taken].start \in Nat
        BY <1>4, <3>1, SlotsTyped
      <4>1. CASE n = Taken
        BY <4>0, <4>1
      <4>2. CASE n # Taken
        <5>1. n < Taken /\ n \in 0 .. Len(ring)
          BY <1>1, <1>4, <3>1, <4>2
        <5>2. Known(n).start < ring[Taken].start
          BY <3>1, <5>1, LaterStarts
        <5>3. QED
          BY <1>4, <4>0, <5>2
      <4>3. QED
        BY <4>1, <4>2
    <3>4. ~IsNew(Head(todo))
      <4>1. ring[n].start \in Nat /\ ring[Taken].start \in Nat
        BY <1>4, <3>1, SlotsTyped
      <4>2. last = ring[Taken]
        BY <3>2 DEF Linked
      <4>3. QED
        BY <1>4, <3>3, <4>1, <4>2 DEF IsNew
    <3>5. QED
      BY <1>2, <1>3, <1>6, <2>1, <2>3, <3>4
  <2>4. QED
    BY <2>2, <2>3
<1>7. QED
  BY <1>5, <1>6

\* One iteration of on_period.
LEMMA PeriodStepStep == ASSUME IInv, PeriodStep PROVE IInv'
<1>1. /\ TypeOK /\ cancel <= Len(trig) /\ Len(trig) \in Nat
      /\ \A k \in 1 .. Len(trig) : trig[k].ctx = "live" => cancel = k
      /\ Len(ring) \in Nat /\ Len(periodQ) \in Nat
      /\ Len(todo) \in Nat
      /\ Cardinality(Ends(Sent)) \in Nat
  BY Facts
<1> DEFINE p == Head(todo)
<1>2. /\ UNCHANGED <<ring, gap, periodQ, pc, slot, lookAhead, eventC, history>>
      /\ pc \in {"subscribe", "loop"} /\ todo # <<>> /\ outbox = 0
      /\ todo' = Tail(todo)
      /\ \/ /\ IsNew(p) /\ last' = p /\ starting' = starting + 1
            /\ on_latest(slot, lookAhead, last'.finish, cancel, trig)
         \/ /\ ~IsNew(p) /\ UNCHANGED <<last, starting, trig, cancel, outbox>>
  BY DEF PeriodStep
<1>3. /\ trig \in Seq(Trigger) /\ cancel \in Nat /\ last \in Period
      /\ todo \in Seq(Period) /\ slot \in Nat /\ lookAhead \in Nat
      /\ starting \in Nat
  BY <1>1 DEF TypeOK
<1>4. /\ p \in Period /\ todo' \in Seq(Period) /\ Len(todo') = Len(todo) - 1
      /\ \A i \in 1 .. Len(todo') : todo'[i] = todo[i + 1]
      /\ Len(todo) \in Nat \ {0}
  BY <1>2, <1>3, TailTyped
<1> HIDE DEF p
<1>5. /\ trig' \in Seq(Trigger) /\ cancel' \in Nat /\ cancel' <= Len(trig')
      /\ outbox' \in Nat
      /\ \A k \in 1 .. Len(trig') : trig'[k].ctx = "live" => cancel' = k
      /\ \/ trig' = trig /\ cancel' = cancel /\ outbox' = 0
         \/ /\ slot # 0 /\ IsNew(p) /\ Len(trig') = Len(trig) + 1
            /\ outbox' # 0 /\ outbox' = Len(trig')
            /\ \A k \in 1 .. Len(trig) : trig'[k].ctx # "live"
            /\ trig'[Len(trig) + 1].start # 0 =>
                  trig'[Len(trig) + 1].start > p.finish
  <2>1. CASE IsNew(p)
    <3>1. last' = p /\ p.finish \in Nat
      BY <1>2, <1>4, <2>1 DEF Period
    <3>2. on_latest(slot, lookAhead, p.finish, cancel, trig)
      BY <1>2, <2>1, <3>1 DEF on_latest
    <3>3. QED
      BY <1>1, <1>3, <2>1, <3>1, <3>2, LatestEffect
  <2>2. CASE ~IsNew(p)
    BY <1>1, <1>2, <1>3, <2>2
  <2>3. QED
    BY <2>1, <2>2
<1>6. last' \in Period /\ starting' \in Nat
  BY <1>2, <1>3, <1>4
<1>7. TInv'
  <2>1. TypeOK'
    BY <1>1, <1>2, <1>4, <1>5, <1>6 DEF TypeOK
  <2>2. OneLiveTrigger'
    BY <1>5, TriggersKept
  <2>3. Ordered' /\ (\A i \in 1 .. Len(periodQ)' : periodQ'[i] \in 0 .. Len(ring)')
    BY <1>2 DEF IInv, TInv, Ordered
  <2>4. pc' \in {"init", "subscribe"} => Quiet'
    <3>1. CASE pc = "subscribe"
      <4>1. Quiet
        BY <3>1 DEF IInv, TInv
      <4>2. trig' = trig /\ cancel' = cancel /\ outbox' = 0
        BY <1>5, <4>1 DEF Quiet
      <4>3. QED
        BY <1>2, <3>1, <4>1, <4>2 DEF Quiet
    <3>2. CASE pc = "loop"
      BY <1>2, <3>2
    <3>3. QED
      BY <1>2, <3>1, <3>2
  <2>5. QED
    BY <1>5, <2>1, <2>2, <2>3, <2>4 DEF TInv
<1>8. Counted' /\ Sent' = Sent
  BY <1>2, <1>5, CountedKept
<1>9. ASSUME gap' = 0 PROVE Linked'
  <2>1. Linked
    BY <1>2, <1>9 DEF IInv
  <2>2. /\ Len(todo) >= 1 /\ Shown \in Nat /\ Shown <= Len(ring)
        /\ pc = "subscribe" => /\ IsNew(p) /\ Taken = Shown - Len(todo)
                               /\ p = Known(Taken + 1)
        /\ pc = "loop" => /\ IsNew(p) <=> Len(todo) = 1
                          /\ Taken = Shown - 1
                          /\ Len(todo) = 1 => p = Known(Shown)
    BY <1>2, <2>1, NextEntry DEF p
  <2>3. Shown' = Shown /\ (\A n : Known(n)' = Known(n)) /\ Ends(Sent)' = Ends(Sent)
    BY <1>2, <1>8 DEF Shown, Known, Ends
  <2>4. todo' = <<>> <=> Len(todo) = 1
    BY <1>4, EmptySeq
  <2>5. Taken' = IF IsNew(p) THEN Taken + 1 ELSE Taken
    <3>1. CASE pc = "subscribe"
      <4>1. Taken' = Shown - Len(todo')
        BY <1>2, <2>3, <3>1 DEF Taken
      <4>2. QED
        BY <1>1, <1>4, <2>2, <3>1, <4>1
    <3>2. CASE pc = "loop"
      <4>1. Taken' = IF todo' = <<>> THEN Shown ELSE Shown - 1
        BY <1>2, <2>3, <3>2 DEF Taken
      <4>2. QED
        BY <2>2, <2>4, <3>2, <4>1
    <3>3. QED
      BY <1>2, <3>1, <3>2
  <2>6. last' = Known(Taken)'
    <3>1. CASE IsNew(p)
      <4>1. last' = p /\ Taken' = Taken + 1
        BY <1>2, <2>5, <3>1
      <4>2. p = Known(Taken + 1)
        <5>1. CASE pc = "subscribe"
          BY <2>2, <5>1
        <5>2. CASE pc = "loop"
          <6>1. p = Known(Shown) /\ Shown = Taken + 1
            BY <2>2, <3>1, <5>2
          <6>2. QED
            BY <6>1
        <5>3. QED
          BY <1>2, <5>1, <5>2
      <4>3. QED
        BY <1>2, <4>1, <4>2 DEF Known
    <3>2. CASE ~IsNew(p)
      BY <1>2, <2>1, <2>3, <2>5, <3>2 DEF Linked, Known
    <3>3. QED
      BY <3>1, <3>2
  <2>7. Cardinality(Ends(Sent)') + starting' = Taken'
    <3>1. Cardinality(Ends(Sent)) + starting = Taken
      BY <2>1 DEF Linked
    <3>2. starting' = IF IsNew(p) THEN starting + 1 ELSE starting
      BY <1>2
    <3>3. QED
      BY <1>1, <1>3, <2>3, <2>5, <3>1, <3>2
  <2>8. /\ Len(todo') <= Shown'
        /\ \A i \in 1 .. Len(todo') : todo'[i] = ring'[(Shown' - Len(todo')) + i]
    <3>1. Len(todo') <= Shown'
      BY <1>1, <1>4, <2>1, <2>2, <2>3 DEF Linked
    <3>2. ASSUME NEW i \in 1 .. Len(todo')
          PROVE  todo'[i] = ring'[(Shown' - Len(todo')) + i]
      <4>1. i + 1 \in 1 .. Len(todo) /\ todo'[i] = todo[i + 1]
        BY <1>4
      <4>2. todo[i + 1] = ring[(Shown - Len(todo)) + (i + 1)]
        BY <2>1, <4>1 DEF Linked
      <4>3. (Shown - Len(todo)) + (i + 1) = (Shown' - Len(todo')) + i
        BY <1>4, <2>2, <2>3
      <4>4. QED
        BY <1>2, <4>1, <4>2, <4>3
    <3>3. QED
      BY <3>1, <3>2
  <2>9. /\ Len(periodQ') <= Len(ring')
        /\ \A i \in 1 .. Len(periodQ') : periodQ'[i] = Shown' + i
    BY <1>2, <2>1, <2>3 DEF Linked
  <2>10. \A k \in 1 .. Len(trig) : trig[k].ctx # "live"
    BY <1>2, <2>1 DEF Linked, Live
  <2>11. todo' # <<>> => trig' = trig
    <3>1. CASE pc = "subscribe"
      <4>1. slot = 0
        BY <3>1 DEF IInv, TInv, Quiet
      <4>2. QED
        BY <1>5, <4>1
    <3>2. CASE pc = "loop"
      BY <1>5, <2>2, <2>4, <3>2
    <3>3. QED
      BY <1>2, <3>1, <3>2
  <2>12. todo' # <<>> => \A k \in 1 .. Len(trig') : ~Live(k)'
    BY <2>10, <2>11 DEF Live
  <2>13. \A k \in 1 .. Len(trig') :
           Live(k)' /\ trig'[k].start # 0 => trig'[k].start > last'.finish
    <3>1. CASE trig' = trig
      BY <2>10, <3>1 DEF Live
    <3>2. CASE trig' # trig
      <4>1. ASSUME NEW k \in 1 .. Len(trig'), trig'[k].ctx = "live"
            PROVE  k = Len(trig) + 1
        BY <1>1, <1>5, <3>2, <4>1
      <4>2. last' = p
        BY <1>2, <1>5, <3>2
      <4>3. QED
        BY <1>5, <3>2, <4>1, <4>2 DEF Live
    <3>3. QED
      BY <3>1, <3>2
  <2>14. QED
    BY <2>6, <2>7, <2>8, <2>9, <2>12, <2>13 DEF Linked
<1>10. QED
  BY <1>2, <1>7, <1>8, <1>9 DEF IInv

\* What Linked says does not depend on how the sent events are split between
\* history and eventC, nor on the outbox.
LEMMA LinkedKept ==
  ASSUME Linked, UNCHANGED <<ring, periodQ, todo, last, pc, trig>>,
         Cardinality(Ends(Sent)') + starting' = Cardinality(Ends(Sent)) + starting
  PROVE  Linked'
<1>1. Shown' = Shown /\ Taken' = Taken /\ Known(Taken)' = Known(Taken)
  BY DEF Shown, Taken, Known
<1>2. QED
  BY <1>1 DEF Linked, Live

\* The same for the type invariant.
LEMMA TInvKept ==
  ASSUME IInv, UNCHANGED <<ring, gap, periodQ, pc, todo, slot, lookAhead, last,
                           cancel, trig>>,
         outbox' \in Nat, starting' \in Nat, eventC' \in Seq(Nat),
         Len(eventC') <= EventCap, history' \in Seq(Nat),
         outbox' = 0 \/ outbox' = outbox
  PROVE  TInv'
<1>1. TypeOK'
  BY Facts DEF TypeOK
<1>2. Ordered' /\ cancel' <= Len(trig)' /\ OneLiveTrigger'
      /\ (\A i \in 1 .. Len(periodQ)' : periodQ'[i] \in 0 .. Len(ring)')
  BY DEF IInv, TInv, OneLiveTrigger, Ordered
<1>3. pc' \in {"init", "subscribe"} => Quiet'
  BY DEF IInv, TInv, Quiet
<1>4. QED
  BY <1>1, <1>2, <1>3 DEF TInv

\* The home sends its trigger, or a period goroutine its end.
LEMMA SendSteps == ASSUME IInv, SendEvent \/ PeriodFinish PROVE IInv'
<1>1. /\ TypeOK /\ Sent \in Seq(Nat) /\ Len(trig) \in Nat
      /\ Cardinality(Issued(Sent)) \in Nat /\ Cardinality(Ends(Sent)) \in Nat
  BY Facts
<1>2. /\ eventC \in Seq(Nat) /\ history \in Seq(Nat) /\ outbox \in Nat
      /\ starting \in Nat /\ EventCap \in Nat /\ Len(eventC) \in Nat
  BY <1>1, PipelineScheduleAssumption, LenProperties DEF TypeOK
<1>3. PICK e \in Nat :
         /\ eventC' = Append(eventC, e) /\ Len(eventC) < EventCap
         /\ UNCHANGED <<ring, gap, periodQ, pc, todo, slot, lookAhead, last,
                        cancel, trig, history>>
         /\ \/ /\ pc # "exit" /\ outbox # 0 /\ e = outbox /\ outbox' = 0
               /\ starting' = starting
            \/ /\ e = FINISH /\ outbox' = outbox
               /\ starting > 0 /\ starting' = starting - 1
  <2>1. CASE SendEvent
    <3>1. /\ eventC' = Append(eventC, outbox) /\ Len(eventC) < EventCap
          /\ UNCHANGED <<ring, gap, periodQ, pc, todo, slot, lookAhead, last,
                         cancel, trig, history>>
          /\ pc # "exit" /\ outbox # 0 /\ outbox' = 0 /\ starting' = starting
      BY <2>1 DEF SendEvent
    <3>2. QED
      BY <1>2, <3>1
  <2>2. CASE PeriodFinish
    <3>1. /\ eventC' = Append(eventC, FINISH) /\ Len(eventC) < EventCap
          /\ UNCHANGED <<ring, gap, periodQ, pc, todo, slot, lookAhead, last,
                         cancel, trig, history>>
          /\ outbox' = outbox /\ starting > 0 /\ starting' = starting - 1
          /\ FINISH \in Nat
      BY <2>2 DEF PeriodFinish, home, FINISH
    <3>2. QED
      BY <3>1
  <2>3. QED
    BY <2>1, <2>2
<1>4. /\ eventC' \in Seq(Nat) /\ Len(eventC') = Len(eventC) + 1
  BY <1>2, <1>3, AppendTyped
<1>5. Sent' = Append(Sent, e)
  <2>1. Sent' = history \o Append(eventC, e)
    BY <1>3 DEF Sent
  <2>2. QED
    BY <1>2, <2>1, ConcatAppend DEF Sent
<1>6. /\ InOrder(Sent)
      /\ pc # "exit" =>
            \/ outbox = 0 /\ Cardinality(Issued(Sent)) = Len(trig)
            \/ /\ outbox # 0 /\ outbox = Len(trig)
               /\ Cardinality(Issued(Sent)) + 1 = Len(trig)
  BY DEF IInv, Counted
<1>7. e # FINISH => e = Cardinality(Issued(Sent)) + 1
  BY <1>3, <1>6
<1>a. PICK s : s = Sent
  OBVIOUS
<1>b. PICK t : t = Sent'
  OBVIOUS
<1>8. s \in Seq(Nat) /\ t = Append(s, e) /\ InOrder(s)
      /\ (e # FINISH => e = Cardinality(Issued(s)) + 1)
  BY <1>1, <1>5, <1>6, <1>7, <1>a, <1>b
<1>9. /\ InOrder(t)
      /\ e # FINISH => /\ Cardinality(Issued(t)) = Cardinality(Issued(s)) + 1
                       /\ Cardinality(Ends(t)) = Cardinality(Ends(s))
      /\ e = FINISH => /\ Cardinality(Issued(t)) = Cardinality(Issued(s))
                       /\ Cardinality(Ends(t)) = Cardinality(Ends(s)) + 1
  <2>1. s \in Seq(Nat)
    BY <1>8
  <2>2. t = Append(s, e)
    BY <1>8
  <2>3. InOrder(s)
    BY <1>8
  <2>4. e # FINISH => e = Cardinality(Issued(s)) + 1
    BY <1>8
  <2>5. InOrder(t)
    BY <2>1, <2>2, <2>3, <2>4, EventSent, Zenon
  <2>6. e # FINISH => Cardinality(Issued(t)) = Cardinality(Issued(s)) + 1
    BY <2>1, <2>2, CountSent
  <2>7. e # FINISH => Cardinality(Ends(t)) = Cardinality(Ends(s))
    BY <2>1, <2>2, CountSent
  <2>8. e = FINISH => Cardinality(Issued(t)) = Cardinality(Issued(s))
    BY <2>1, <2>2, CountSent
  <2>9. e = FINISH => Cardinality(Ends(t)) = Cardinality(Ends(s)) + 1
    <3>1. SUFFICES ASSUME e = FINISH
                   PROVE  Cardinality(Ends(t)) = Cardinality(Ends(s)) + 1
      OBVIOUS
    <3>2. QED
      BY <2>1, <2>2, <3>1, CountSent, Zenon
  <2>10. QED
    BY <2>5, <2>6, <2>7, <2>8, <2>9
<1>10. /\ InOrder(Sent)' /\ Issued(t) = Issued(Sent)' /\ Ends(t) = Ends(Sent)'
       /\ Issued(s) = Issued(Sent) /\ Ends(s) = Ends(Sent)
  BY <1>9, <1>a, <1>b DEF InOrder, Issued, Ends
<1>11. Counted'
  <2>1. ASSUME pc' # "exit"
        PROVE  \/ outbox' = 0 /\ Cardinality(Issued(t)) = Len(trig)
               \/ /\ outbox' # 0 /\ outbox' = Len(trig)
                  /\ Cardinality(Issued(t)) + 1 = Len(trig)
    <3>1. CASE e = FINISH
      <4>1. outbox' = outbox /\ Cardinality(Issued(t)) = Cardinality(Issued(Sent))
        BY <1>3, <1>9, <1>10, <3>1 DEF FINISH
      <4>2. QED
        BY <1>3, <1>6, <2>1, <4>1
    <3>2. CASE e # FINISH
      <4>1. outbox' = 0 /\ outbox # 0
            /\ Cardinality(Issued(t)) = Cardinality(Issued(Sent)) + 1
        BY <1>3, <1>9, <1>10, <3>2
      <4>2. QED
        BY <1>3, <1>6, <2>1, <4>1
    <3>3. QED
      BY <3>1, <3>2
  <2>2. QED
    BY <1>3, <1>10, <2>1 DEF Counted
<1>12. Cardinality(Ends(Sent)') + starting' = Cardinality(Ends(Sent)) + starting
  <2>1. CASE e = FINISH
    <3>1. starting' = starting - 1
      BY <1>3, <2>1 DEF FINISH
    <3>2. Cardinality(Ends(Sent)') = Cardinality(Ends(Sent)) + 1
      BY <1>9, <1>10, <2>1
    <3>3. QED
      BY <1>1, <1>2, <3>1, <3>2
  <2>2. CASE e # FINISH
    BY <1>3, <1>9, <1>10, <2>2
  <2>3. QED
    BY <2>1, <2>2
<1>13. gap' = 0 /\ pc' # "exit" => Linked'
  BY <1>3, <1>12, LinkedKept DEF IInv
<1>14. TInv'
  <2>1. outbox' \in Nat /\ starting' \in Nat /\ (outbox' = 0 \/ outbox' = outbox)
    BY <1>2, <1>3
  <2>2. Len(eventC') <= EventCap /\ history' \in Seq(Nat)
    BY <1>2, <1>3, <1>4
  <2>3. QED
    BY <1>3, <1>4, <2>1, <2>2, TInvKept
<1>15. QED
  BY <1>11, <1>13, <1>14 DEF IInv

\* The home takes an event and broadcasts it.
LEMMA OnEventStep == ASSUME IInv, OnEvent PROVE IInv'
<1>1. /\ TypeOK /\ eventC \in Seq(Nat) /\ history \in Seq(Nat)
  BY Facts DEF TypeOK
<1>2. /\ eventC # <<>> /\ history' = Append(history, Head(eventC))
      /\ eventC' = Tail(eventC)
      /\ UNCHANGED <<ring, gap, periodQ, pc, todo, outbox, slot, lookAhead, last,
                     cancel, trig, starting>>
  BY DEF OnEvent, home
<1>3. /\ Head(eventC) \in Nat /\ eventC' \in Seq(Nat)
      /\ Len(eventC) \in Nat \ {0} /\ Len(eventC') = Len(eventC) - 1
  BY <1>1, <1>2, TailTyped
<1>4. history' \in Seq(Nat)
  BY <1>1, <1>2, <1>3, AppendTyped
<1>5. Sent' = Sent
  <2>1. Sent' = Append(history, Head(eventC)) \o Tail(eventC)
    BY <1>2 DEF Sent
  <2>2. QED
    BY <1>1, <1>2, <2>1, MoveHead DEF Sent
<1>6. Counted' /\ Ends(Sent)' = Ends(Sent)
  BY <1>2, <1>5 DEF IInv, Counted, InOrder, Issued, Ends
<1>7. TInv'
  <2>1. Len(eventC') <= EventCap /\ outbox' \in Nat /\ starting' \in Nat
    BY <1>1, <1>2, <1>3, PipelineScheduleAssumption DEF TypeOK
  <2>2. QED
    BY <1>2, <1>3, <1>4, <2>1, TInvKept
<1>8. gap' = 0 /\ pc' # "exit" => Linked'
  BY <1>2, <1>6, LinkedKept DEF IInv
<1>9. QED
  BY <1>6, <1>7, <1>8 DEF IInv

\* Triggers lose their context or their waiter.
LEMMA TriggersEnd ==
  ASSUME IInv, UNCHANGED <<ring, gap, periodQ, pc, todo, outbox, slot, lookAhead,
                           last, starting, eventC, history>>,
         trig' \in Seq(Trigger), Len(trig') = Len(trig),
         cancel' \in Nat, cancel' <= Len(trig),
         \A k \in 1 .. Len(trig) :
            /\ trig'[k].start = trig[k].start
            /\ trig'[k].ctx = "live" => trig[k].ctx = "live" /\ cancel' = k
         ,
         pc \in {"init", "subscribe"} => trig' = trig /\ cancel' = 0
  PROVE  IInv'
<1>1. OneLiveTrigger'
  BY TriggersKept
<1>2. TInv'
  <2>1. TypeOK'
    BY Facts DEF TypeOK
  <2>2. Ordered' /\ (\A i \in 1 .. Len(periodQ)' : periodQ'[i] \in 0 .. Len(ring)')
    BY DEF IInv, TInv, Ordered
  <2>3. pc' \in {"init", "subscribe"} => Quiet'
    BY DEF IInv, TInv, Quiet
  <2>4. QED
    BY <1>1, <2>1, <2>2, <2>3 DEF TInv
<1>3. Counted' /\ Sent' = Sent
  <2>1. Sent' = Sent
    BY DEF Sent
  <2>2. QED
    BY <2>1 DEF IInv, Counted, InOrder, Issued
<1>4. ASSUME gap' = 0, pc' # "exit" PROVE Linked'
  <2>1. Linked
    BY <1>4 DEF IInv
  <2>2. Shown' = Shown /\ Taken' = Taken /\ Known(Taken)' = Known(Taken)
        /\ Ends(Sent)' = Ends(Sent)
    BY <1>3 DEF Shown, Taken, Known, Ends
  <2>3. QED
    BY <2>1, <2>2 DEF Linked, Live
<1>5. QED
  BY <1>2, <1>3, <1>4 DEF IInv

\* A waiter hands over, or a trigger times out.
LEMMA TriggerSteps ==
  ASSUME IInv, NEW k \in DOMAIN trig, OnDelete(k) \/ TimeOut(k) PROVE IInv'
<1>1. /\ TypeOK /\ cancel <= Len(trig) /\ Len(trig) \in Nat
      /\ \A i \in 1 .. Len(trig) : trig[i].ctx = "live" => cancel = i
      /\ k \in 1 .. Len(trig) /\ trig \in Seq(Trigger) /\ cancel \in Nat
  BY Facts DEF TypeOK
<1>2. CASE OnDelete(k)
  <2> DEFINE us == append_cancel(cancel, trig)
             r == [us[k] EXCEPT !.waiter = FALSE]
  <2>1. /\ us \in Seq(Trigger) /\ Len(us) = Len(trig)
        /\ \A i \in 1 .. Len(trig) : us[i].ctx = "live" =>
              i # cancel /\ trig[i].ctx = "live"
        /\ \A i \in 1 .. Len(trig) : us[i].start = trig[i].start
    BY <1>1, CancelEffect
  <2>2. /\ trig' = [us EXCEPT ![k] = r] /\ cancel' = 0 /\ pc = "loop"
        /\ UNCHANGED <<ring, gap, periodQ, pc, todo, outbox, slot, lookAhead,
                       last, starting, eventC, history>>
    BY <1>2 DEF OnDelete, Selecting
  <2> HIDE DEF us
  <2>3. us[k] \in Trigger
    BY <1>1, <2>1, ElementOfSeq
  <2>4. r \in Trigger /\ r.ctx = us[k].ctx /\ r.start = us[k].start
    BY <2>3 DEF Trigger
  <2> HIDE DEF r
  <2>5. /\ trig' \in Seq(Trigger) /\ Len(trig') = Len(trig) /\ trig'[k] = r
        /\ \A i \in 1 .. Len(trig) : i # k => trig'[i] = us[i]
    BY <1>1, <2>1, <2>2, <2>4, TriggerExcept
  <2>6. \A i \in 1 .. Len(trig) :
           /\ trig'[i].start = trig[i].start
           /\ trig'[i].ctx # "live"
    BY <1>1, <2>1, <2>4, <2>5
  <2>7. QED
    BY <1>1, <2>2, <2>5, <2>6, TriggersEnd
<1>3. CASE TimeOut(k)
  <2> DEFINE r == [trig[k] EXCEPT !.ctx = "done"]
  <2>1. /\ trig' = [trig EXCEPT ![k] = r] /\ trig[k].ctx = "live"
        /\ UNCHANGED <<ring, gap, periodQ, pc, todo, outbox, slot, lookAhead,
                       last, cancel, starting, eventC, history>>
    BY <1>3 DEF TimeOut, home
  <2>2. trig[k] \in Trigger
    BY <1>1, ElementOfSeq
  <2>3. r \in Trigger /\ r.ctx = "done" /\ r.start = trig[k].start
    BY <2>2 DEF Trigger
  <2> HIDE DEF r
  <2>4. /\ trig' \in Seq(Trigger) /\ Len(trig') = Len(trig) /\ trig'[k] = r
        /\ \A i \in 1 .. Len(trig) : i # k => trig'[i] = trig[i]
    BY <1>1, <2>1, <2>3, TriggerExcept
  <2>5. \A i \in 1 .. Len(trig) :
           /\ trig'[i].start = trig[i].start
           /\ trig'[i].ctx = "live" => trig[i].ctx = "live" /\ cancel' = i
    BY <1>1, <2>1, <2>3, <2>4
  <2>6. pc \notin {"init", "subscribe"}
    <3>1. pc \in {"init", "subscribe"} => Len(trig) = 0
      BY DEF IInv, TInv, Quiet
    <3>2. QED
      BY <1>1, <3>1
  <2>7. QED
    BY <1>1, <2>1, <2>4, <2>5, <2>6, TriggersEnd
<1>4. QED
  BY <1>2, <1>3

\* The end of the home.
LEMMA ExitStep == ASSUME IInv, Exit PROVE IInv'
<1>1. /\ TypeOK /\ cancel <= Len(trig) /\ Len(trig) \in Nat
      /\ DOMAIN trig = 1 .. Len(trig) /\ trig \in Seq(Trigger)
  BY Facts DEF TypeOK
<1>2. /\ UNCHANGED <<ring, gap, periodQ, slot, lookAhead, last, cancel, eventC,
                     history>>
      /\ pc' = "exit" /\ todo' = <<>> /\ outbox' = 0 /\ starting' = 0
      /\ trig' = [k \in 1 .. Len(trig) |->
                    [trig[k] EXCEPT !.ctx = "done", !.waiter = FALSE]]
  BY <1>1 DEF Exit
<1>3. \A k \in 1 .. Len(trig) : trig[k] \in Trigger
  BY <1>1, ElementOfSeq
<1>4. \A k \in 1 .. Len(trig) :
        /\ [trig[k] EXCEPT !.ctx = "done", !.waiter = FALSE] \in Trigger
        /\ [trig[k] EXCEPT !.ctx = "done", !.waiter = FALSE].ctx = "done"
  BY <1>3 DEF Trigger
<1>5. /\ trig' \in Seq(Trigger) /\ Len(trig') = Len(trig)
      /\ \A k \in 1 .. Len(trig) : trig'[k].ctx = "done"
  <2>1. trig' \in [1 .. Len(trig) -> Trigger]
    BY <1>2, <1>4
  <2>2. trig' \in Seq(Trigger)
    BY <1>1, <2>1, IsASeq
  <2>3. DOMAIN trig' = 1 .. Len(trig) /\ DOMAIN trig' = 1 .. Len(trig')
        /\ Len(trig') \in Nat
    BY <1>2, <2>2, LenProperties
  <2>4. Len(trig') = Len(trig)
    BY <1>1, <2>3
  <2>5. QED
    BY <1>2, <1>4, <2>2, <2>4
<1>6. TInv'
  <2>1. <<>> \in Seq(Period)
    BY EmptySeq
  <2>2. TypeOK'
    BY <1>1, <1>2, <1>5, <2>1 DEF TypeOK
  <2>3. OneLiveTrigger'
    BY <1>5, TriggersKept
  <2>4. Ordered' /\ (\A i \in 1 .. Len(periodQ)' : periodQ'[i] \in 0 .. Len(ring)')
    BY <1>2 DEF IInv, TInv, Ordered
  <2>5. QED
    BY <1>1, <1>2, <1>5, <2>2, <2>3, <2>4 DEF TInv
<1>7. Counted'
  BY <1>2, CountedKept
<1>8. QED
  BY <1>2, <1>6, <1>7 DEF IInv

-----------------------------------------------------------------------------
(* The theorems.                                                           *)

\* The initial states.
LEMMA InitIInv == Init => IInv
<1> SUFFICES ASSUME Init PROVE IInv
  OBVIOUS
<1>1. /\ ring \in [1 .. StartUp -> [start : 1 .. MaxSlot, finish : 1 .. MaxSlot]]
      /\ \A i \in 1 .. StartUp : ring[i].finish + 1 - ring[i].start \in Lengths
      /\ \A i, j \in 1 .. StartUp : i < j => ring[i].finish < ring[j].start
  BY DEF Init, Rings
<1>2. /\ MaxSlot \in Nat /\ StartUp \in Nat /\ Lengths \subseteq Nat \ {0}
      /\ LookAheads \subseteq Nat /\ MaxGap \in Nat /\ EventCap \in Nat
  BY PipelineScheduleAssumption
<1>3. \A i \in 1 .. StartUp : ring[i] \in [start : 1 .. MaxSlot, finish : 1 .. MaxSlot]
  BY <1>1
<1>4. \A i \in 1 .. StartUp : /\ ring[i] \in Period
                              /\ ring[i].start \in 1 .. MaxSlot
                              /\ ring[i].finish \in 1 .. MaxSlot
  BY <1>2, <1>3 DEF Period
<1>5. ring \in Seq(Period) /\ Len(ring) = StartUp
  <2>1. ring \in [1 .. StartUp -> Period]
    BY <1>1, <1>4
  <2>2. ring \in Seq(Period)
    BY <1>2, <2>1, IsASeq
  <2>3. DOMAIN ring = 1 .. StartUp /\ DOMAIN ring = 1 .. Len(ring)
        /\ Len(ring) \in Nat
    BY <2>1, <2>2, LenProperties
  <2>4. QED
    BY <1>2, <2>2, <2>3
<1>6. Ordered
  <2>1. ASSUME NEW i \in 1 .. StartUp
        PROVE  1 <= ring[i].start /\ ring[i].start <= ring[i].finish
    <3>1. ring[i].start \in Nat /\ 1 <= ring[i].start /\ ring[i].finish \in Nat
      BY <1>2, <1>4
    <3>2. ring[i].finish + 1 - ring[i].start \in Nat \ {0}
      BY <1>1, <1>2
    <3>3. QED
      BY <3>1, <3>2
  <2>2. QED
    BY <1>1, <1>5, <2>1 DEF Ordered
<1>7. /\ gap = 0 /\ periodQ = <<>> /\ pc = "init" /\ todo = <<>> /\ outbox = 0
      /\ slot = 0 /\ lookAhead \in Nat /\ last = [start |-> 0, finish |-> 0]
      /\ cancel = 0 /\ trig = <<>> /\ starting = 0 /\ eventC = <<>>
      /\ history = <<>>
  BY <1>2 DEF Init
<1>8. TypeOK
  <2>1. last \in Period
    BY <1>7 DEF Period
  <2>2. /\ periodQ \in Seq(Nat) /\ todo \in Seq(Period) /\ trig \in Seq(Trigger)
        /\ eventC \in Seq(Nat) /\ history \in Seq(Nat) /\ Len(eventC) = 0
    BY <1>7
  <2>3. QED
    BY <1>2, <1>5, <1>7, <2>1, <2>2 DEF TypeOK
<1>9. TInv
  BY <1>6, <1>7, <1>8 DEF TInv, OneLiveTrigger, Quiet
<1>10. Sent = <<>>
  BY <1>7 DEF Sent
<1>11. Counted
  BY <1>7, <1>10, NothingSent DEF Counted
<1>12. Linked
  <2>1. Len(periodQ) = 0 /\ Len(todo) = 0 /\ Len(trig) = 0 /\ Len(ring) \in Nat
    BY <1>2, <1>5, <1>7
  <2>2. Shown = Len(ring) /\ Taken = 0
    BY <1>7, <2>1 DEF Shown, Taken
  <2>3. last = Known(Taken)
    BY <1>7, <2>2 DEF Known
  <2>4. Cardinality(Ends(Sent)) + starting = Taken
    BY <1>7, <1>10, <2>2, NothingSent
  <2>5. QED
    BY <1>7, <2>1, <2>2, <2>3, <2>4 DEF Linked
<1>13. QED
  BY <1>9, <1>11, <1>12 DEF IInv

\* A step of the chain, the home, a period goroutine, a waiter or a timer.
LEMMA NextIInv == IInv /\ [Next]_vars => IInv'
<1> SUFFICES ASSUME IInv, [Next]_vars PROVE IInv'
  OBVIOUS
<1>1. CASE ChainAppend
  BY <1>1, ChainAppendStep
<1>2. CASE LoadRing \/ Subscribe
  BY <1>2, StartSteps
<1>3. CASE OnSlot \/ OnLookAhead
  BY <1>3, LatestSteps
<1>4. CASE OnPeriod
  BY <1>4, OnPeriodStep
<1>5. CASE PeriodStep
  BY <1>5, PeriodStepStep
<1>6. CASE SendEvent \/ PeriodFinish
  BY <1>6, SendSteps
<1>7. CASE OnEvent
  BY <1>7, OnEventStep
<1>8. CASE Exit
  BY <1>8, ExitStep
<1>9. CASE \E k \in DOMAIN trig : OnDelete(k) \/ TimeOut(k)
  BY <1>9, TriggerSteps
<1>10. CASE UNCHANGED vars
  <2>1. TInv'
    BY <1>10 DEF IInv, TInv, TypeOK, Ordered, OneLiveTrigger, Quiet, vars
  <2>2. Sent' = Sent /\ Shown' = Shown /\ Taken' = Taken
        /\ Known(Taken)' = Known(Taken)
    BY <1>10 DEF vars, Sent, Shown, Taken, Known
  <2>3. InOrder(Sent)' = InOrder(Sent) /\ Issued(Sent)' = Issued(Sent)
        /\ Ends(Sent)' = Ends(Sent)
    BY <2>2 DEF InOrder, Issued, Ends
  <2>4. Counted'
    BY <1>10, <2>3 DEF IInv, Counted, vars
  <2>5. Cardinality(Ends(Sent)') + starting' = Cardinality(Ends(Sent)) + starting
    BY <1>10, <2>3 DEF vars
  <2>6. gap' = 0 /\ pc' # "exit" => Linked'
    BY <1>10, <2>5, LinkedKept DEF IInv, vars
  <2>7. QED
    BY <2>1, <2>4, <2>6 DEF IInv
<1>11. QED
  BY <1>1, <1>2, <1>3, <1>4, <1>5, <1>6, <1>7, <1>8, <1>9, <1>10
  DEF Next, Home

\* The invariant holds in every state of the pipeline scheduler.
THEOREM Invariance == Spec => []IInv
  BY InitIInv, NextIInv, PTL DEF Spec

\* Every variable of the scheduler keeps its type, and eventC never holds
\* more events than its capacity, however the home, the period goroutines
\* and the waiters interleave.
THEOREM TypeCorrect == Spec => []TypeOK
<1>1. IInv => TypeOK
  BY DEF IInv, TInv
<1>2. QED
  BY <1>1, Invariance, PTL

\* At most one append is under way: whatever the timeouts and the late
\* waiters do, a trigger whose context still lives is the one
\* in.cancelAppend would stop.
THEOREM OneTriggerIsLive == Spec => []OneLiveTrigger
<1>1. IInv => OneLiveTrigger
  BY DEF IInv, TInv
<1>2. QED
  BY <1>1, Invariance, PTL

\* Between two select statements of the home, a live trigger asks for a
\* start slot after every period on_period has seen, as long as no ring was
\* missed between PeriodRing() and OnPeriod().
THEOREM TriggersAreAhead == Spec => []TriggerAhead
<1>1. IInv => TriggerAhead
  <2> SUFFICES ASSUME IInv, Selecting, gap = 0,
                      NEW k \in DOMAIN trig, trig[k].ctx = "live",
                      trig[k].start # 0
               PROVE  trig[k].start > last.finish
    BY DEF TriggerAhead
  <2>1. Linked
    BY DEF IInv, Selecting
  <2>2. k \in 1 .. Len(trig)
    BY Facts
  <2>3. QED
    BY <2>1, <2>2 DEF Linked, Live
<1>2. QED
  BY <1>1, Invariance, PTL

\* The n-th trigger on the way to the subscribers is the n-th on_latest
\* issued, and the ends that were broadcast, are in eventC or are about to
\* be sent are as many as the periods on the chain once the home has worked
\* through the rings, as long as it missed none.
THEOREM EventsAreExact == Spec => []EventsExact
<1>1. IInv => EventsExact
  <2> SUFFICES ASSUME IInv PROVE EventsExact
    OBVIOUS
  <2>1. InOrder(Sent)
    BY DEF IInv, Counted
  <2>2. ASSUME pc = "loop", todo = <<>>, periodQ = <<>>, gap = 0
        PROVE  Cardinality(Ends(Sent)) + starting = Len(ring)
    <3>1. Linked
      BY <2>2 DEF IInv
    <3>2. Len(periodQ) = 0 /\ Len(ring) \in Nat
      BY <2>2, Facts
    <3>3. Taken = Len(ring)
      BY <2>2, <3>2 DEF Taken, Shown
    <3>4. QED
      BY <3>1, <3>3 DEF Linked
  <2>3. QED
    BY <2>1, <2>2 DEF EventsExact, InOrder, Ends
<1>2. QED
  BY <1>1, Invariance, PTL
=============================================================================
