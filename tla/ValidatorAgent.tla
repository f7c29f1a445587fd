--------------------------- MODULE ValidatorAgent ---------------------------
(***************************************************************************)
(* The validator agent of src/agent/validator.  An administrator selects a *)
(* pipeline through SetDefault; the choice is saved to a file and loaded   *)
(* when the agent starts again.  Each selected pipeline has a goroutine    *)
(* loopPipeline that sends its payouts to loopInternal, and each payout a  *)
(* validator scheduler whose triggers become transactions.                 *)
(***************************************************************************)
EXTENDS Naturals, Sequences, FiniteSets

CONSTANTS
    VaPipes,     \* pipelines; each has one payout at most, named like it
    VaAdmins,    \* callers of SetDefault, one call each
    VaStarts,    \* the file, the payouts and the pipelines that the router
                 \* knows at the start, what the callers ask for, and how
                 \* often the process has been started
    VaPaying,    \* pipelines that have a payout sooner or later
    VaClosing,   \* pipelines that may be closed
    VaMaxInfo,   \* bound on the loopPipeline goroutines started
    VaMaxLives,  \* bound on the starts of the process
    VaSlotLives  \* bound: the last start in which the slot home may end

None == "none"       \* no pipeline, no payout
Absent == "absent"   \* no settings, no file
Torn == "torn"       \* a file that is empty or half written
Boot == "boot"       \* config_load, in the place of a caller

\* The names above are nobody's, and the program starts with a file that it
\* has written itself or with none.
ASSUME ValidatorAgentAssumption ==
    /\ None \notin VaPipes /\ Absent \notin VaPipes /\ Torn \notin VaPipes
    /\ Boot \notin VaAdmins
    /\ VaMaxInfo \in Nat /\ VaMaxLives \in Nat /\ VaSlotLives \in Nat
    /\ \A x \in VaStarts :
        /\ x.file \in {Absent, None, Torn} \cup VaPipes
        /\ x.payouts \subseteq VaPipes /\ x.routed \subseteq VaPipes
        /\ x.want \in [VaAdmins -> {None} \cup VaPipes]
        /\ x.lives \in Nat

VARIABLES
    vctx,        \* the agent's context
    vloop,       \* loopInternal: "boot", "run", "save", "look", "reply", "dead",
                 \* "panic"
    vin,         \* in: settings, selected, pipelineM, payoutM; and (history)
                 \* lost, the last pipeline that on_settings did not find
    vfile,       \* the configuration file
    info,        \* the loopPipeline goroutines
    call,        \* the on_settings under way: who, new and old settings,
                 \* pipelines to tell, outcome
    req,         \* each caller: "new", "queued", "left", "ok", "err"
    want,        \* what each caller asks for
    inC,         \* internalC
    verr,        \* errorC holds an error
    routed,      \* pipelines the router knows
    payouts,     \* payouts that exist
    left,        \* set payout triggers that the validator schedulers of each
                 \* payout still emit; the withdraw triggers are alike
    vstarted,    \* (history) transactions started in this life of the process
    lives,       \* starts of the process
    vslots       \* the slot home lives

vaVars == <<vctx, vloop, vin, vfile, info, call, req, want, inC, verr, routed,
            payouts, left, vstarted, lives, vslots>>

NoCall == [who |-> None, new |-> None, old |-> Absent, tell |-> {}, ok |-> TRUE]

NewIn == [settings |-> Absent, selected |-> 0,
          pipelineM |-> [p \in VaPipes |-> 0], payoutM |-> {}, lost |-> None]

VaInit ==
    /\ vctx = "open" /\ vloop = "boot" /\ vin = NewIn
    /\ \E x \in VaStarts :
        /\ vfile = x.file /\ payouts = x.payouts /\ routed = x.routed
        /\ want = x.want /\ lives = x.lives
    /\ info = <<>> /\ call = NoCall
    /\ req = [a \in VaAdmins |-> "new"]
    /\ inC = <<>> /\ verr = FALSE /\ vslots = TRUE
    /\ left = [p \in VaPipes |-> 0]
    /\ vstarted = [p \in VaPipes |-> 0]

-----------------------------------------------------------------------------
(* The rest of the world.                                                  *)

ChainPayout(p) ==
    /\ p \in VaPaying \ payouts /\ payouts' = payouts \cup {p}
    /\ info' = [i \in DOMAIN info |->
        IF info[i].st = "run" /\ info[i].pipe = p
        THEN [info[i] EXCEPT !.feed = @ + 1] ELSE info[i]]
    /\ UNCHANGED <<vctx, vloop, vin, vfile, call, req, want, inC, verr,
                   routed, left, vstarted, lives, vslots>>

ChainClosesPipeline(p) ==
    /\ p \in routed \cap VaClosing /\ routed' = routed \ {p}
    /\ UNCHANGED <<vctx, vloop, vin, vfile, info, call, req, want, inC, verr,
                   payouts, left, vstarted, lives, vslots>>

VaDone ==
    /\ vctx = "open" /\ vctx' = "done"
    /\ UNCHANGED <<vloop, vin, vfile, info, call, req, want, inC, verr,
                   routed, payouts, left, vstarted, lives, vslots>>

\* The slot home ends and sends nil to its subscribers.
SlotsEnd ==
    /\ vslots /\ lives <= VaSlotLives /\ vslots' = FALSE
    /\ UNCHANGED <<vctx, vloop, vin, vfile, info, call, req, want, inC, verr,
                   routed, payouts, left, vstarted, lives>>

\* What is left of the agent when its process, or its context, ends.
Gone ==
    /\ vin' = NewIn /\ info' = <<>> /\ call' = NoCall /\ verr' = FALSE
    /\ left' = [p \in VaPipes |-> 0]
    /\ vstarted' = [p \in VaPipes |-> 0]

\* The process has ended or is killed, and starts again; only the file is
\* left of the old one, half written if that was under way.
Restart ==
    /\ lives < VaMaxLives
    /\ lives' = lives + 1
    /\ vfile' \in {vfile} \cup (IF vloop = "save" /\ vfile # Absent THEN {Torn} ELSE {})
    /\ vslots' = TRUE
    /\ vctx' = "open" /\ vloop' = "boot" /\ inC' = <<>> /\ Gone
    /\ req' = [a \in VaAdmins |-> IF req[a] = "queued" THEN "err" ELSE req[a]]
    /\ UNCHANGED <<want, routed, payouts>>

-----------------------------------------------------------------------------
(* on_pipeline and loopPipeline.                                           *)

Live(i) == info[i].ctx = "open" /\ vctx = "open"

NewInfo(p) == [pipe |-> p, ctx |-> "open", st |-> "new", listed |-> FALSE,
               feed |-> 0, hold |-> FALSE, look |-> 0]

\* on_pipeline: the goroutine of p in m, or a new one.
OnPipeline(m, list, p) ==
    IF m[p] # 0 THEN [m |-> m, list |-> list, i |-> m[p]]
    ELSE [m |-> [m EXCEPT ![p] = Len(list) + 1],
          list |-> Append(list, NewInfo(p)), i |-> Len(list) + 1]

InfoStep(i, r) ==
    /\ info' = [info EXCEPT ![i] = r]
    /\ UNCHANGED <<vctx, vloop, vin, vfile, call, req, want, inC, routed,
                   payouts, left, vstarted, lives, vslots>>

\* OnSlot, which a slot home that has ended never answers, and OnPayout of
\* the pipeline.
InfoSubscribe(i) ==
    /\ info[i].st = "new"
    /\ InfoStep(i, [info[i] EXCEPT !.st = IF vslots THEN "run" ELSE "hung"])
    /\ UNCHANGED verr

\* slotSub.ErrorC: an evicted subscription is renewed, which only leaves its
\* error in err; the nil of a slot home that has ended makes loopPipeline
\* wait for ever for the new subscription.
InfoSlotLost(i) ==
    /\ info[i].st = "run" /\ ~info[i].hold /\ ~vslots
    /\ InfoStep(i, [info[i] EXCEPT !.st = "hung", !.feed = 0, !.listed = TRUE])
    /\ UNCHANGED verr

\* loopPipelineLookupPayout lists the payouts and hands them over one by one.
InfoList(i) ==
    /\ info[i].st = "run" /\ ~info[i].listed /\ ~info[i].hold
    /\ InfoStep(i, [info[i] EXCEPT !.listed = TRUE,
                                   !.hold = info[i].pipe \in payouts])
    /\ UNCHANGED verr

InfoFeed(i) ==
    /\ info[i].st = "run" /\ ~info[i].hold /\ info[i].feed > 0
    /\ InfoStep(i, [info[i] EXCEPT !.feed = @ - 1, !.hold = TRUE])
    /\ UNCHANGED verr


InfoLook(i) ==
    /\ info[i].st = "run" /\ ~info[i].hold /\ info[i].look > 0
    /\ InfoStep(i, [info[i] EXCEPT !.look = 0]) /\ UNCHANGED verr

\* doneC, or a lost subscription of payouts.  If err is not nil it goes to
\* errorC: the error of that subscription, unless the pipeline ended and sent
\* nil, or after doneC an old error of a slotSub that was evicted.
InfoEnds(i) ==
    /\ info[i].st = "run" /\ (~Live(i) \/ ~info[i].hold)
    /\ verr' \in {verr, TRUE}
    /\ InfoStep(i, [info[i] EXCEPT !.st = "dead", !.hold = FALSE,
                                   !.feed = 0, !.listed = TRUE])

\* Mutant: a payout that is known gets another scheduler.
FreshPayoutAlways(p) == TRUE

\* in.on_payout returns at once if it knows the payout.
FreshPayout(p) == p \notin vin.payoutM

\* newPayoutC carries a payout to in.on_payout, which also makes sure that
\* the pipeline is listened to.
OnPayout(i) ==
    /\ vloop = "run" /\ info[i].st = "run" /\ info[i].hold
    /\ LET p == info[i].pipe
           sent == [info EXCEPT ![i].hold = FALSE]
           o == OnPipeline(vin.pipelineM, sent, p)
       IN  IF FreshPayout(p)
           THEN /\ Len(o.list) <= VaMaxInfo
                /\ info' = o.list
                /\ vin' = [vin EXCEPT !.pipelineM = o.m, !.payoutM = @ \cup {p}]
                /\ left' = [left EXCEPT ![p] = @ + 1]
           ELSE info' = sent /\ UNCHANGED <<vin, left>>
    /\ UNCHANGED <<vctx, vloop, vfile, call, req, want, inC, verr, routed,
                   payouts, vstarted, lives, vslots>>

\* A trigger of a validator scheduler reaches on_event.
on_event(p) ==
    /\ vloop = "run" /\ left[p] > 0
    /\ left' = [left EXCEPT ![p] = @ - 1]
    /\ vstarted' = [vstarted EXCEPT ![p] = @ + 1]
    /\ UNCHANGED <<vctx, vloop, vin, vfile, info, call, req, want, inC, verr,
                   routed, payouts, lives, vslots>>

\* A transaction that failed for good, or a scheduler that did.
TaskFails ==
    /\ vloop = "run" /\ vin.payoutM # {} /\ ~verr /\ verr' = TRUE
    /\ UNCHANGED <<vctx, vloop, vin, vfile, info, call, req, want, inC,
                   routed, payouts, left, vstarted, lives, vslots>>

-----------------------------------------------------------------------------
(* on_settings.                                                            *)

\* The end of on_settings: errorC of the caller, or of config_load.
Answer(who, ok) ==
    IF who = Boot
    THEN vloop' = "run" /\ verr' = (verr \/ ~ok) /\ call' = NoCall
    ELSE vloop' = "reply" /\ call' = [NoCall EXCEPT !.who = who, !.ok = ok] /\ UNCHANGED verr

\* in.settings = new, and config_save opens the file or creates an empty
\* one, if it can.
OnSettings(new, who) ==
    /\ vloop' = "save" /\ vin' = [vin EXCEPT !.settings = new]
    /\ call' = [NoCall EXCEPT !.who = who, !.new = new, !.old = vin.settings]
    /\ vfile' \in (IF vfile = Absent THEN {Absent, Torn} ELSE {vfile})
    /\ UNCHANGED <<info, verr, left, vstarted>>

\* Mutant: settings that could not be saved stay in force.
RefusedKeeps == UNCHANGED vin

\* config_save failed: the old settings are restored.
Refused == vin' = [vin EXCEPT !.settings = call.old]

\* config_save fails when it opens the file, or in Encode, which may have
\* written a part.
SaveFails ==
    /\ vloop = "save"
    /\ vfile' \in (IF vfile = Absent THEN {Absent} ELSE {vfile, Torn})
    /\ Refused /\ Answer(call.who, FALSE)
    /\ UNCHANGED <<vctx, info, req, want, inC, routed, payouts, left, vstarted,
                   lives, vslots>>

\* The old pipeline is canceled and forgotten.
Deselect(new) ==
    LET old == vin.selected
    IN  IF old = 0 THEN [m |-> vin.pipelineM, list |-> info]
        ELSE [m |-> [vin.pipelineM EXCEPT ![info[old].pipe] = 0],
              list |-> [info EXCEPT ![old].ctx = "done"]]

\* isPipelineDifferent; an empty choice never gets here with a selection.
Different(new) ==
    IF vin.selected = 0 THEN new # None ELSE info[vin.selected].pipe # new

\* on_settings once the settings are saved and the pipeline is found.
Select(new) ==
    LET d == Deselect(new)
        o == OnPipeline(d.m, d.list, new)
    IN  IF Different(new)
        THEN /\ vin' = [vin EXCEPT !.selected = o.i, !.pipelineM = o.m]
             /\ info' = o.list
        ELSE UNCHANGED <<vin, info>>

\* config_save has written the file.  The pipeline may be unknown to the
\* router; an empty choice after another one dereferences nil.
Saved(new) ==
    \/ /\ new \in VaPipes \ routed
       /\ vin' = [vin EXCEPT !.lost = new] /\ Answer(call.who, FALSE)
       /\ UNCHANGED <<info, left, vstarted>>
    \/ /\ new = None /\ vin.selected # 0
       /\ vloop' = "panic" /\ Gone
    \/ /\ new \in routed \/ (new = None /\ vin.selected = 0)
       /\ Select(new) /\ Len(info') <= VaMaxInfo
       /\ vloop' = "look"
       /\ call' = [NoCall EXCEPT !.who = call.who,
                                   !.tell = {p \in VaPipes : vin'.pipelineM[p] # 0}]
       /\ UNCHANGED <<verr, left, vstarted>>

SaveSettings ==
    /\ vloop = "save" /\ vfile # Absent
    /\ vfile' = call.new /\ Saved(call.new)
    /\ UNCHANGED <<vctx, req, want, inC, routed, payouts, lives, vslots>>

\* on_settings_lookahead: room in the channel of each pipeline.
LookSend(p) ==
    /\ vloop = "look" /\ p \in call.tell
    /\ LET i == vin.pipelineM[p]
       IN  info[i].look = 0 /\ info' = [info EXCEPT ![i].look = 1]
    /\ call' = [call EXCEPT !.tell = @ \ {p}]
    /\ UNCHANGED <<vctx, vloop, vin, vfile, req, want, inC, verr, routed,
                   payouts, left, vstarted, lives, vslots>>

LookEnds ==
    /\ vloop = "look" /\ (call.tell = {} \/ vctx = "done")
    /\ Answer(call.who, TRUE)
    /\ UNCHANGED <<vctx, vin, vfile, info, req, want, inC, routed, payouts,
                   left, vstarted, lives, vslots>>

\* config_load, if there is a file; one that is torn cannot be decoded.
config_load ==
    /\ vloop = "boot"
    /\ IF vfile \in {Absent, Torn}
       THEN /\ vloop' = "run" /\ verr' = (vfile = Torn)
            /\ UNCHANGED <<vin, vfile, info, call, left, vstarted>>
       ELSE OnSettings(vfile, Boot)
    /\ UNCHANGED <<vctx, req, want, inC, routed, payouts, lives, vslots>>

\* SetDefault looks the pipeline up before it bothers loopInternal.
SetDefault(a) ==
    /\ req[a] = "new"
    /\ IF want[a] \in VaPipes \ routed
       THEN req' = [req EXCEPT ![a] = "err"] /\ UNCHANGED inC
       ELSE req' = [req EXCEPT ![a] = "queued"] /\ inC' = Append(inC, a)
    /\ UNCHANGED <<vctx, vloop, vin, vfile, info, call, want, verr, routed,
                   payouts, left, vstarted, lives, vslots>>

\* The context of the call is done.
CallerLeaves(a) ==
    /\ req[a] = "queued" /\ req' = [req EXCEPT ![a] = "left"]
    /\ UNCHANGED <<vctx, vloop, vin, vfile, info, call, want, inC, verr,
                   routed, payouts, left, vstarted, lives, vslots>>

TakeRequest ==
    /\ vloop = "run" /\ inC # <<>>
    /\ OnSettings(want[Head(inC)], Head(inC)) /\ inC' = Tail(inC)
    /\ UNCHANGED <<vctx, req, want, routed, payouts, lives, vslots>>

\* errorC of SetDefault has no buffer: the closure waits for its caller.
Reply ==
    /\ vloop = "reply" /\ req[call.who] = "queued"
    /\ req' = [req EXCEPT ![call.who] = IF call.ok THEN "ok" ELSE "err"]
    /\ vloop' = "run" /\ call' = NoCall
    /\ UNCHANGED <<vctx, vin, vfile, info, want, inC, verr, routed, payouts,
                   left, vstarted, lives, vslots>>

\* errorC, serverErrorC or doneC; defer cancel().
VaEnds ==
    /\ vloop = "run" /\ (verr \/ vctx = "done")
    /\ vloop' = "dead" /\ vctx' = "done" /\ Gone
    /\ UNCHANGED <<vfile, req, want, inC, routed, payouts, lives, vslots>>

-----------------------------------------------------------------------------
VaInfo(i) ==
    InfoSubscribe(i) \/ InfoList(i) \/ InfoFeed(i) \/ InfoLook(i) \/ InfoSlotLost(i)
        \/ InfoEnds(i) \/ OnPayout(i)

VaNext ==
    \/ \E p \in VaPipes :
        ChainPayout(p) \/ ChainClosesPipeline(p) \/ LookSend(p) \/ on_event(p)
    \/ VaDone \/ SlotsEnd \/ Restart \/ TaskFails
    \/ config_load \/ SaveFails \/ SaveSettings \/ LookEnds
    \/ \E i \in DOMAIN info : VaInfo(i)
    \/ \E a \in VaAdmins : SetDefault(a) \/ CallerLeaves(a)
    \/ TakeRequest \/ Reply \/ VaEnds

\* What does not wait for the outside world.
VaRun ==
    \/ config_load \/ SaveFails \/ SaveSettings
    \/ LookEnds \/ Reply \/ TakeRequest \/ VaEnds
    \/ \E p \in VaPipes : LookSend(p)
    \/ \E i \in DOMAIN info : InfoSubscribe(i) \/ InfoLook(i)

\* Goroutines that can run do.  No step of this specification can be
\* repeated for ever, so that one condition covers each of them.
VaSpec == VaInit /\ [][VaNext]_vaVars /\ WF_vaVars(VaRun)

-----------------------------------------------------------------------------
VaTypeOK ==
    /\ vctx \in {"open", "done"}
    /\ vloop \in {"boot", "run", "save", "look", "reply", "dead", "panic"}
    /\ vin.settings \in {Absent, None} \cup VaPipes
    /\ vin.selected \in 0 .. Len(info)
    /\ vfile \in {Absent, None, Torn} \cup VaPipes
    /\ \A i \in DOMAIN info : info[i].look \in 0 .. 1 /\ info[i].feed \in 0 .. 1
    /\ Len(info) <= VaMaxInfo
    /\ inC \in Seq(VaAdmins)
    /\ \A i, j \in DOMAIN inC : inC[i] = inC[j] => i = j

\* The settings that a failure of the save would leave: the old ones, until
\* Encode is through.
InForce == IF vloop = "save" THEN call.old ELSE vin.settings

\* The file never holds another choice than the one in force: after a save
\* or a lookup that failed, or a restart at any moment, an agent that comes
\* back selects what GetDefault reported last, or it finds a file that it
\* cannot read, and ends.  config_save (internal.go:152-166) opens or creates
\* the file and then encodes into it, so an Encode that fails or a process
\* that is killed in between leaves an empty or a half written file.
SettingsDurable == InForce # Absent => vfile \in {InForce, Torn}

\* The selected pipeline is really listened to: its goroutine was not
\* canceled and is the one in pipelineM, even if a pipeline is deselected
\* and selected again.
SelectedListens ==
    vin.selected # 0 =>
        /\ info[vin.selected].ctx = "open"
        /\ vin.pipelineM[info[vin.selected].pipe] = vin.selected

\* The pipeline that the settings name is the selected one, and nothing is
\* selected without settings; the one exception is a pipeline that the router
\* did not know, for on_settings then keeps the new settings, in the file
\* too, together with the old selection (settings.go:35-38).
SelectedNamed ==
    \/ vin.lost \in VaPipes /\ InForce = vin.lost
    \/ IF vin.selected = 0 THEN InForce \in {Absent, None}
       ELSE InForce = info[vin.selected].pipe

\* The settings in force in the validator agent are the ones in its file,
\* unless a save left that unreadable; the pipeline they name is selected,
\* unless its lookup failed; and the selected one is listened to.  The
\* variables keep their types meanwhile.
SettingsInForce == VaTypeOK /\ SettingsDurable /\ SelectedListens /\ SelectedNamed

\* However often a payout is reported (list, subscription, a pipeline that
\* was selected before), its triggers start one transaction each.
OneSetPayout == \A p \in VaPipes : vstarted[p] <= 1

\* loopInternal waits for something that will not happen: a caller of
\* SetDefault that has left, or room in the look ahead channel of a
\* loopPipeline that itself waits for loopInternal, has ended, or hangs in
\* OnSlot() on a slot home that has ended.
Wedged ==
    \/ vloop = "reply" /\ req[call.who] = "left"
    \/ vloop = "look" /\ \E p \in call.tell :
        LET r == info[vin.pipelineM[p]] IN r.look = 1 /\ (r.hold \/ r.st \in {"dead", "hung"})

\* The callers of SetDefault get their answers unless the agent ends or is
\* wedged in one of these ways, each of which the code can reach.
VaServed ==
    \/ \A a \in VaAdmins : req[a] # "queued"
    \/ vloop \in {"dead", "panic"} \/ Wedged
SettingsAnswered == (\E a \in VaAdmins : req[a] = "queued") ~> VaServed
=============================================================================
