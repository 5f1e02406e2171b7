-------------------------- MODULE SetupFlow_proofs --------------------------
(***************************************************************************)
(* Proofs about the setup assistant and the uninstaller, for any number of *)
(* calls in flight and of sequences started: the end is announced only     *)
(* with the rule in place, and an uninstallation leaves no rule, whatever  *)
(* the order in which answers come, unless they were started while another *)
(* script ran.                                                             *)
(***************************************************************************)
EXTENDS SetupFlow, TLAPS

-----------------------------------------------------------------------------
(* Types.                                                                  *)

States == {"pending", "active", "done", "failed"}
Services == {"none", "requiresApproval", "enabled"}

Flow ==
  [running : BOOLEAN, finished : BOOLEAN, states : [Steps -> States],
   poll : {"none"} \cup Steps, late : BOOLEAN, settled : BOOLEAN]

HelperCall ==
  [op : {"check", "probe", "enable", "turnOff", "disable"}, answer : {"none", "ok", "error"}]

Typed ==
  /\ window \in [shown : BOOLEAN, busy : BOOLEAN]
  /\ sheet \in [open : BOOLEAN, starts : Nat, quiet : BOOLEAN]
  /\ flow \in Flow
  /\ calls \in Seq(HelperCall)
  /\ rule \in BOOLEAN
  /\ uninstall \in [done : BOOLEAN, quiet : BOOLEAN]

-----------------------------------------------------------------------------
(* The invariant.                                                          *)

(* The assistant runs in its window only, and what is quiet has nothing    *)
(* beside it: a sequence no script that takes the rule away, an            *)
(* uninstallation no sequence.                                             *)
Quiet ==
  /\ flow.running => sheet.open
  /\ sheet.open /\ sheet.quiet => InFlight("turnOff") = {} /\ InFlight("disable") = {}
  /\ sheet.open /\ uninstall.quiet => InFlight("disable") = {} /\ ~uninstall.done

(* What tells of the rule tells the truth, in a sequence that began while  *)
(* none was being written: the state of the step, the end, an answer.      *)
TruthOfSetup ==
  sheet.open /\ sheet.quiet =>
    /\ flow.finished => rule
    /\ flow.states["rule"] = "done" => rule
    /\ \A k \in InFlight("enable") : calls[k].answer = "ok" => rule

(* And so it does in an uninstallation, during which none is written.      *)
TruthOfUninstall ==
  uninstall.quiet =>
    /\ InFlight("disable") # {} \/ uninstall.done => InFlight("enable") = {}
    /\ uninstall.done => ~rule
    /\ \A k \in InFlight("disable") : calls[k].answer = "ok" => ~rule

IInv == Typed /\ Quiet /\ TruthOfSetup /\ TruthOfUninstall

-----------------------------------------------------------------------------
(* Calls in flight.                                                        *)

(* What the assistant sends.                                               *)
Sent == {Call("check"), Call("probe"), Call("enable")}

(* The calls that stay in flight while one of them, or none, is handled.   *)
Kept(rest) ==
  /\ rest \in Seq(HelperCall)
  /\ \A j \in DOMAIN rest : \E i \in DOMAIN calls : rest[j] = calls[i]

(* A sequence without one of its elements.                                 *)
LEMMA RemovedAt ==
  ASSUME NEW S, NEW s \in Seq(S), NEW k \in DOMAIN s
  PROVE  /\ RemoveAt(s, k) \in Seq(S)
         /\ Len(RemoveAt(s, k)) = Len(s) - 1
         /\ \A j \in DOMAIN RemoveAt(s, k) :
              RemoveAt(s, k)[j] = IF j < k THEN s[j] ELSE s[j + 1]
<1> DEFINE before == SubSeq(s, 1, k - 1)
           after == SubSeq(s, k + 1, Len(s))
<1>1. k \in Nat /\ 1 <= k /\ k <= Len(s) /\ Len(s) \in Nat
  OBVIOUS
<1>2. before \in Seq(S) /\ Len(before) = k - 1 /\ \A j \in 1 .. k - 1 : before[j] = s[j]
  BY <1>1
<1>3. /\ after \in Seq(S) /\ Len(after) = Len(s) - k
      /\ \A j \in 1 .. Len(s) - k : after[j] = s[k + j]
  BY <1>1
<1>4. RemoveAt(s, k) = before \o after
  BY DEF RemoveAt
<1> HIDE DEF before, after
<1>5. RemoveAt(s, k) \in Seq(S) /\ Len(RemoveAt(s, k)) = Len(s) - 1
  BY <1>1, <1>2, <1>3, <1>4
<1>6. ASSUME NEW j \in DOMAIN RemoveAt(s, k)
      PROVE  RemoveAt(s, k)[j] = IF j < k THEN s[j] ELSE s[j + 1]
  <2>1. j \in 1 .. Len(s) - 1
    BY <1>5
  <2>2. CASE j < k
    BY <1>1, <1>2, <1>3, <1>4, <2>1, <2>2
  <2>3. CASE j >= k
    <3>1. RemoveAt(s, k)[j] = after[j - (k - 1)]
      BY <1>1, <1>2, <1>3, <1>4, <2>1, <2>3
    <3>2. j - (k - 1) \in 1 .. Len(s) - k /\ k + (j - (k - 1)) = j + 1
      BY <1>1, <2>1, <2>3
    <3>3. RemoveAt(s, k)[j] = s[j + 1]
      BY <1>3, <3>1, <3>2
    <3> QED
      BY <1>1, <2>1, <2>3, <3>3
  <2> QED
    BY <1>1, <2>1, <2>2, <2>3
<1> QED
  BY <1>5, <1>6

(* All calls are kept, or all but the one that is handled.                 *)
LEMMA AllKept == ASSUME IInv PROVE Kept(calls)
BY DEF IInv, Typed, Kept

LEMMA OthersKept ==
  ASSUME IInv, NEW k \in DOMAIN calls
  PROVE  Kept(RemoveAt(calls, k))
<1> DEFINE rest == RemoveAt(calls, k)
           Old(j) == IF j < k THEN j ELSE j + 1
<1>1. calls \in Seq(HelperCall) /\ k \in 1 .. Len(calls) /\ Len(calls) \in Nat
  BY DEF IInv, Typed
<1>2. /\ rest \in Seq(HelperCall) /\ Len(rest) = Len(calls) - 1
      /\ \A j \in DOMAIN rest : rest[j] = IF j < k THEN calls[j] ELSE calls[j + 1]
  BY <1>1, RemovedAt
<1> HIDE DEF rest
<1>3. \A j \in DOMAIN rest :
        Old(j) \in DOMAIN calls /\ rest[j] = calls[Old(j)]
  BY <1>1, <1>2
<1> HIDE DEF Old
<1>4. Kept(rest)
  BY <1>2, <1>3 DEF Kept
<1> QED
  BY <1>4 DEF rest

(* What is in flight after some were handled and others were sent.         *)
LEMMA ThenInFlight ==
  ASSUME NEW rest, Kept(rest), NEW sent \in Seq(Sent), calls' = rest \o sent
  PROVE  /\ calls' \in Seq(HelperCall)
         /\ \A j \in DOMAIN calls' :
              \/ \E i \in DOMAIN calls : calls'[j] = calls[i]
              \/ sent # <<>> /\ calls'[j] \in Sent
<1>1. Sent \subseteq HelperCall /\ \A c \in Sent : c.op # "disable"
  BY DEF Sent, HelperCall, Call
<1>2. rest \in Seq(HelperCall) /\ sent \in Seq(HelperCall)
  BY <1>1 DEF Kept
<1>3. calls' \in Seq(HelperCall)
  BY <1>2
<1>4. \A j \in DOMAIN calls' :
        \/ j \in DOMAIN rest /\ calls'[j] = rest[j]
        \/ sent # <<>> /\ calls'[j] \in Sent
  <2> TAKE j \in DOMAIN calls'
  <2>1. j \in 1 .. Len(rest) + Len(sent) /\ Len(rest) \in Nat /\ Len(sent) \in Nat
    BY <1>2
  <2>2. CASE j <= Len(rest)
    BY <1>2, <2>1, <2>2
  <2>3. CASE j > Len(rest)
    <3>1. j - Len(rest) \in 1 .. Len(sent) /\ calls'[j] = sent[j - Len(rest)]
      BY <1>2, <2>1, <2>3
    <3> QED
      BY <3>1
  <2> QED
    BY <2>1, <2>2, <2>3
<1> QED
  BY <1>1, <1>3, <1>4 DEF Kept

-----------------------------------------------------------------------------
(* What the sequence does.                                                 *)

(* An outcome from a flow: it sends and runs only if that one ran, and     *)
(* tells no more of the rule than that one told.                           *)
Follows(f, o) ==
  /\ o.flow \in Flow
  /\ o.sent \in Seq(Sent)
  /\ o.sent # <<>> => f.running
  /\ o.flow.running => f.running
  /\ o.flow.finished => f.finished \/ f.states["rule"] = "done"
  /\ o.flow.states["rule"] = "done" => f.states["rule"] = "done"

(* No call.                                                                *)
LEMMA NoCall == <<>> \in Seq(Sent)
OBVIOUS

(* A step with a state other than "done" tells nothing more.               *)
LEMMA SetStep ==
  ASSUME NEW f \in Flow, NEW step \in Steps, NEW state \in States
  PROVE  /\ Is(f, step, state) \in Flow
         /\ Is(f, step, state).running = f.running
         /\ Is(f, step, state).finished = f.finished
         /\ \A t \in Steps :
              Is(f, step, state).states[t] = IF t = step THEN state ELSE f.states[t]
BY DEF Is, Flow

(* What makes an outcome follow.                                           *)
LEMMA OutcomeFollows ==
  ASSUME NEW f, NEW g \in Flow, NEW sent \in Seq(Sent), NEW s,
         sent # <<>> \/ g.running => f.running,
         g.finished => f.finished \/ f.states["rule"] = "done",
         g.states["rule"] = "done" => f.states["rule"] = "done"
  PROVE  Follows(f, Outcome(g, sent, s))
BY DEF Follows, Outcome

(* Stop, startPolling and conclude, and the end of a sequence.             *)
LEMMA Switches ==
  ASSUME NEW f \in Flow, NEW step \in Steps
  PROVE  /\ \A g \in {Stop(f), StartPolling(f, step), Settled(f), [f EXCEPT !.running = FALSE]} :
              /\ g \in Flow
              /\ g.running => f.running
              /\ g.finished = f.finished
              /\ g.states = f.states
         /\ StartPolling(f, step).running = f.running
         /\ Settled(f).running = f.running
BY DEF Stop, StartPolling, Settled, Flow

(* Advancing to the next step.                                             *)
LEMMA AdvanceToFollows ==
  ASSUME NEW f \in Flow, f.running, NEW s
  PROVE  Follows(f, AdvanceTo(f, s))
<1>1. "fullDisk" \in Steps /\ "rule" \in Steps /\ "active" \in States /\ "fullDisk" # "rule"
  BY DEF Steps, States
<1>2. <<Call("check")>> \in Seq(Sent) /\ <<Call("enable")>> \in Seq(Sent)
  BY DEF Sent
<1>4. CASE f.states["fullDisk"] # "done"
  <2> DEFINE g == Is(f, "fullDisk", "active")
  <2>1. AdvanceTo(f, s) = Outcome(g, <<Call("check")>>, s)
    BY <1>4 DEF AdvanceTo
  <2>2. /\ g \in Flow /\ g.finished = f.finished
        /\ g.states["rule"] = "done" => f.states["rule"] = "done"
    BY <1>1, SetStep
  <2> HIDE DEF g
  <2> QED
    BY <1>2, <2>1, <2>2, OutcomeFollows
<1>5. CASE f.states["fullDisk"] = "done" /\ f.states["rule"] # "done"
  <2> DEFINE g == Is(f, "rule", "active")
  <2>1. AdvanceTo(f, s) = Outcome(g, <<Call("enable")>>, s)
    BY <1>5 DEF AdvanceTo
  <2>2. /\ g \in Flow /\ g.finished = f.finished
        /\ g.states["rule"] = "done" => f.states["rule"] = "done"
    BY <1>1, SetStep
  <2> HIDE DEF g
  <2> QED
    BY <1>2, <2>1, <2>2, OutcomeFollows
<1>6. CASE f.states["fullDisk"] = "done" /\ f.states["rule"] = "done"
  <2> DEFINE g == [f EXCEPT !.finished = TRUE]
  <2>1. AdvanceTo(f, s) = Outcome(Stop(g), <<>>, s)
    BY <1>6 DEF AdvanceTo
  <2>2. g \in Flow /\ g.running = f.running /\ g.states = f.states
    BY DEF Flow
  <2> HIDE DEF g
  <2>3. Stop(g) \in Flow /\ Stop(g).states = g.states
    BY <1>1, <2>2, Switches
  <2> QED
    BY <1>6, <2>1, <2>2, <2>3, NoCall, OutcomeFollows
<1> QED
  BY <1>4, <1>5, <1>6

(* The first step, and advancing from anywhere.                            *)
LEMMA RegisterFollows ==
  ASSUME NEW f \in Flow, f.running, NEW o \in RegisterHelper(f)
  PROVE  Follows(f, o)
<1>1. /\ "helper" \in Steps /\ "helper" # "rule"
      /\ "active" \in States /\ "done" \in States /\ "failed" \in States
  BY DEF Steps, States
<1>2. PICK s \in Registrations :
        o = CASE s = "enabled" -> AdvanceTo(Is(f, "helper", "done"), s)
              [] s = "requiresApproval" ->
                   Outcome(StartPolling(Is(f, "helper", "active"), "helper"), <<>>, s)
              [] OTHER -> Outcome([Is(f, "helper", "failed") EXCEPT !.running = FALSE], <<>>, s)
  BY DEF RegisterHelper
<1>3. \A state \in States :
        /\ Is(f, "helper", state) \in Flow
        /\ Is(f, "helper", state).running
        /\ Is(f, "helper", state).finished = f.finished
        /\ Is(f, "helper", state).states["rule"] = f.states["rule"]
  BY <1>1, SetStep DEF Steps
<1>4. CASE s = "enabled"
  <2>1. Follows(Is(f, "helper", "done"), o)
    BY <1>1, <1>2, <1>3, <1>4, AdvanceToFollows
  <2> QED
    BY <1>1, <1>3, <2>1 DEF Follows
<1>5. CASE s = "requiresApproval"
  <2> DEFINE h == Is(f, "helper", "active")
             g == StartPolling(h, "helper")
  <2>1. o = Outcome(g, <<>>, s)
    BY <1>2, <1>5
  <2>2. h \in Flow /\ h.finished = f.finished /\ h.states["rule"] = f.states["rule"]
    BY <1>1, <1>3
  <2> HIDE DEF h
  <2>3. g \in Flow /\ g.finished = h.finished /\ g.states = h.states
    BY <1>1, <2>2, Switches
  <2> HIDE DEF g
  <2> QED
    BY <2>1, <2>2, <2>3, NoCall, OutcomeFollows
<1>6. CASE s # "enabled" /\ s # "requiresApproval"
  <2> DEFINE h == Is(f, "helper", "failed")
             g == [h EXCEPT !.running = FALSE]
  <2>1. o = Outcome(g, <<>>, s)
    BY <1>2, <1>6
  <2>2. h \in Flow /\ h.finished = f.finished /\ h.states["rule"] = f.states["rule"]
    BY <1>1, <1>3
  <2> HIDE DEF h
  <2>3. g \in Flow /\ g.finished = h.finished /\ g.states = h.states
    BY <1>1, <2>2, Switches
  <2> HIDE DEF g
  <2> QED
    BY <2>1, <2>2, <2>3, NoCall, OutcomeFollows
<1> QED
  BY <1>4, <1>5, <1>6

LEMMA AdvanceFollows ==
  ASSUME NEW f \in Flow, NEW o \in Advance(f)
  PROVE  Follows(f, o)
<1>1. CASE ~f.running
  BY <1>1, NoCall, OutcomeFollows DEF Advance
<1>2. CASE f.running /\ f.states["helper"] # "done"
  BY <1>2, RegisterFollows DEF Advance
<1>3. CASE f.running /\ f.states["helper"] = "done"
  BY <1>3, AdvanceToFollows DEF Advance
<1> QED
  BY <1>1, <1>2, <1>3

(* The outcomes of the polling.                                            *)
LEMMA GrantFollows ==
  ASSUME NEW f \in Flow, NEW o \in Granted(f) \cup Approved(f)
  PROVE  Follows(f, o)
<1>1. /\ "helper" \in Steps /\ "fullDisk" \in Steps /\ "rule" \in Steps /\ "done" \in States
      /\ "helper" # "rule" /\ "fullDisk" # "rule"
  BY DEF Steps, States
<1>2. PICK step \in {"helper", "fullDisk"} : o \in Advance(Is(f, step, "done"))
  BY DEF Granted, Approved
<1> DEFINE g == Is(f, step, "done")
<1>3. /\ g \in Flow /\ g.running = f.running /\ g.finished = f.finished
      /\ g.states["rule"] = f.states["rule"]
  BY <1>1, SetStep
<1>4. o \in Advance(g)
  BY <1>2
<1> HIDE DEF g
<1>5. Follows(g, o)
  BY <1>3, <1>4, AdvanceFollows
<1> QED
  BY <1>3, <1>5 DEF Follows

LEMMA TimedOutFollows ==
  ASSUME NEW f \in Flow, flow.poll \in Steps, NEW o \in TimedOut(f)
  PROVE  Follows(f, o)
<1> DEFINE h == Is(f, flow.poll, "failed")
           g == [h EXCEPT !.running = FALSE]
<1>1. o = Outcome(g, <<>>, service)
  BY DEF TimedOut
<1>2. "rule" \in Steps /\ "failed" \in States /\ "failed" # "done"
  BY DEF Steps, States
<1>3. /\ h \in Flow /\ h.finished = f.finished
      /\ h.states["rule"] = "done" => f.states["rule"] = "done"
  BY <1>2, SetStep
<1> HIDE DEF h
<1>4. g \in Flow /\ g.finished = h.finished /\ g.states = h.states
  BY <1>2, <1>3, Switches
<1> HIDE DEF g
<1>5. ~g.running
  BY <1>3 DEF g, Flow
<1> QED
  BY <1>1, <1>3, <1>4, <1>5, NoCall, OutcomeFollows

(* A settled flow, and whatever concludes a poll.                          *)
LEMMA ConcludeFollows ==
  ASSUME flow \in Flow,
         NEW outcomes, \A o \in outcomes : Follows(Settled(flow), o),
         NEW o \in Conclude(outcomes)
  PROVE  Follows(flow, o)
<1>1. CASE flow.settled
  BY <1>1, NoCall, OutcomeFollows DEF Conclude
<1>2. CASE ~flow.settled
  <2>1. "rule" \in Steps
    BY DEF Steps
  <2>2. Follows(Settled(flow), o)
    BY <1>2 DEF Conclude
  <2>3. /\ Settled(flow).running = flow.running /\ Settled(flow).finished = flow.finished
        /\ Settled(flow).states = flow.states
    BY <2>1, Switches
  <2> QED
    BY <2>2, <2>3 DEF Follows
<1> QED
  BY <1>1, <1>2

(* One step of the sequence: it goes on from a flow f, whose word about    *)
(* the rule is true, with the calls that are kept.                         *)
LEMMA FlowStep ==
  ASSUME IInv, NEW f \in Flow, NEW o, Follows(f, o), NEW rest, Kept(rest),
         flow' = o.flow, calls' = rest \o o.sent, UNCHANGED <<window, rule>>,
         sheet' \in [open : BOOLEAN, starts : Nat, quiet : BOOLEAN],
         uninstall' \in [done : BOOLEAN, quiet : BOOLEAN],
         uninstall'.done = uninstall.done, uninstall'.quiet => uninstall.quiet,
         f.running => sheet'.open,
         sheet'.open /\ sheet'.quiet => InFlight("turnOff") = {} /\ InFlight("disable") = {},
         sheet'.open /\ uninstall'.quiet => InFlight("disable") = {} /\ ~uninstall.done,
         sheet'.open /\ sheet'.quiet =>
           /\ f.finished \/ f.states["rule"] = "done" => rule
           /\ \A k \in InFlight("enable") : calls[k].answer = "ok" => rule
  PROVE  IInv'
<1>1. o.sent \in Seq(Sent)
  BY DEF Follows
<1>2. /\ calls' \in Seq(HelperCall)
      /\ \A j \in DOMAIN calls' :
           \/ \E i \in DOMAIN calls : calls'[j] = calls[i]
           \/ o.sent # <<>> /\ calls'[j] \in Sent
  BY <1>1, ThenInFlight
<1>3. \A c \in Sent : c.op \notin {"disable", "turnOff"} /\ c.answer = "none"
  BY DEF Sent, Call
<1>4. Typed'
  BY <1>2 DEF IInv, Typed, Follows
<1>5. /\ InFlight("turnOff") = {} => InFlight("turnOff")' = {}
      /\ InFlight("disable") = {} => InFlight("disable")' = {}
  BY <1>2, <1>3 DEF InFlight
<1>8. Quiet'
  <2>1. flow'.running => sheet'.open
    BY DEF Follows
  <2> QED
    BY <1>5, <2>1 DEF Quiet
<1>6. TruthOfSetup'
  <2> SUFFICES ASSUME sheet'.open, sheet'.quiet
               PROVE  /\ flow'.finished => rule
                      /\ flow'.states["rule"] = "done" => rule
                      /\ \A k \in InFlight("enable")' : calls'[k].answer = "ok" => rule
    BY DEF TruthOfSetup
  <2>1. (flow'.finished => rule) /\ (flow'.states["rule"] = "done" => rule)
    BY DEF Follows
  <2>2. \A k \in InFlight("enable")' : calls'[k].answer = "ok" => rule
    BY <1>2, <1>3 DEF InFlight
  <2> QED
    BY <2>1, <2>2
<1>7. TruthOfUninstall'
  <2> SUFFICES ASSUME uninstall'.quiet
               PROVE  /\ InFlight("disable")' # {} \/ uninstall.done => InFlight("enable")' = {}
                      /\ uninstall.done => ~rule
                      /\ \A k \in InFlight("disable")' : calls'[k].answer = "ok" => ~rule
    BY DEF TruthOfUninstall
  <2>1. InFlight("disable") # {} \/ uninstall.done => o.sent = <<>>
    BY DEF Follows
  <2>2. /\ InFlight("disable") # {} \/ uninstall.done => InFlight("enable") = {}
        /\ uninstall.done => ~rule
        /\ \A k \in InFlight("disable") : calls[k].answer = "ok" => ~rule
    BY DEF IInv, TruthOfUninstall
  <2>3. InFlight("disable")' # {} \/ uninstall.done => InFlight("enable")' = {}
    BY <1>2, <1>5, <2>1, <2>2 DEF InFlight
  <2>4. \A k \in InFlight("disable")' : calls'[k].answer = "ok" => ~rule
    BY <1>2, <1>3, <2>2 DEF InFlight
  <2> QED
    BY <2>2, <2>3, <2>4
<1> QED
  BY <1>4, <1>6, <1>7, <1>8 DEF IInv

(* The same within a sequence that has begun.                              *)
LEMMA FlowGoesOn ==
  ASSUME IInv, NEW o, Follows(flow, o), NEW rest, Kept(rest),
         flow' = o.flow, calls' = rest \o o.sent,
         UNCHANGED <<window, sheet, rule, uninstall>>
  PROVE  IInv'
<1>1. /\ flow \in Flow /\ sheet' \in [open : BOOLEAN, starts : Nat, quiet : BOOLEAN]
      /\ uninstall' \in [done : BOOLEAN, quiet : BOOLEAN]
  BY DEF IInv, Typed
<1>2. /\ flow.running => sheet'.open
      /\ sheet'.open /\ sheet'.quiet => InFlight("turnOff") = {} /\ InFlight("disable") = {}
      /\ sheet'.open /\ uninstall'.quiet => InFlight("disable") = {} /\ ~uninstall.done
  BY DEF IInv, Quiet
<1>3. sheet'.open /\ sheet'.quiet =>
        /\ flow.finished \/ flow.states["rule"] = "done" => rule
        /\ \A k \in InFlight("enable") : calls[k].answer = "ok" => rule
  BY DEF IInv, TruthOfSetup
<1> QED
  BY <1>1, <1>2, <1>3, FlowStep

-----------------------------------------------------------------------------
(* Every action preserves the invariant.                                   *)

(* It holds at first.                                                      *)
LEMMA InitInvariant == Init => IInv
<1> SUFFICES ASSUME Init PROVE IInv
  OBVIOUS
<1>1. Typed
  BY DEF Init, Typed, Flow, Pending, States
<1>2. DOMAIN calls = {}
  BY DEF Init
<1> QED
  BY <1>1, <1>2 DEF Init, IInv, Quiet, TruthOfSetup, TruthOfUninstall, InFlight, Pending, Steps

(* The assistant opens, or starts again.                                   *)
LEMMA BeginStep == ASSUME IInv, Begin PROVE IInv'
<1> DEFINE reset == Reset(flow)
           begun == [reset EXCEPT !.running = TRUE]
<1>1. flow \in Flow /\ sheet \in [open : BOOLEAN, starts : Nat, quiet : BOOLEAN]
  BY DEF IInv, Typed
<1>2. Pending \in [Steps -> States] /\ Pending["rule"] # "done"
  BY DEF Pending, Steps, States
<1>3. \A f \in {reset, begun} : f \in Flow /\ ~f.finished /\ f.states["rule"] # "done"
  BY <1>1, <1>2 DEF Flow, Reset
<1>4. PICK f, o : /\ f \in {reset, begun} /\ Follows(f, o)
                  /\ flow' = o.flow /\ calls' = calls \o o.sent
  <2>1. CASE flow.running
    <3> DEFINE o == Outcome(reset, <<>>, service)
    <3>1. flow' = o.flow /\ calls' = calls \o o.sent
      BY <2>1 DEF Begin, Becomes
    <3>2. Follows(reset, o)
      BY <1>3, NoCall, OutcomeFollows
    <3> QED
      BY <3>1, <3>2
  <2>2. CASE ~flow.running
    <3>1. PICK o \in Advance(begun) : flow' = o.flow /\ calls' = calls \o o.sent
      BY <2>2 DEF Begin, Becomes
    <3>2. Follows(begun, o)
      BY <1>3, AdvanceFollows
    <3> QED
      BY <3>1, <3>2
  <2> QED
    BY <2>1, <2>2
<1> HIDE DEF reset, begun
<1> DEFINE none == \A op \in Scripts : InFlight(op) = {}
<1>5. /\ sheet' = [open |-> TRUE, starts |-> sheet.starts + 1, quiet |-> none]
      /\ uninstall' = [uninstall EXCEPT !.quiet = @ /\ InFlight("disable") = {}]
      /\ UNCHANGED <<window, rule>>
  BY DEF Begin
<1>6. none \in BOOLEAN
      /\ (none => InFlight("enable") = {} /\ InFlight("turnOff") = {} /\ InFlight("disable") = {})
  BY DEF Scripts
<1> HIDE DEF none
<1>7. sheet' \in [open : BOOLEAN, starts : Nat, quiet : BOOLEAN] /\ sheet'.open /\ sheet'.quiet = none
  BY <1>1, <1>5, <1>6
<1>8. /\ uninstall' \in [done : BOOLEAN, quiet : BOOLEAN] /\ uninstall'.done = uninstall.done
      /\ uninstall'.quiet => uninstall.quiet /\ InFlight("disable") = {}
  BY <1>5 DEF IInv, Typed
<1>9. uninstall.quiet => ~uninstall.done
  BY DEF Begin, IInv, Quiet
<1> QED
  BY <1>3, <1>4, <1>5, <1>6, <1>7, <1>8, <1>9, AllKept, FlowStep

(* Its window closes.                                                      *)
LEMMA CloseStep == ASSUME IInv, Close PROVE IInv'
<1>1. Typed'
  BY DEF IInv, Typed, Close, Refresh, Stop, Flow
<1>2. ~flow'.running /\ ~sheet'.open
  BY DEF IInv, Typed, Close, Stop, Flow
<1> QED
  BY <1>1, <1>2 DEF IInv, Quiet, TruthOfSetup, TruthOfUninstall, InFlight, Close

(* The settings look at the rule again.                                    *)
LEMMA AppearStep == ASSUME IInv, Appear PROVE IInv'
<1>1. Typed'
  BY DEF IInv, Typed, Appear, Refresh
<1> QED
  BY <1>1 DEF IInv, Quiet, TruthOfSetup, TruthOfUninstall, InFlight, Appear

(* The timer beats, and runs out.                                          *)
LEMMA TickStep == ASSUME IInv, Tick PROVE IInv'
<1>1. flow \in Flow /\ flow.poll \in Steps
  BY DEF IInv, Typed, Tick, Flow
<1>2. Settled(flow) \in Flow
  BY <1>1, Switches
<1>3. PICK o : Follows(flow, o) /\ flow' = o.flow /\ calls' = calls \o o.sent
  <2>1. CASE flow.late
    <3>1. PICK o \in Conclude(TimedOut(Settled(flow))) : flow' = o.flow /\ calls' = calls \o o.sent
      BY <2>1 DEF Tick, Becomes
    <3> QED
      BY <1>1, <1>2, <3>1, TimedOutFollows, ConcludeFollows
  <2>2. CASE ~flow.late /\ flow.poll = "fullDisk"
    <3> DEFINE o == Outcome(flow, <<Call("probe")>>, service)
    <3>1. flow' = o.flow /\ calls' = calls \o o.sent
      BY <2>2 DEF Tick, Becomes
    <3>2. <<Call("probe")>> \in Seq(Sent) /\ flow.running
      BY DEF Sent, Tick
    <3>3. Follows(flow, o)
      BY <1>1, <3>2, OutcomeFollows
    <3> QED
      BY <3>1, <3>3
  <2>3. CASE ~flow.late /\ flow.poll # "fullDisk"
    <3>1. PICK o \in Conclude(Approved(Settled(flow))) : flow' = o.flow /\ calls' = calls \o o.sent
      BY <2>3 DEF Tick, Becomes
    <3> QED
      BY <1>1, <1>2, <3>1, GrantFollows, ConcludeFollows
  <2> QED
    BY <2>1, <2>2, <2>3
<1> QED
  BY <1>3, AllKept, FlowGoesOn DEF Tick

LEMMA DeadlineStep == ASSUME IInv, Deadline PROVE IInv'
<1>1. Typed'
  BY DEF IInv, Typed, Deadline, Flow
<1>2. /\ flow'.running = flow.running /\ flow'.finished = flow.finished
      /\ flow'.states = flow.states
  BY DEF IInv, Typed, Deadline, Flow
<1> QED
  BY <1>1, <1>2 DEF IInv, Quiet, TruthOfSetup, TruthOfUninstall, InFlight, Deadline

(* The helper answers: only "enable" writes the rule, and only what        *)
(* succeeded says so.                                                      *)
LEMMA AnswerStep == ASSUME IInv, NEW k \in DOMAIN calls, Answer(k) PROVE IInv'
<1>1. PICK ok \in BOOLEAN, did \in BOOLEAN :
        /\ ok /\ calls[k].op \in Scripts => did
        /\ calls' = [calls EXCEPT ![k].answer = IF ok THEN "ok" ELSE "error"]
        /\ rule' = IF did /\ calls[k].op \in Scripts THEN calls[k].op = "enable" ELSE rule
  BY DEF Answer
<1>2. UNCHANGED <<window, sheet, flow, uninstall>>
  BY DEF Answer
<1>3. calls \in Seq(HelperCall) /\ rule \in BOOLEAN
  BY DEF IInv, Typed
<1>4. /\ calls' \in Seq(HelperCall) /\ DOMAIN calls' = DOMAIN calls
      /\ \A j \in DOMAIN calls : calls'[j].op = calls[j].op /\ (j # k => calls'[j] = calls[j])
      /\ calls'[k].answer = "ok" => ok
  <2> DEFINE answer == IF ok THEN "ok" ELSE "error"
             call == [calls[k] EXCEPT !.answer = answer]
  <2>0. answer \in {"ok", "error"} /\ (answer = "ok" => ok) /\ calls[k] \in HelperCall
    BY <1>3
  <2>1. call \in HelperCall /\ call.op = calls[k].op /\ call.answer = answer
    <3> HIDE DEF answer
    <3> QED
      BY <2>0 DEF HelperCall
  <2>2. calls' = [calls EXCEPT ![k] = call]
    BY <1>1
  <2> HIDE DEF call
  <2> QED
    BY <1>3, <2>0, <2>1, <2>2
<1>5. \A op : InFlight(op)' = InFlight(op)
  BY <1>4 DEF InFlight
<1>6. Typed'
  BY <1>1, <1>2, <1>3, <1>4 DEF IInv, Typed
<1>7. Quiet'
  BY <1>2, <1>5 DEF IInv, Quiet
<1>8. rule' # rule => k \in InFlight("enable") \cup InFlight("disable") \cup InFlight("turnOff")
  BY <1>1 DEF InFlight, Scripts
<1>9. TruthOfSetup'
  <2> SUFFICES ASSUME sheet.open, sheet.quiet
               PROVE  /\ flow.finished => rule'
                      /\ flow.states["rule"] = "done" => rule'
                      /\ \A j \in InFlight("enable") : calls'[j].answer = "ok" => rule'
    BY <1>2, <1>5 DEF TruthOfSetup
  <2>1. InFlight("disable") = {} /\ InFlight("turnOff") = {}
    BY DEF IInv, Quiet
  <2>2. calls[k].op = "enable" /\ ok => rule'
    BY <1>1 DEF Scripts
  <2>3. rule => rule'
    BY <1>1, <1>3, <2>1 DEF InFlight, Scripts
  <2>4. \A j \in InFlight("enable") : calls'[j].answer = "ok" => rule'
    BY <1>4, <2>2, <2>3 DEF IInv, TruthOfSetup, InFlight
  <2> QED
    BY <2>3, <2>4 DEF IInv, TruthOfSetup
<1>10. TruthOfUninstall'
  <2> SUFFICES ASSUME uninstall.quiet, InFlight("disable") # {} \/ uninstall.done
               PROVE  /\ InFlight("enable") = {}
                      /\ uninstall.done => ~rule'
                      /\ \A j \in InFlight("disable") : calls'[j].answer = "ok" => ~rule'
    BY <1>2, <1>5 DEF TruthOfUninstall
  <2>1. InFlight("enable") = {}
    BY DEF IInv, TruthOfUninstall
  <2>2. calls[k].op = "disable" /\ ok => ~rule'
    BY <1>1 DEF Scripts
  <2>3. ~rule => ~rule'
    BY <1>1, <1>3, <2>1 DEF InFlight, Scripts
  <2>4. \A j \in InFlight("disable") : calls'[j].answer = "ok" => ~rule'
    BY <1>4, <2>2, <2>3 DEF IInv, TruthOfUninstall, InFlight
  <2> QED
    BY <2>1, <2>3, <2>4 DEF IInv, TruthOfUninstall
<1> QED
  BY <1>6, <1>7, <1>9, <1>10 DEF IInv

(* What becomes of the settings, whatever happens.                         *)
LEMMA WindowTyped ==
  ASSUME Typed
  PROVE  {window, [window EXCEPT !.busy = TRUE], [shown |-> rule, busy |-> FALSE]}
            \subseteq [shown : BOOLEAN, busy : BOOLEAN]
<1>1. window \in [shown : BOOLEAN, busy : BOOLEAN] /\ rule \in BOOLEAN
  BY DEF Typed
<1>2. [window EXCEPT !.busy = TRUE] \in [shown : BOOLEAN, busy : BOOLEAN]
  BY <1>1
<1>3. [shown |-> rule, busy |-> FALSE] \in [shown : BOOLEAN, busy : BOOLEAN]
  BY <1>1
<1> QED
  BY <1>1, <1>2, <1>3

(* Nothing changes but that fewer calls are in flight.                     *)
LEMMA FewerInFlight ==
  ASSUME IInv, Typed', Kept(calls'), UNCHANGED <<sheet, flow, rule, uninstall>>
  PROVE  IInv'
<1>1. /\ \A op : InFlight(op) = {} => InFlight(op)' = {}
      /\ \A op : \A j \in InFlight(op)' : \E i \in InFlight(op) : calls'[j] = calls[i]
  BY DEF Kept, InFlight
<1>2. Quiet'
  BY <1>1 DEF IInv, Quiet
<1>3. TruthOfSetup'
  BY <1>1 DEF IInv, TruthOfSetup
<1>4. TruthOfUninstall'
  BY <1>1 DEF IInv, TruthOfUninstall
<1> QED
  BY <1>2, <1>3, <1>4 DEF IInv

(* An answer to the assistant is handled.                                  *)
LEMMA HandleStep ==
  ASSUME IInv, NEW k \in DOMAIN calls, Handle(k), calls[k].op # "disable"
  PROVE  IInv'
<1> DEFINE op == calls[k].op
           ok == calls[k].answer = "ok"
           rest == RemoveAt(calls, k)
<1>1. flow \in Flow /\ Settled(flow) \in Flow
  BY Switches DEF IInv, Typed, Steps
<1>2. /\ op \in {"check", "probe", "enable", "turnOff"} /\ UNCHANGED <<sheet, rule, uninstall>>
      /\ op # "turnOff" => UNCHANGED window
  <2>1. calls[k] \in HelperCall
    BY DEF IInv, Typed
  <2>2. op \in {"check", "probe", "enable", "turnOff"}
    BY <2>1 DEF HelperCall
  <2>3. CASE op = "check" /\ ok
    BY <2>3 DEF Handle
  <2>4. CASE op = "check" /\ ~ok
    BY <2>4 DEF Handle
  <2>5. CASE op = "probe"
    BY <2>5 DEF Handle
  <2>6. CASE op = "enable" \/ op = "turnOff"
    BY <2>6 DEF Handle
  <2> QED
    BY <2>2, <2>3, <2>4, <2>5, <2>6
<1>3. Kept(rest)
  BY OthersKept
<1>4. CASE op \in {"check", "probe"}
  <2>1. PICK o : Follows(flow, o) /\ flow' = o.flow /\ calls' = rest \o o.sent
    <3>1. CASE op = "check" /\ ok
      <4>1. PICK o \in Granted(flow) : flow' = o.flow /\ calls' = rest \o o.sent
        BY <3>1 DEF Handle
      <4> QED
        BY <1>1, <4>1, GrantFollows
    <3>2. CASE op = "check" /\ ~ok
      <4> DEFINE g == StartPolling(flow, "fullDisk")
                 o == Outcome(g, <<>>, service)
      <4>1. flow' = o.flow /\ calls' = rest \o o.sent
        BY <3>2 DEF Handle
      <4>2. g \in Flow /\ g.finished = flow.finished /\ g.states = flow.states
            /\ g.running = flow.running
        BY <1>1, Switches DEF Steps
      <4> HIDE DEF g
      <4>3. Follows(flow, o)
        BY <4>2, NoCall, OutcomeFollows
      <4> QED
        BY <4>1, <4>3
    <3>3. CASE op = "probe" /\ ok
      <4>1. PICK o \in Conclude(Granted(Settled(flow))) : flow' = o.flow /\ calls' = rest \o o.sent
        BY <3>3 DEF Handle
      <4> QED
        BY <1>1, <4>1, GrantFollows, ConcludeFollows
    <3>4. CASE op = "probe" /\ ~ok
      <4> DEFINE o == Outcome(flow, <<>>, service)
      <4>1. flow' = o.flow /\ calls' = rest \o o.sent
        BY <3>4 DEF Handle
      <4>2. Follows(flow, o)
        BY <1>1, NoCall, OutcomeFollows
      <4> QED
        BY <4>1, <4>2
    <3> QED
      BY <1>4, <3>1, <3>2, <3>3, <3>4
  <2> QED
    BY <1>2, <1>3, <1>4, <2>1, FlowGoesOn
<1>5. CASE op = "enable"
  <2> DEFINE h == Is(flow, "rule", IF ok THEN "done" ELSE "failed")
             written == [h EXCEPT !.finished = @ \/ ok]
             g == Stop(written)
             o == Outcome(g, <<>>, service)
  <2>1. flow' = o.flow /\ calls' = rest \o o.sent
    BY <1>5 DEF Handle
  <2>2. h \in Flow /\ (h.states["rule"] = "done" => ok) /\ h.finished = flow.finished
    BY <1>1, SetStep DEF Steps, States
  <2> HIDE DEF h
  <2>3. written \in Flow /\ written.states = h.states /\ (written.finished => flow.finished \/ ok)
    BY <2>2 DEF Flow
  <2> HIDE DEF written
  <2>4. g \in Flow /\ ~g.running /\ g.states = written.states /\ g.finished = written.finished
    BY <2>3 DEF Stop, Flow
  <2> HIDE DEF g
  <2>5. Follows(g, o)
    BY <2>4, NoCall, OutcomeFollows
  <2>6. sheet.open /\ sheet.quiet =>
          /\ g.finished \/ g.states["rule"] = "done" => rule
          /\ \A j \in InFlight("enable") : calls[j].answer = "ok" => rule
    BY <1>5, <2>2, <2>3, <2>4 DEF IInv, TruthOfSetup, InFlight
  <2>7. /\ sheet' \in [open : BOOLEAN, starts : Nat, quiet : BOOLEAN]
        /\ uninstall' \in [done : BOOLEAN, quiet : BOOLEAN]
        /\ sheet'.open /\ sheet'.quiet => InFlight("turnOff") = {} /\ InFlight("disable") = {}
        /\ sheet'.open /\ uninstall'.quiet => InFlight("disable") = {} /\ ~uninstall.done
    BY <1>2 DEF IInv, Typed, Quiet
  <2> QED
    BY <1>2, <1>3, <1>5, <2>1, <2>4, <2>5, <2>6, <2>7, FlowStep
<1>6. CASE op = "turnOff"
  <2>1. Refresh(FALSE) /\ calls' = rest /\ UNCHANGED flow
    BY <1>6 DEF Handle
  <2>2. Typed'
    BY <1>2, <1>3, <2>1 DEF IInv, Typed, Refresh, Kept
  <2> QED
    BY <1>2, <1>3, <2>1, <2>2, FewerInFlight
<1> QED
  BY <1>2, <1>4, <1>5, <1>6

(* The answer to the uninstaller is.                                       *)
LEMMA FinishStep ==
  ASSUME IInv, NEW k \in DOMAIN calls, Handle(k), calls[k].op = "disable"
  PROVE  IInv'
<1> DEFINE ok == calls[k].answer = "ok"
           rest == RemoveAt(calls, k)
<1>1. FinishSystemSide(ok) /\ calls' = rest /\ UNCHANGED <<sheet, flow, rule>>
  BY DEF Handle
<1>2. /\ uninstall \in [done : BOOLEAN, quiet : BOOLEAN] /\ InFlight("disable") # {}
      /\ uninstall.quiet => InFlight("enable") = {} /\ (ok => ~rule)
  BY DEF IInv, Typed, TruthOfUninstall, InFlight
<1>3. Kept(rest)
  BY OthersKept
<1> HIDE DEF rest
<1>4. CASE uninstall' = uninstall
  <2>0. window' \in {window, [shown |-> rule, busy |-> FALSE]}
    BY <1>1 DEF FinishSystemSide, Refresh
  <2>1. Typed'
    BY <1>1, <1>3, <1>4, <2>0, WindowTyped DEF IInv, Typed, Kept
  <2> QED
    BY <1>1, <1>3, <1>4, <2>1, FewerInFlight
<1>5. CASE (ok \/ ~rule) /\ uninstall' = [uninstall EXCEPT !.done = TRUE] /\ UNCHANGED window
  <2>1. uninstall' \in [done : BOOLEAN, quiet : BOOLEAN] /\ uninstall'.quiet = uninstall.quiet
    BY <1>2, <1>5
  <2>2. Typed'
    BY <1>1, <1>3, <1>5, <2>1 DEF IInv, Typed, Kept
  <2>3. /\ \A op : InFlight(op) = {} => InFlight(op)' = {}
        /\ \A op : \A j \in InFlight(op)' : \E i \in InFlight(op) : calls'[j] = calls[i]
    BY <1>1, <1>3 DEF Kept, InFlight
  <2>4. Quiet'
    BY <1>1, <1>2, <2>1, <2>3 DEF IInv, Quiet
  <2>5. TruthOfSetup'
    BY <1>1, <2>3 DEF IInv, TruthOfSetup
  <2>6. uninstall'.quiet => InFlight("enable")' = {} /\ ~rule'
    BY <1>1, <1>2, <1>5, <2>1, <2>3
  <2>7. TruthOfUninstall'
    BY <2>6 DEF TruthOfUninstall
  <2> QED
    BY <2>2, <2>4, <2>5, <2>7 DEF IInv
<1> QED
  BY <1>1, <1>4, <1>5 DEF FinishSystemSide

(* The other buttons of the settings: a call, or none.                     *)
LEMMA TurnOffStep == ASSUME IInv, TurnOff PROVE IInv'
<1>1. ~sheet.open /\ UNCHANGED <<sheet, flow, rule, uninstall>>
  BY DEF TurnOff
<1>2. /\ calls' = calls \/ calls' = Append(calls, Call("turnOff"))
      /\ window' \in {[window EXCEPT !.busy = TRUE], [shown |-> rule, busy |-> FALSE]}
  BY DEF TurnOff, WithHelper, Refresh
<1>3. calls \in Seq(HelperCall) /\ Call("turnOff") \in HelperCall /\ Call("turnOff").op = "turnOff"
  BY DEF IInv, Typed, Call, HelperCall
<1>4. /\ calls' \in Seq(HelperCall)
      /\ \A j \in DOMAIN calls' :
           \/ j \in DOMAIN calls /\ calls'[j] = calls[j]
           \/ calls'[j].op = "turnOff"
  BY <1>2, <1>3
<1>5. Typed'
  BY <1>1, <1>2, <1>4, WindowTyped DEF IInv, Typed
<1>6. Quiet' /\ TruthOfSetup'
  BY <1>1 DEF IInv, Quiet, TruthOfSetup
<1>7. TruthOfUninstall'
  BY <1>1, <1>4 DEF IInv, TruthOfUninstall, InFlight
<1> QED
  BY <1>5, <1>6, <1>7 DEF IInv

LEMMA UninstallStep == ASSUME IInv, Uninstall PROVE IInv'
<1> DEFINE quiet == InFlight("enable") = {} /\ (InFlight("disable") = {} \/ uninstall.quiet)
<1>1. /\ ~sheet.open /\ UNCHANGED <<sheet, flow, rule>>
      /\ uninstall' = [done |-> ~rule, quiet |-> quiet]
  BY DEF Uninstall
<1>2. /\ calls' = calls \/ calls' = Append(calls, Call("disable"))
      /\ window' \in {window, [window EXCEPT !.busy = TRUE], [shown |-> rule, busy |-> FALSE]}
  <2>1. CASE rule
    BY <2>1 DEF Uninstall, WithHelper, Refresh
  <2>2. CASE ~rule
    BY <2>2 DEF Uninstall
  <2> QED
    BY <2>1, <2>2
<1>3. calls \in Seq(HelperCall) /\ Call("disable") \in HelperCall
      /\ Call("disable").op = "disable" /\ Call("disable").answer = "none"
  BY DEF IInv, Typed, Call, HelperCall
<1>4. /\ calls' \in Seq(HelperCall)
      /\ \A j \in DOMAIN calls' :
           \/ j \in DOMAIN calls /\ calls'[j] = calls[j]
           \/ calls'[j] = Call("disable")
  BY <1>2, <1>3
<1>5. quiet \in BOOLEAN /\ (quiet => \A k \in InFlight("disable") : calls[k].answer = "ok" => ~rule)
  BY DEF IInv, TruthOfUninstall
<1>6. quiet => InFlight("enable") = {}
  OBVIOUS
<1> HIDE DEF quiet
<1>7. Typed'
  BY <1>1, <1>2, <1>4, <1>5, WindowTyped DEF IInv, Typed
<1>8. Quiet' /\ TruthOfSetup'
  BY <1>1 DEF IInv, Quiet, TruthOfSetup
<1>9. TruthOfUninstall'
  <2>1. quiet => InFlight("enable")' = {}
    BY <1>3, <1>4, <1>6 DEF InFlight
  <2>2. quiet => \A k \in InFlight("disable")' : calls'[k].answer = "ok" => ~rule
    BY <1>3, <1>4, <1>5 DEF InFlight
  <2> QED
    BY <1>1, <2>1, <2>2 DEF TruthOfUninstall
<1> QED
  BY <1>7, <1>8, <1>9 DEF IInv

-----------------------------------------------------------------------------
(* The theorems.                                                           *)

(* The invariant holds of every behaviour.                                 *)
THEOREM InductiveInvariant == Spec => []IInv
<1>1. IInv /\ [Next]_vars => IInv'
  <2> SUFFICES ASSUME IInv, [Next]_vars PROVE IInv'
    OBVIOUS
  <2>1. ASSUME NEW k \in DOMAIN calls, Handle(k) PROVE IInv'
    BY <2>1, HandleStep, FinishStep
  <2>2. CASE Approve \/ GrantAccess \/ UNCHANGED vars
    BY <2>2 DEF Approve, GrantAccess, vars,
                IInv, Typed, Quiet, TruthOfSetup, TruthOfUninstall, InFlight
  <2> QED
    BY <2>1, <2>2, BeginStep, CloseStep, AppearStep, TickStep, DeadlineStep, AnswerStep, TurnOffStep,
       UninstallStep DEF Next
<1> QED
  BY <1>1, InitInvariant, PTL DEF Spec

(* The assistant announces the end only with the rule in place, whatever   *)
(* answers an earlier sequence left behind, if no script ran when it began. *)
THEOREM TrueEnd == Spec => []FinishedIsTrue
<1>1. IInv => FinishedIsTrue
  BY DEF IInv, TruthOfSetup, FinishedIsTrue
<1> QED
  BY <1>1, InductiveInvariant, PTL

(* An uninstallation that goes on has removed the rule, or found none,     *)
(* whatever became of the helper's answer, if the rule was not being       *)
(* written when it began and the assistant not started beside it.          *)
THEOREM CleanUninstall == Spec => []UninstallLeavesNoRule
<1>1. IInv => UninstallLeavesNoRule
  BY DEF IInv, TruthOfUninstall, UninstallLeavesNoRule
<1> QED
  BY <1>1, InductiveInvariant, PTL
=============================================================================
