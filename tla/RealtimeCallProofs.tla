-------------------------- MODULE RealtimeCallProofs --------------------------
(***************************************************************************)
(* Proofs about RealtimeCall, for every set of configurations and reports, *)
(* with the session in process memory or in a shared store.                *)
(***************************************************************************)
EXTENDS RealtimeCall, TLAPS

(***************************************************************************)
(* The inductive invariant.  The model may answer only after the greeting  *)
(* was asked for; before the route runs an engine nothing was asked for    *)
(* and no fallback is pending.                                             *)
(***************************************************************************)
GreetedFirst ==
  /\ model.auto \/ model.responding \/ s.endCallId \/ hist.greetings > 0 => s.greeted
  /\ route \in {"none", "connecting", "configuring", "starting"} => ~s.greeted /\ ~s.fallback

\* A barge-in waits for its confirmation only while the callee speaks.
BargeIsOfCaller == s.barge => model.speech

\* The hang-up is the last stage of the one task that finishes the call.
EndsOnce ==
  /\ s.ending <=> s.finish # "none"
  /\ hist.hangups > 0 => s.finish = "done"

\* A session is closed by the end of the run it is used in, or by its time to
\* live, which runs out only while it is parked.
ClosedByOne ==
  /\ route = "none" => ran = None
  /\ route # "none" => ran \in Engine
  /\ warmer \in {"connecting", "configuring"} => ran # "warm"
  /\ parked => warmer = "sleeping" /\ ran # "warm"
  /\ closed["warm"] => IF ran = "warm" THEN route = "over" ELSE warmer = "done"
  /\ closed["cold"] => ran = "cold" /\ route = "over"

Inv ==
  /\ TypeOK
  /\ GreetedFirst
  /\ BargeIsOfCaller
  /\ EndsOnce
  /\ ClosedByOne
  /\ StoppedSpeechIsIgnored
  /\ ReportStands

Models == [auto : BOOLEAN, responding : BOOLEAN, speech : BOOLEAN, owed : BOOLEAN]

LEMMA InvInit == ASSUME Init PROVE Inv
<1>1. s \in Flags
  BY DEF Init, Flags, Reportable, None
<1>2. model \in Models
  BY DEF Init, Models
<1>3. hist \in [greetings : 0..1, late : BOOLEAN, hangups : 0..1, reports : SUBSET CallOutcome]
  BY DEF Init, Reportable
<1>4. closed \in [Engine -> BOOLEAN] /\ socket \in [Engine -> {"none", "open", "lost", "shut"}]
  BY DEF Init
<1>5. TypeOK
  BY <1>1, <1>2, <1>3, <1>4 DEF Init, TypeOK, Models
<1>6. ~s.greeted /\ ~s.fallback /\ ~s.endCallId /\ ~model.auto /\ ~model.responding /\ hist.greetings = 0
  BY DEF Init
<1>7. GreetedFirst
  BY <1>6 DEF GreetedFirst
<1>8. ~s.barge /\ ~s.ending /\ s.finish = "none" /\ hist.hangups = 0 /\ ~hist.late /\ hist.reports = {}
  BY DEF Init
<1>9. BargeIsOfCaller /\ EndsOnce /\ StoppedSpeechIsIgnored /\ ReportStands
  BY <1>8 DEF BargeIsOfCaller, EndsOnce, StoppedSpeechIsIgnored, ReportStands
<1>10. ClosedByOne
  BY DEF Init, ClosedByOne, Engine, None
<1>11. QED BY <1>5, <1>7, <1>9, <1>10 DEF Inv

(***************************************************************************)
(* The parts of a step.                                                    *)
(***************************************************************************)

\* Steps that leave the engine session, the model and the history alone.
LEMMA LinesStep ==
  ASSUME Inv, TypeOK', ClosedByOne', UNCHANGED <<s, model, hist>>,
         route' \in {"none", "connecting", "configuring", "starting"}
           => route \in {"none", "connecting", "configuring", "starting"}
  PROVE  Inv'
  BY DEF Inv, GreetedFirst, BargeIsOfCaller, EndsOnce, StoppedSpeechIsIgnored, ReportStands

\* What the outcome of a report is.
LEMMA DowngradedIsOutcome ==
  ASSUME NEW f \in Flags, NEW report \in CallOutcome
  PROVE  Downgraded(f, report) \in CallOutcome /\ Downgraded(f, report) # None
  BY DEF Downgraded, CallOutcome, None

\* A call with a report has an outcome.
LEMMA ReportIsOutcome ==
  ASSUME TypeOK, ReportStands, hist.reports # {}
  PROVE  s.outcome # None
<1>1. s.outcome \in CallOutcome
  BY DEF TypeOK, ReportStands
<1>2. QED BY <1>1 DEF CallOutcome, None

\* The flags g differ from f neither in the greeting nor in the barge-in.
SameCourse(f, g) ==
  g.greeted = f.greeted /\ g.fallback = f.fallback /\ g.endCallId = f.endCallId /\ g.barge = f.barge

LEMMA RecordOutcomeType ==
  ASSUME NEW f \in Flags, NEW report \in Reportable, NEW source \in {"tool", "inference"}
  PROVE  /\ RecordOutcome(f, report, source) \in Flags
         /\ SameCourse(f, RecordOutcome(f, report, source))
         /\ RecordOutcome(f, report, source).ending = f.ending
         /\ RecordOutcome(f, report, source).finish = f.finish
<1> DEFINE g == [f EXCEPT !.source = source, !.outcome = Downgraded(f, report)]
<1>1. CASE RecordOutcome(f, report, source) = f
  BY <1>1 DEF SameCourse
<1>2. CASE report # None /\ RecordOutcome(f, report, source) = g
  <2>1. Downgraded(f, report) \in Reportable
    BY <1>2, DowngradedIsOutcome DEF Reportable
  <2>2. g \in Flags
    BY <2>1 DEF Flags
  <2>3. SameCourse(f, g) /\ g.ending = f.ending /\ g.finish = f.finish
    BY DEF SameCourse, Flags
  <2>4. QED BY <1>2, <2>2, <2>3
<1>3. QED BY <1>1, <1>2 DEF RecordOutcome

LEMMA InferOutcomeType ==
  ASSUME NEW f \in Flags, NEW escalates \in BOOLEAN
  PROVE  /\ InferOutcome(f, escalates) \in Flags
         /\ SameCourse(f, InferOutcome(f, escalates))
         /\ InferOutcome(f, escalates).ending = f.ending
         /\ InferOutcome(f, escalates).finish = f.finish
         /\ f.outcome # None => InferOutcome(f, escalates) = f
<1> DEFINE inferred == IF f.voicemail THEN "no_answer" ELSE IF escalates THEN "escalate_human" ELSE "resolved"
<1>1. inferred \in Reportable
  BY DEF Reportable, CallOutcome
<1>2. CASE f.outcome # None
  <2>1. InferOutcome(f, escalates) = f
    BY <1>2 DEF InferOutcome
  <2>2. QED BY <2>1 DEF SameCourse
<1>3. CASE f.outcome = None
  <2>1. InferOutcome(f, escalates) = RecordOutcome(f, inferred, "inference")
    BY <1>3 DEF InferOutcome
  <2> HIDE DEF inferred
  <2>2. QED BY <1>1, <1>3, <2>1, RecordOutcomeType
<1>4. QED BY <1>2, <1>3

LEMMA FinishCallType ==
  ASSUME NEW f \in Flags, f.ending <=> f.finish # "none"
  PROVE  /\ FinishCall(f) \in Flags
         /\ SameCourse(f, FinishCall(f))
         /\ FinishCall(f).outcome = f.outcome /\ FinishCall(f).source = f.source
         /\ FinishCall(f).ending <=> FinishCall(f).finish # "none"
         /\ f.finish = "done" => FinishCall(f).finish = "done"
<1> DEFINE g == [f EXCEPT !.ending = TRUE, !.finish = "grace"]
<1>1. CASE FinishCall(f) = f
  BY <1>1 DEF SameCourse
<1>2. CASE ~f.ending /\ FinishCall(f) = g
  <2>1. g \in Flags
    BY DEF Flags
  <2>2. SameCourse(f, g) /\ g.outcome = f.outcome /\ g.source = f.source
    BY DEF SameCourse, Flags
  <2>3. g.ending /\ g.finish = "grace"
    BY DEF Flags
  <2> HIDE DEF g
  <2>4. g.ending <=> g.finish # "none"
    BY <2>3
  <2>5. f.finish # "done"
    BY <1>2
  <2>6. QED BY <1>2, <2>1, <2>2, <2>4, <2>5
<1>3. QED BY <1>1, <1>2 DEF FinishCall

\* The greeting is asked for at most once, and opens the model's mouth.
LEMMA TriggerGreetingStep ==
  ASSUME Inv, route \notin {"none", "connecting", "configuring", "starting"},
         NEW f \in Flags, NEW m \in Models,
         f.greeted = s.greeted, f.endCallId = s.endCallId, f.ending = s.ending,
         f.finish = s.finish, f.outcome = s.outcome, f.source = s.source,
         m.auto \/ m.responding => s.greeted, f.barge => m.speech,
         TriggerGreeting(f, m), UNCHANGED lines
  PROVE  Inv'
<1>1. TypeOK'
  <2>1. s' \in Flags
    BY DEF TriggerGreeting, Flags, MayGreet
  <2>2. model' \in Models
    BY DEF TriggerGreeting, Models
  <2>3. ~s.greeted => hist.greetings = 0
    BY DEF Inv, TypeOK, GreetedFirst
  <2>4. hist' \in [greetings : 0..1, late : BOOLEAN, hangups : 0..1, reports : SUBSET CallOutcome]
    BY <2>3 DEF Inv, TypeOK, TriggerGreeting, MayGreet
  <2>5. QED BY <2>1, <2>2, <2>4 DEF Inv, TypeOK, lines, Models
<1>2. /\ s'.greeted <=> f.greeted \/ MayGreet
      /\ s'.endCallId = f.endCallId /\ s'.barge = f.barge
  BY DEF TriggerGreeting, Flags
<1>3. /\ model'.speech = m.speech
      /\ model'.auto \/ model'.responding => m.auto \/ m.responding \/ MayGreet
      /\ hist'.greetings > 0 => hist.greetings > 0 \/ MayGreet
  BY DEF Inv, TypeOK, TriggerGreeting, Models
<1>4. hist.greetings > 0 \/ s.endCallId => s.greeted
  BY DEF Inv, GreetedFirst
<1>5. GreetedFirst' /\ BargeIsOfCaller'
  BY <1>2, <1>3, <1>4 DEF GreetedFirst, BargeIsOfCaller, lines
<1>6. EndsOnce' /\ StoppedSpeechIsIgnored' /\ ReportStands'
  BY DEF Inv, TypeOK, EndsOnce, StoppedSpeechIsIgnored, ReportStands, TriggerGreeting, MayGreet, Flags, lines
<1>7. ClosedByOne'
  BY DEF Inv, ClosedByOne, lines
<1>8. QED BY <1>1, <1>5, <1>6, <1>7 DEF Inv

(***************************************************************************)
(* The actions.                                                            *)
(***************************************************************************)
LEMMA ConnectingStep ==
  ASSUME Inv,
         WarmConnects \/ WarmParks \/ WarmExpires \/ StreamOpens \/ ColdConnects \/ ColdConfigures
           \/ Answer \/ Drop
  PROVE  Inv'
<1>1. UNCHANGED <<s, model, hist>>
  BY DEF WarmConnects, WarmParks, WarmExpires, StreamOpens, ColdConnects, ColdConfigures, Answer, Drop
<1>2. route' \in {"none", "connecting", "configuring", "starting"}
        => route \in {"none", "connecting", "configuring", "starting"}
  BY DEF WarmConnects, WarmParks, WarmExpires, StreamOpens, ColdConnects, ColdConfigures, Answer, Drop
<1>3. CASE WarmConnects \/ WarmParks
  <2>1. TypeOK'
    BY <1>3 DEF Inv, TypeOK, WarmConnects, WarmParks, Connect, Engine
  <2>2. ClosedByOne'
    BY <1>3 DEF Inv, TypeOK, ClosedByOne, WarmConnects, WarmParks, Connect
  <2>3. QED BY <1>1, <1>2, <2>1, <2>2, LinesStep
<1>4. CASE WarmExpires
  <2>1. TypeOK'
    <3>1. socket' \in [Engine -> {"none", "open", "lost", "shut"}] /\ parked' \in BOOLEAN
      BY <1>4 DEF Inv, TypeOK, WarmExpires, CloseUnclaimed, Shut, Engine
    <3>2. closed' \in [Engine -> BOOLEAN]
      BY <1>4 DEF Inv, TypeOK, WarmExpires, CloseUnclaimed, Engine
    <3>3. QED BY <1>4, <3>1, <3>2 DEF Inv, TypeOK, WarmExpires
  <2>2. ClosedByOne'
    BY <1>4 DEF Inv, TypeOK, ClosedByOne, WarmExpires, CloseUnclaimed, Shut, Engine
  <2>3. QED BY <1>1, <1>2, <2>1, <2>2, LinesStep
<1>5. CASE StreamOpens
  <2>1. TypeOK'
    BY <1>5 DEF Inv, TypeOK, StreamOpens, Engine
  <2>2. ClosedByOne'
    BY <1>5 DEF Inv, TypeOK, ClosedByOne, StreamOpens, Engine, None
  <2>3. QED BY <1>1, <1>2, <2>1, <2>2, LinesStep
<1>6. CASE ColdConnects \/ ColdConfigures
  <2>1. TypeOK'
    BY <1>6 DEF Inv, TypeOK, ColdConnects, ColdConfigures, Connect, Engine
  <2>2. ClosedByOne'
    BY <1>6 DEF Inv, TypeOK, ClosedByOne, ColdConnects, ColdConfigures, Connect, Engine
  <2>3. QED BY <1>1, <1>2, <2>1, <2>2, LinesStep
<1>7. CASE Answer \/ Drop
  <2>1. TypeOK' /\ ClosedByOne'
    BY <1>7 DEF Inv, TypeOK, ClosedByOne, Answer, Drop
  <2>2. QED BY <1>1, <1>2, <2>1, LinesStep
<1>8. QED BY <1>3, <1>4, <1>5, <1>6, <1>7

LEMMA RunStartsStep == ASSUME Inv, RunStarts PROVE Inv'
<1>0. route = "starting" /\ ran \in Engine /\ hist.greetings = 0
  BY DEF Inv, TypeOK, GreetedFirst, ClosedByOne, RunStarts
<1>1. s \in Flags /\ model \in Models /\ config.wait_for_caller \in BOOLEAN
  BY RealtimeAssumption DEF Inv, TypeOK, Configs, Models
<1>2. ClosedByOne'
  BY <1>0 DEF Inv, TypeOK, ClosedByOne, RunStarts, Engine, None
<1> DEFINE g == [s EXCEPT !.pumps = {"acs", "model"}, !.sender = TRUE,
                          !.fallback = Fallback, !.greeted = ~config.wait_for_caller]
           m == [model EXCEPT !.auto = AutoResponse, !.responding = ~config.wait_for_caller]
<1>3. CASE config.wait_for_caller \/ socket[ran] = "open"
  <2>1. /\ s' = g /\ model' = m /\ route' = "running" /\ UNCHANGED <<socket, closed>>
        /\ hist' = [hist EXCEPT !.greetings = IF config.wait_for_caller THEN @ ELSE @ + 1]
    BY <1>3 DEF RunStarts
  <2>2. g \in Flags /\ m \in Models
    BY <1>1 DEF Flags, Models, Fallback, AutoResponse
  <2>3. /\ hist' \in [greetings : 0..1, late : BOOLEAN, hangups : 0..1, reports : SUBSET CallOutcome]
        /\ hist'.late = hist.late /\ hist'.hangups = hist.hangups /\ hist'.reports = hist.reports
    BY <1>0, <2>1 DEF Inv, TypeOK
  <2>4. TypeOK'
    BY <2>1, <2>2, <2>3 DEF Inv, TypeOK, RunStarts, Models
  <2>5. /\ g.greeted = ~config.wait_for_caller /\ g.endCallId = s.endCallId /\ g.barge = s.barge
        /\ g.ending = s.ending /\ g.finish = s.finish /\ g.outcome = s.outcome /\ g.source = s.source
    BY <1>1 DEF Flags
  <2>6. m.auto = ~config.wait_for_caller /\ m.responding = ~config.wait_for_caller /\ m.speech = model.speech
    BY <1>1 DEF Models, AutoResponse
  <2>7. ~s.endCallId
    BY <1>0 DEF Inv, GreetedFirst
  <2> HIDE DEF g, m
  <2>8. hist'.greetings > 0 => ~config.wait_for_caller
    BY <1>0, <1>1, <2>1 DEF Inv, TypeOK
  <2>9. GreetedFirst'
    BY <1>1, <2>1, <2>5, <2>6, <2>7, <2>8 DEF GreetedFirst
  <2>10. BargeIsOfCaller' /\ StoppedSpeechIsIgnored' /\ ReportStands'
    BY <2>1, <2>3, <2>5, <2>6 DEF Inv, BargeIsOfCaller, StoppedSpeechIsIgnored, ReportStands
  <2>11. EndsOnce'
    BY <2>1, <2>3, <2>5 DEF Inv, EndsOnce
  <2>12. QED BY <1>2, <2>4, <2>9, <2>10, <2>11 DEF Inv
<1>4. CASE ~(config.wait_for_caller \/ socket[ran] = "open")
  <2>1. /\ s' = [s EXCEPT !.greeted = TRUE] /\ route' = "over" /\ Shut(ran)
        /\ UNCHANGED <<model, hist, closed>>
    BY <1>4 DEF RunStarts
  <2>2. /\ s' \in Flags /\ s'.greeted /\ s'.endCallId = s.endCallId /\ s'.barge = s.barge
        /\ s'.ending = s.ending /\ s'.finish = s.finish /\ s'.outcome = s.outcome /\ s'.source = s.source
    BY <1>1, <2>1 DEF Flags
  <2>3. TypeOK'
    BY <2>1, <2>2 DEF Inv, TypeOK, RunStarts, Shut
  <2>4. GreetedFirst' /\ BargeIsOfCaller' /\ StoppedSpeechIsIgnored' /\ ReportStands'
    BY <2>1, <2>2 DEF Inv, GreetedFirst, BargeIsOfCaller, StoppedSpeechIsIgnored, ReportStands
  <2>5. EndsOnce'
    BY <2>1, <2>2 DEF Inv, EndsOnce
  <2>6. QED BY <1>2, <2>3, <2>4, <2>5 DEF Inv
<1>5. QED BY <1>3, <1>4

LEMMA CloseRunStep == ASSUME Inv, route = "running", CloseRun PROVE Inv'
<1>0. ran \in Engine
  BY DEF Inv, ClosedByOne
<1>1. TypeOK'
  <2>1. s' \in Flags
    BY DEF Inv, TypeOK, CloseRun, Flags
  <2>2. socket' \in [Engine -> {"none", "open", "lost", "shut"}]
    BY <1>0 DEF Inv, TypeOK, CloseRun, Shut
  <2>3. closed' \in [Engine -> BOOLEAN]
    BY <1>0 DEF Inv, TypeOK, CloseRun
  <2>4. QED BY <2>1, <2>2, <2>3 DEF Inv, TypeOK, CloseRun
<1>2. GreetedFirst' /\ BargeIsOfCaller' /\ EndsOnce' /\ StoppedSpeechIsIgnored' /\ ReportStands'
  BY DEF Inv, TypeOK, GreetedFirst, BargeIsOfCaller, EndsOnce, StoppedSpeechIsIgnored, ReportStands, CloseRun, Flags
<1>3. ClosedByOne'
  BY <1>0 DEF Inv, TypeOK, ClosedByOne, CloseRun, Engine, None
<1>4. QED BY <1>1, <1>2, <1>3 DEF Inv

LEMMA ModelDropsStep == ASSUME Inv, NEW e \in Engine, ModelDrops(e) PROVE Inv'
<1>1. TypeOK'
  BY DEF Inv, TypeOK, ModelDrops, Engine
<1>2. GreetedFirst' /\ BargeIsOfCaller' /\ EndsOnce' /\ StoppedSpeechIsIgnored' /\ ReportStands'
  BY DEF Inv, TypeOK, GreetedFirst, BargeIsOfCaller, EndsOnce, StoppedSpeechIsIgnored, ReportStands, ModelDrops
<1>3. ClosedByOne'
  BY DEF Inv, ClosedByOne, ModelDrops
<1>4. QED BY <1>1, <1>2, <1>3 DEF Inv

LEMMA ClosingStep == ASSUME Inv, Closing PROVE Inv'
<1>1. CASE AcsPumpEnds \/ (ModelPumpEnds /\ ~CloseRun)
  <2>1. s' = [s EXCEPT !.pumps = s'.pumps] /\ s'.pumps \in SUBSET {"acs", "model"} /\ UNCHANGED <<lines, model, hist>>
    BY <1>1 DEF Inv, TypeOK, Flags, AcsPumpEnds, ModelPumpEnds
  <2>2. TypeOK' /\ ClosedByOne'
    BY <2>1 DEF Inv, TypeOK, ClosedByOne, Flags, lines
  <2>3. GreetedFirst' /\ BargeIsOfCaller' /\ EndsOnce' /\ StoppedSpeechIsIgnored' /\ ReportStands'
    BY <2>1 DEF Inv, TypeOK, GreetedFirst, BargeIsOfCaller, EndsOnce, StoppedSpeechIsIgnored, ReportStands, Flags, lines
  <2>4. QED BY <2>2, <2>3 DEF Inv
<1>2. CASE RunEnds \/ (ModelPumpEnds /\ CloseRun)
  BY <1>2, CloseRunStep DEF RunEnds, ModelPumpEnds
<1>3. QED BY <1>1, <1>2 DEF Closing

LEMMA FallbackFiresStep == ASSUME Inv, FallbackFires PROVE Inv'
<1> DEFINE f == [s EXCEPT !.fallback = FALSE]
<1>1. route \notin {"none", "connecting", "configuring", "starting"}
  BY DEF Inv, GreetedFirst, FallbackFires
<1>2. /\ f \in Flags /\ f.greeted = s.greeted /\ f.endCallId = s.endCallId /\ f.ending = s.ending
      /\ f.finish = s.finish /\ f.outcome = s.outcome /\ f.source = s.source /\ f.barge = s.barge
  BY DEF Inv, TypeOK, Flags
<1>3. TriggerGreeting(f, model) /\ UNCHANGED lines
  BY DEF FallbackFires
<1>4. model.auto \/ model.responding => s.greeted
  BY DEF Inv, GreetedFirst
<1>5. f.barge => model.speech
  BY <1>2 DEF Inv, BargeIsOfCaller
<1>6. model \in Models
  BY DEF Inv, TypeOK, Models
<1> HIDE DEF f
<1>7. QED BY <1>1, <1>2, <1>3, <1>4, <1>5, <1>6, TriggerGreetingStep

\* The flags f and the model m differ from the present ones in nothing that the
\* invariant is about, but that the callee may be silent and no barge-in pending.
LEMMA QuietStep ==
  ASSUME Inv, NEW f \in Flags, NEW m \in Models,
         f.greeted = s.greeted, f.fallback = s.fallback, f.endCallId = s.endCallId,
         f.ending = s.ending, f.finish = s.finish, f.outcome = s.outcome, f.source = s.source,
         m.auto \/ m.responding => s.greeted, f.barge => m.speech,
         s' = f, model' = m, UNCHANGED <<lines, hist>>
  PROVE  Inv'
<1>1. TypeOK' /\ ClosedByOne'
  BY DEF Inv, TypeOK, ClosedByOne, Models, lines
<1>2. GreetedFirst' /\ BargeIsOfCaller' /\ EndsOnce' /\ StoppedSpeechIsIgnored' /\ ReportStands'
  BY DEF Inv, GreetedFirst, BargeIsOfCaller, EndsOnce, StoppedSpeechIsIgnored, ReportStands, lines
<1>3. QED BY <1>1, <1>2 DEF Inv

\* Audio changes only what the invariant does not mention, or the barge-in, which
\* waits while the callee speaks.
LEMMA AudioStep ==
  ASSUME Inv, AudioDelta \/ ResponseDone \/ SenderSends \/ SpeechStarted \/ BargeInConfirmed
  PROVE  Inv'
<1>0. s \in Flags /\ model \in Models
  BY DEF Inv, TypeOK, Models
<1>1. (model.auto \/ model.responding => s.greeted) /\ (s.barge => model.speech)
  BY DEF Inv, GreetedFirst, BargeIsOfCaller
<1>2. CASE AudioDelta
  <2>1. s' = [s EXCEPT !.speaking = TRUE, !.queued = TRUE] /\ UNCHANGED <<lines, model, hist>>
    BY <1>2 DEF AudioDelta
  <2>2. /\ s' \in Flags /\ s'.greeted = s.greeted /\ s'.fallback = s.fallback /\ s'.endCallId = s.endCallId
        /\ s'.ending = s.ending /\ s'.finish = s.finish /\ s'.outcome = s.outcome /\ s'.source = s.source /\ s'.barge = s.barge
    BY <1>0, <2>1 DEF Flags
  <2>3. QED BY <1>0, <1>1, <2>1, <2>2, QuietStep
<1>3. CASE ResponseDone
  <2>1. /\ s' = [s EXCEPT !.speaking = FALSE] /\ model' = [model EXCEPT !.responding = FALSE]
        /\ UNCHANGED <<lines, hist>>
    BY <1>3 DEF ResponseDone
  <2>2. /\ s' \in Flags /\ s'.greeted = s.greeted /\ s'.fallback = s.fallback /\ s'.endCallId = s.endCallId
        /\ s'.ending = s.ending /\ s'.finish = s.finish /\ s'.outcome = s.outcome /\ s'.source = s.source /\ s'.barge = s.barge
    BY <1>0, <2>1 DEF Flags
  <2>3. model' \in Models /\ model'.auto = model.auto /\ ~model'.responding /\ model'.speech = model.speech
    BY <1>0, <2>1 DEF Models
  <2>4. (model'.auto \/ model'.responding => s.greeted) /\ (s'.barge => model'.speech)
    BY <1>1, <2>2, <2>3
  <2>5. QED BY <2>1, <2>2, <2>3, <2>4, QuietStep
<1>4. CASE SenderSends
  <2>1. UNCHANGED <<lines, model, hist>>
    BY <1>4 DEF SenderSends
  <2>2. PICK more \in BOOLEAN : s' = [s EXCEPT !.queued = more] \/ s' = [s EXCEPT !.sender = FALSE]
    BY <1>4 DEF SenderSends
  <2>3. /\ s' \in Flags /\ s'.greeted = s.greeted /\ s'.fallback = s.fallback /\ s'.endCallId = s.endCallId
        /\ s'.ending = s.ending /\ s'.finish = s.finish /\ s'.outcome = s.outcome /\ s'.source = s.source /\ s'.barge = s.barge
    <3>1. CASE s' = [s EXCEPT !.queued = more]
      BY <1>0, <3>1 DEF Flags
    <3>2. CASE s' = [s EXCEPT !.sender = FALSE]
      BY <1>0, <3>2 DEF Flags
    <3>3. QED BY <2>2, <3>1, <3>2
  <2>4. QED BY <1>0, <1>1, <2>1, <2>3, QuietStep
<1>5. CASE SpeechStarted
  <2>1. model' = [model EXCEPT !.speech = TRUE] /\ UNCHANGED <<lines, hist>>
    BY <1>5 DEF SpeechStarted
  <2>2. model' \in Models /\ model'.auto = model.auto /\ model'.responding = model.responding /\ model'.speech
    BY <1>0, <2>1 DEF Models
  <2>3. /\ s' \in Flags /\ s'.greeted = s.greeted /\ s'.fallback = s.fallback /\ s'.endCallId = s.endCallId
        /\ s'.ending = s.ending /\ s'.finish = s.finish /\ s'.outcome = s.outcome /\ s'.source = s.source
    <3>1. CASE s' = s
      BY <1>0, <3>1
    <3>2. CASE s' = Interrupt(s)
      BY <1>0, <3>2 DEF Flags, Interrupt
    <3>3. CASE s' = [s EXCEPT !.barge = TRUE]
      BY <1>0, <3>3 DEF Flags
    <3>4. QED BY <1>5, <3>1, <3>2, <3>3 DEF SpeechStarted
  <2>4. model'.auto \/ model'.responding => s.greeted
    BY <1>1, <2>2
  <2>5. QED BY <2>1, <2>2, <2>3, <2>4, QuietStep
<1>6. CASE BargeInConfirmed
  <2> DEFINE f == [s EXCEPT !.barge = FALSE]
  <2>1. s' = f \/ s' = Interrupt(f)
    BY <1>6 DEF BargeInConfirmed
  <2>2. /\ s' \in Flags /\ s'.greeted = s.greeted /\ s'.fallback = s.fallback /\ s'.endCallId = s.endCallId
        /\ s'.ending = s.ending /\ s'.finish = s.finish /\ s'.outcome = s.outcome /\ s'.source = s.source /\ ~s'.barge
    <3>1. CASE s' = f
      BY <1>0, <3>1 DEF Flags
    <3>2. CASE s' = Interrupt(f)
      BY <1>0, <3>2 DEF Flags, Interrupt
    <3>3. QED BY <2>1, <3>1, <3>2
  <2> HIDE DEF f
  <2>3. model.speech /\ ~hist.late
    BY <1>1, <1>6 DEF Inv, StoppedSpeechIsIgnored, BargeInConfirmed
  <2>4. hist' = [hist EXCEPT !.late = @ \/ (Audible /\ ~model.speech)] /\ UNCHANGED <<lines, model>>
    BY <1>6 DEF BargeInConfirmed
  <2>5. hist'.late = FALSE
    BY <2>3, <2>4 DEF Inv, TypeOK
  <2>6. /\ hist' \in [greetings : 0..1, late : BOOLEAN, hangups : 0..1, reports : SUBSET CallOutcome]
        /\ hist'.greetings = hist.greetings /\ hist'.hangups = hist.hangups /\ hist'.reports = hist.reports
    BY <2>4 DEF Inv, TypeOK
  <2>7. TypeOK' /\ ClosedByOne'
    BY <2>2, <2>4, <2>6 DEF Inv, TypeOK, ClosedByOne, lines
  <2>8. GreetedFirst' /\ BargeIsOfCaller' /\ StoppedSpeechIsIgnored' /\ ReportStands'
    BY <2>2, <2>4, <2>5, <2>6 DEF Inv, GreetedFirst, BargeIsOfCaller, StoppedSpeechIsIgnored, ReportStands, lines
  <2>9. EndsOnce'
    BY <2>2, <2>6 DEF Inv, EndsOnce
  <2>10. QED BY <2>7, <2>8, <2>9 DEF Inv
<1>7. QED BY <1>2, <1>3, <1>4, <1>5, <1>6

LEMMA SpeechStoppedStep == ASSUME Inv, NEW long \in BOOLEAN, SpeechStopped(long) PROVE Inv'
<1> DEFINE f == CancelBargeIn(s)
           m == [model EXCEPT !.speech = FALSE, !.owed = TRUE, !.responding = @ \/ model.auto]
<1>1. route = "running" /\ UNCHANGED lines
  BY DEF SpeechStopped, Pumping
<1>2. /\ f \in Flags /\ f.greeted = s.greeted /\ f.fallback = s.fallback /\ f.endCallId = s.endCallId
      /\ f.ending = s.ending /\ f.finish = s.finish /\ f.outcome = s.outcome /\ f.source = s.source /\ ~f.barge
  BY DEF Inv, TypeOK, Flags, CancelBargeIn
<1>3. m \in Models
  BY DEF Inv, TypeOK, Models
<1>4. m.auto \/ m.responding => s.greeted
  BY DEF Inv, TypeOK, GreetedFirst
<1>5. TriggerGreeting(f, m) \/ (s' = f /\ model' = m /\ UNCHANGED hist)
  BY DEF SpeechStopped
<1> HIDE DEF f, m
<1>6. CASE TriggerGreeting(f, m)
  BY <1>1, <1>2, <1>3, <1>4, <1>6, TriggerGreetingStep
<1>7. CASE s' = f /\ model' = m /\ UNCHANGED hist
  BY <1>1, <1>2, <1>3, <1>4, <1>7, QuietStep
<1>8. QED BY <1>5, <1>6, <1>7

LEMMA CallerTranscriptStep == ASSUME Inv, NEW heard \in Heard, CallerTranscript(heard) PROVE Inv'
<1> DEFINE f == [s EXCEPT !.voicemail = @ \/ heard = "voicemail"]
           m == [model EXCEPT !.owed = FALSE]
<1>1. route = "running" /\ UNCHANGED lines
  BY DEF CallerTranscript, Pumping
<1>2. /\ f \in Flags /\ f.greeted = s.greeted /\ f.fallback = s.fallback /\ f.endCallId = s.endCallId
      /\ f.ending = s.ending /\ f.finish = s.finish /\ f.outcome = s.outcome /\ f.source = s.source /\ f.barge = s.barge
  BY DEF Inv, TypeOK, Flags
<1>3. m \in Models
  BY DEF Inv, TypeOK, Models
<1>4. (m.auto \/ m.responding => s.greeted) /\ (f.barge => m.speech)
  BY <1>2 DEF Inv, TypeOK, GreetedFirst, BargeIsOfCaller
<1>5. TriggerGreeting(f, m) \/ (s' = f /\ model' = m /\ UNCHANGED hist)
  BY DEF CallerTranscript
<1> HIDE DEF f, m
<1>6. CASE TriggerGreeting(f, m)
  BY <1>1, <1>2, <1>3, <1>4, <1>6, TriggerGreetingStep
<1>7. CASE s' = f /\ model' = m /\ UNCHANGED hist
  BY <1>1, <1>2, <1>3, <1>4, <1>7, QuietStep
<1>8. QED BY <1>5, <1>6, <1>7

\* A goodbye infers an outcome only if there is none, so that it changes no report.
LEMMA GoodbyeTranscriptStep == ASSUME Inv, NEW escalates \in BOOLEAN, GoodbyeTranscript(escalates) PROVE Inv'
<1> DEFINE i == InferOutcome(s, escalates)
           f == FinishCall(i)
<1>0. s \in Flags /\ UNCHANGED <<lines, model, hist>> /\ s' = f
  BY DEF Inv, TypeOK, GoodbyeTranscript
<1>1. /\ i \in Flags /\ SameCourse(s, i) /\ i.ending = s.ending /\ i.finish = s.finish
      /\ s.outcome # None => i = s
  BY <1>0, InferOutcomeType
<1> HIDE DEF i
<1>2. (s.ending <=> s.finish # "none") /\ (hist.hangups > 0 => s.finish = "done")
  BY DEF Inv, EndsOnce
<1>3. /\ f \in Flags /\ SameCourse(i, f) /\ f.outcome = i.outcome /\ f.source = i.source
      /\ f.ending <=> f.finish # "none"
      /\ i.finish = "done" => f.finish = "done"
  BY <1>1, <1>2, FinishCallType
<1> HIDE DEF f
<1>4. TypeOK' /\ ClosedByOne'
  BY <1>0, <1>3 DEF Inv, TypeOK, ClosedByOne, lines
<1>5. GreetedFirst' /\ BargeIsOfCaller' /\ StoppedSpeechIsIgnored'
  BY <1>0, <1>1, <1>3 DEF Inv, GreetedFirst, BargeIsOfCaller, StoppedSpeechIsIgnored, SameCourse, lines
<1>6. EndsOnce'
  BY <1>0, <1>1, <1>2, <1>3 DEF EndsOnce
<1>7. ReportStands'
  BY <1>0, <1>1, <1>3, ReportIsOutcome DEF Inv, ReportStands
<1>8. QED BY <1>4, <1>5, <1>6, <1>7 DEF Inv

LEMMA EndCallStep == ASSUME Inv, NEW report \in Report, EndCall(report) PROVE Inv'
<1> DEFINE o == RecordOutcome(s, report, "tool")
           e == [o EXCEPT !.endCallId = TRUE]
           f == FinishCall(e)
<1>0. /\ s \in Flags /\ UNCHANGED <<lines, model>> /\ s' = f /\ s.greeted
      /\ report \in Reportable
      /\ hist' = [hist EXCEPT !.reports = IF report = None THEN @ ELSE @ \cup {Downgraded(s, report)}]
  BY RealtimeAssumption DEF Inv, TypeOK, GreetedFirst, EndCall
<1>1. /\ o \in Flags /\ SameCourse(s, o) /\ o.ending = s.ending /\ o.finish = s.finish
  BY <1>0, RecordOutcomeType
<1>2. /\ o.outcome = IF report = None THEN s.outcome ELSE Downgraded(s, report)
      /\ o.source = IF report = None THEN s.source ELSE "tool"
  BY <1>0 DEF RecordOutcome, Flags
<1> HIDE DEF o
<1>3. /\ e \in Flags /\ e.greeted = o.greeted /\ e.fallback = o.fallback /\ e.barge = o.barge
      /\ e.outcome = o.outcome /\ e.source = o.source /\ e.ending = o.ending /\ e.finish = o.finish
  BY <1>1 DEF Flags
<1> HIDE DEF e
<1>4. (s.ending <=> s.finish # "none") /\ (hist.hangups > 0 => s.finish = "done")
  BY DEF Inv, EndsOnce
<1>5. e.ending <=> e.finish # "none"
  BY <1>1, <1>3, <1>4
<1>6. /\ f \in Flags /\ SameCourse(e, f) /\ f.outcome = e.outcome /\ f.source = e.source
      /\ f.ending <=> f.finish # "none"
      /\ e.finish = "done" => f.finish = "done"
  BY <1>3, <1>5, FinishCallType
<1> HIDE DEF f
<1>7. f.greeted = s.greeted /\ f.fallback = s.fallback /\ f.barge = s.barge
      /\ f.outcome = o.outcome /\ f.source = o.source
  BY <1>1, <1>3, <1>6 DEF SameCourse
<1>8. /\ hist' \in [greetings : 0..1, late : BOOLEAN, hangups : 0..1, reports : SUBSET CallOutcome]
       /\ hist'.greetings = hist.greetings /\ hist'.late = hist.late /\ hist'.hangups = hist.hangups
       /\ hist'.reports = IF report = None THEN hist.reports ELSE hist.reports \cup {Downgraded(s, report)}
  BY <1>0, DowngradedIsOutcome DEF Inv, TypeOK, Reportable
<1>9. TypeOK' /\ ClosedByOne'
  BY <1>0, <1>6, <1>8 DEF Inv, TypeOK, ClosedByOne, lines
<1>10. GreetedFirst' /\ BargeIsOfCaller' /\ StoppedSpeechIsIgnored'
  BY <1>0, <1>7, <1>8 DEF Inv, GreetedFirst, BargeIsOfCaller, StoppedSpeechIsIgnored, lines
<1>11. EndsOnce'
  BY <1>0, <1>1, <1>3, <1>4, <1>6, <1>8 DEF EndsOnce
<1>12. ReportStands'
  BY <1>0, <1>2, <1>7, <1>8 DEF Inv, ReportStands
<1>13. QED BY <1>9, <1>10, <1>11, <1>12 DEF Inv

LEMMA DisconnectRecordedStep == ASSUME Inv, DisconnectRecorded PROVE Inv'
<1>1. TypeOK' /\ ClosedByOne'
  BY DEF Inv, TypeOK, ClosedByOne, DisconnectRecorded, Flags, Reportable, CallOutcome, lines
<1>2. GreetedFirst' /\ BargeIsOfCaller' /\ EndsOnce' /\ StoppedSpeechIsIgnored'
  BY DEF Inv, TypeOK, GreetedFirst, BargeIsOfCaller, EndsOnce, StoppedSpeechIsIgnored, DisconnectRecorded, Flags, lines
<1>3. hist.reports = {} /\ UNCHANGED hist
  BY ReportIsOutcome DEF Inv, DisconnectRecorded
<1>4. ReportStands'
  BY <1>3 DEF ReportStands
<1>5. QED BY <1>1, <1>2, <1>4 DEF Inv

LEMMA FinishingStep == ASSUME Inv, Finishing PROVE Inv'
<1>1. CASE FinishGrace \/ FinishGoodbye \/ FinishDrained
  <2>1. s \in Flags /\ UNCHANGED <<lines, hist>>
    BY <1>1 DEF Inv, TypeOK, FinishGrace, FinishGoodbye, FinishDrained
  <2>2. s.finish \notin {"none", "done"} /\ \E to \in {"draining", "goodbye", "tail"} : s' = [s EXCEPT !.finish = to]
    BY <1>1 DEF FinishGrace, FinishGoodbye, FinishDrained
  <2>3. /\ s' \in Flags /\ s'.finish \in {"draining", "goodbye", "tail"} /\ s'.greeted = s.greeted
        /\ s'.fallback = s.fallback /\ s'.endCallId = s.endCallId /\ s'.ending = s.ending
        /\ s'.outcome = s.outcome /\ s'.source = s.source /\ s'.barge = s.barge
    BY <2>1, <2>2 DEF Flags
  <2>4. model' = model \/ (s.endCallId /\ model' = [model EXCEPT !.responding = TRUE])
    BY <1>1 DEF FinishGrace, FinishGoodbye, FinishDrained
  <2>5. /\ model' \in Models /\ model'.auto = model.auto /\ model'.speech = model.speech
        /\ model'.responding => model.responding \/ s.endCallId
    BY <2>4 DEF Inv, TypeOK, Models
  <2>6. TypeOK' /\ ClosedByOne'
    BY <2>1, <2>3, <2>5 DEF Inv, TypeOK, ClosedByOne, Models, lines
  <2>7. GreetedFirst' /\ BargeIsOfCaller' /\ StoppedSpeechIsIgnored' /\ ReportStands'
    BY <2>1, <2>3, <2>5 DEF Inv, GreetedFirst, BargeIsOfCaller, StoppedSpeechIsIgnored, ReportStands, lines
  <2>8. s.ending /\ hist.hangups = 0
    BY <2>2 DEF Inv, TypeOK, EndsOnce
  <2>9. EndsOnce'
    BY <2>1, <2>3, <2>8 DEF EndsOnce
  <2>10. QED BY <2>6, <2>7, <2>9 DEF Inv
<1>2. CASE FinishHangsUp
  <2>1. TypeOK' /\ ClosedByOne'
    BY <1>2 DEF Inv, TypeOK, ClosedByOne, EndsOnce, FinishHangsUp, Flags
  <2>2. GreetedFirst' /\ BargeIsOfCaller' /\ EndsOnce' /\ StoppedSpeechIsIgnored' /\ ReportStands'
    BY <1>2 DEF Inv, TypeOK, GreetedFirst, BargeIsOfCaller, EndsOnce, StoppedSpeechIsIgnored, ReportStands, FinishHangsUp, Flags
  <2>3. QED BY <2>1, <2>2 DEF Inv
<1>3. QED BY <1>1, <1>2 DEF Finishing

LEMMA InvStep == ASSUME Inv, [Next]_vars PROVE Inv'
<1>1. CASE Environment
  BY <1>1, ConnectingStep, ModelDropsStep, AudioStep, SpeechStoppedStep, CallerTranscriptStep,
     GoodbyeTranscriptStep, EndCallStep DEF Environment
<1>2. CASE Connecting \/ WarmExpires \/ StreamOpens
  BY <1>2, ConnectingStep, RunStartsStep DEF Connecting
<1>3. CASE Closing
  BY <1>3, ClosingStep
<1>4. CASE FallbackFires
  BY <1>4, FallbackFiresStep
<1>5. CASE SenderSends \/ BargeInConfirmed
  BY <1>5, AudioStep
<1>6. CASE DisconnectRecorded
  BY <1>6, DisconnectRecordedStep
<1>7. CASE Finishing
  BY <1>7, FinishingStep
<1>8. CASE UNCHANGED vars
  <2>1. TypeOK' /\ ClosedByOne'
    BY <1>8 DEF Inv, TypeOK, ClosedByOne, vars
  <2>2. GreetedFirst' /\ BargeIsOfCaller' /\ EndsOnce' /\ StoppedSpeechIsIgnored' /\ ReportStands'
    BY <1>8 DEF Inv, GreetedFirst, BargeIsOfCaller, EndsOnce, StoppedSpeechIsIgnored, ReportStands, vars
  <2>3. QED BY <2>1, <2>2 DEF Inv
<1>9. QED BY <1>1, <1>2, <1>3, <1>4, <1>5, <1>6, <1>7, <1>8 DEF Next

LEMMA InvAlways == Spec => []Inv
<1>1. Init => Inv
  BY InvInit
<1>2. Inv /\ [Next]_vars => Inv'
  BY InvStep
<1>3. QED BY <1>1, <1>2, PTL DEF Spec

(***************************************************************************)
(* Every variable of a speech-to-speech call keeps its type: in particular *)
(* the callee is greeted at most once and hung up on at most once,         *)
(* however fallback, utterances, transcriptions, goodbyes and reports      *)
(* follow each other (_trigger_greeting, _finish_call).                    *)
(***************************************************************************)
THEOREM TypeCorrect == Spec => []TypeOK
<1>1. Inv => TypeOK
  BY DEF Inv
<1>2. QED BY <1>1, InvAlways, PTL

(***************************************************************************)
(* The model is silent until the greeting was asked for: noise on the line *)
(* before it, which the service detects as speech, gets no answer.         *)
(***************************************************************************)
THEOREM SilenceBeforeGreeting == Spec => []SilentUntilGreeted
<1>1. Inv => SilentUntilGreeted
  BY DEF Inv, GreetedFirst, SilentUntilGreeted
<1>2. QED BY <1>1, InvAlways, PTL

(***************************************************************************)
(* Once the service has reported the end of a sound, that sound interrupts *)
(* the agent no more: a confirmation is pending only between the two       *)
(* events of the utterance that started it (_confirm_barge_in and its      *)
(* cancellation).                                                          *)
(***************************************************************************)
THEOREM NoLateInterruption == Spec => []StoppedSpeechIsIgnored
<1>1. Inv => StoppedSpeechIsIgnored
  BY DEF Inv
<1>2. QED BY <1>1, InvAlways, PTL

(***************************************************************************)
(* Once the model has reported an outcome, the outcome of the call is one  *)
(* that it reported, whatever its words suggested before or after and      *)
(* however the call ended (_record_outcome, _infer_outcome_from_goodbye,   *)
(* _handle_call_disconnected).                                             *)
(***************************************************************************)
THEOREM ReportsStand == Spec => []ReportStands
<1>1. Inv => ReportStands
  BY DEF Inv
<1>2. QED BY <1>1, InvAlways, PTL

(***************************************************************************)
(* The session that a call runs is never closed by its time to live: the   *)
(* claim of the route and the pop of the pre-warming task exclude each     *)
(* other, also when the session is connected after the call was answered.  *)
(***************************************************************************)
THEOREM ClaimedStaysOpen == Spec => []RunningIsOpen
<1>1. Inv => RunningIsOpen
  BY DEF Inv, ClosedByOne, RunningIsOpen, Engine
<1>2. QED BY <1>1, InvAlways, PTL

===============================================================================
