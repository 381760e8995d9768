------------------------------- MODULE CallSetup -------------------------------
(***************************************************************************)
(* What a call is set up from, on the replicas of the orchestrator: the    *)
(* contact it dials (TenantRegistry), the region that places it            *)
(* (RegionRouter), the SOP definition that its events are handled with     *)
(* (SOPCatalog and its cache), and the region whose ACS client each        *)
(* command is sent through (call_handler.py).                              *)
(*                                                                         *)
(* The retry gate is AlarmIntake's and the conversation CallHandlers': an  *)
(* event of a live call may lead to any command.                           *)
(***************************************************************************)
EXTENDS TenantRegistry, RegionRouter, SOPCatalog

CONSTANTS
  Replica,
  Call,
  SharedStore,   \* the session store is Redis or Cosmos, not process memory
  Store,         \* the stores alarms come from
  Hour,          \* the times of day
  Number         \* every phone number

ASSUME SetupAssumption ==
  /\ SharedStore \in BOOLEAN
  /\ None \notin Customer \cup Region
  /\ \A k \in DOMAIN Groups : \A i \in DOMAIN Groups[k] : Groups[k][i].phone \in Number
  /\ ~SharedStore => \A r, q \in Replica : r = q

VARIABLES
  call,      \* by call: what it was placed from, and its region
  bound,     \* CallHandler._connection_region of every replica
  cache,     \* SOPCatalog._resolved_cache of every replica, by customer
  overlay,   \* the stored patches of every customer, << >> for none
  recording, \* the calls whose session has a recording id
  sent,      \* history: by call, the regions that play, recognize and hang-up went to
  recorded,  \* history: by call, the regions that the recording commands went to
  used       \* history: by call, the definitions resolved for its events

vars == <<call, bound, cache, overlay, recording, sent, recorded, used>>

Stage == {"new", "live", "over"}

\* resolved: the number comes from the registry, not from the intent.
Request == [customer : Customer \cup {None}, store : Store \cup {None}, now : Hour \cup {0},
            failing : SUBSET GroupKey, resolved : BOOLEAN, number : Number]

NoCall == [stage |-> "new", region |-> None, stored_region |-> None]

TypeOK ==
  /\ \A c \in Call :
       /\ call[c].stage \in Stage
       /\ call[c].region \in Region \cup {None}
       /\ call[c].stored_region \in Region \cup {None}
       /\ call[c].stage # "new" => call[c].request \in Request /\ call[c].region \in Region
  /\ bound \in [Replica -> [Call -> Region \cup {None}]]
  /\ \A r \in Replica : \A cu \in DOMAIN cache[r] : ~cache[r][cu].raised
  /\ \A cu \in Customer : overlay[cu] \in Overlays[cu] \cup {<< >>}
  /\ recording \subseteq Call
  /\ sent \in [Call -> SUBSET Region]
  /\ recorded \in [Call -> SUBSET Region]

Init ==
  /\ call = [c \in Call |-> NoCall]
  /\ bound = [r \in Replica |-> [c \in Call |-> None]]
  /\ cache = [r \in Replica |-> << >>]
  /\ overlay = [cu \in Customer |-> << >>]
  /\ recording = {}
  /\ sent = [c \in Call |-> {}]
  /\ recorded = [c \in Call |-> {}]
  /\ used = [c \in Call |-> {}]

-----------------------------------------------------------------------------
(* Placing a call (_process_intent, CallHandler.initiate_call).            *)

\* The number of a request: the intent's own or the primary contact's.
Callee(request) ==
  IF request.resolved
  THEN PrimaryNumber(request.customer, request.store, request.now, request.failing)
  ELSE request.number

\* The session is stored before its region is chosen: a shared store holds a
\* copy that is never written again with the region.
StoredRegion(region) == IF SharedStore THEN None ELSE region

\* Mutant: the connection is not bound to the region that created it.
PlaceUnbound(r, c, request) ==
  LET region == RegionOf(request.number) IN
  /\ call' = [call EXCEPT ![c] = [stage |-> "live", region |-> region,
                                  stored_region |-> None, request |-> request]]
  /\ UNCHANGED bound

Place(r, c, request) ==
  LET region == RegionOf(request.number) IN
  /\ call' = [call EXCEPT ![c] = [stage |-> "live", region |-> region,
                                  stored_region |-> StoredRegion(region), request |-> request]]
  /\ bound' = [bound EXCEPT ![r][c] = region]

\* What the primary contact is resolved from.  Documents that exist may not be
\* readable.
Resolutions(cu) ==
  [customer : {cu}, store : Store, now : Hour, resolved : {TRUE}, number : {<< >>},
   failing : SUBSET (ToSet(Candidates(cu)) \cap DOMAIN Groups)]

\* An intent that brings its number: nothing else is read.
Givens(cu) ==
  [customer : {cu}, store : {None}, now : {0}, resolved : {FALSE}, number : Number, failing : {{}}]

\* Without a contact nothing happens; when ACS refuses, the call stays new.
PlaceCall(r, c) ==
  /\ call[c].stage = "new"
  /\ \E cu \in Customer \cup {None} : \E request \in Resolutions(cu) \cup Givens(cu) :
       /\ Callee(request) # << >>
       /\ Place(r, c, [request EXCEPT !.number = Callee(request)])
  /\ UNCHANGED <<cache, overlay, recording, sent, recorded, used>>

-----------------------------------------------------------------------------
(* An event of the call at some replica (acs_callback and its handlers).   *)

\* acs_callback binds the connection to the region of the session it loaded.
BoundAfterLoad(r, c) ==
  IF call[c].stored_region = None THEN bound[r][c] ELSE call[c].stored_region

\* play_text and hang_up fall back on the default region, start_recognize_speech
\* on the region of the callee's number.
RegionFor(r, c, command) ==
  IF BoundAfterLoad(r, c) # None THEN BoundAfterLoad(r, c)
  ELSE IF command = "recognize" THEN RegionOf(call[c].request.number) ELSE DefaultRegion

SendThrough(r, c, command) ==
  /\ sent' = [sent EXCEPT ![c] = @ \cup {RegionFor(r, c, command)}]
  /\ bound' = [bound EXCEPT ![r][c] =
       IF command = "hang_up" THEN BoundAfterLoad(r, c) ELSE RegionFor(r, c, command)]

\* Mutant: the customer is left out of the key.
KeyOfSop(cu) == None

\* The key of the cache, for one SOP: (customer_id or "_global", sop_id).
CacheKey(cu) == cu

\* SOPCatalog.resolve for the call's customer; readable: the overlay could be
\* read, an overlay that cannot be is taken for none.
Resolved(r, cu, readable) ==
  IF CacheKey(cu) \in DOMAIN cache[r] THEN cache[r][CacheKey(cu)]
  ELSE IF cu = None \/ ~readable \/ overlay[cu] = << >> THEN Base
  ELSE ApplyPatches(overlay[cu])

\* start_recording and stop_recording are called without a region: they go
\* through the default one, whatever the connection is bound to.
RecordThrough(c) == recorded' = [recorded EXCEPT ![c] = @ \cup {DefaultRegion}]

\* SOPEngine.load: the engine's own file is the one that the catalog holds as
\* the base document.
EngineFile == Base

\* An answer may lead to a step of the resolved definition that is not a step
\* of the engine's own file: evaluate_transition and advance_session read the
\* step there, and raise.
AnswerRaises(definition) == \E step \in ToSet(definition.steps) : step \notin ToSet(EngineFile.steps)

\* The event makes the orchestrator speak or listen.
Prompt(r, c, command) ==
  /\ call[c].stage = "live"
  /\ \E readable \in BOOLEAN :
       LET cu == call[c].request.customer
           definition == Resolved(r, cu, readable) IN
       IF definition.raised   \* a patch has raised: so does the handler
       THEN /\ bound' = [bound EXCEPT ![r][c] = BoundAfterLoad(r, c)]
            /\ UNCHANGED <<cache, sent, used>>
       ELSE /\ cache' = [cache EXCEPT ![r] = SetInMap(@, CacheKey(cu), definition)]
            /\ used' = [used EXCEPT ![c] = @ \cup {definition}]
            /\ \/ SendThrough(r, c, command)
               \/ /\ AnswerRaises(definition)
                  /\ bound' = [bound EXCEPT ![r][c] = BoundAfterLoad(r, c)]
                  /\ UNCHANGED sent
  /\ UNCHANGED <<call, overlay, recording, recorded>>

\* The thread that the end of the greeting starts when the session has no
\* recording id; it may outlast the call, and ACS may refuse.
StartRecording(c) ==
  /\ call[c].stage # "new" /\ used[c] # {} /\ c \notin recording
  /\ RecordThrough(c)
  /\ recording' \in {recording, recording \cup {c}}
  /\ UNCHANGED <<call, bound, cache, overlay, sent, used>>

\* The last prompt has ended.
HangUp(r, c) ==
  /\ call[c].stage = "live"
  /\ IF c \in recording THEN RecordThrough(c) ELSE UNCHANGED recorded
  /\ SendThrough(r, c, "hang_up")
  /\ UNCHANGED <<call, cache, overlay, recording, used>>

Ends(c) ==
  /\ call[c].stage = "live"
  /\ call' = [call EXCEPT ![c].stage = "over"]
  /\ UNCHANGED <<bound, cache, overlay, recording, sent, recorded, used>>

-----------------------------------------------------------------------------
(* Around the calls.                                                       *)

\* Operators store other patches for a customer.  Nothing calls invalidate.
OverlayChanges(cu) ==
  /\ \E patches \in Overlays[cu] : overlay' = [overlay EXCEPT ![cu] = patches]
  /\ UNCHANGED <<call, bound, cache, recording, sent, recorded, used>>

\* A replica restarts; with a store in its memory it forgets its calls.
Restart(r) ==
  /\ bound' = [bound EXCEPT ![r] = [c \in Call |-> None]]
  /\ cache' = [cache EXCEPT ![r] = << >>]
  /\ call' = [c \in Call |->
       IF SharedStore \/ call[c].stage = "new" THEN call[c] ELSE [call[c] EXCEPT !.stage = "over"]]
  /\ UNCHANGED <<overlay, recording, sent, recorded, used>>

Next ==
  \/ \E r \in Replica, c \in Call :
       PlaceCall(r, c) \/ Prompt(r, c, "play") \/ Prompt(r, c, "recognize") \/ HangUp(r, c)
  \/ \E c \in Call : StartRecording(c) \/ Ends(c)
  \/ \E cu \in Customer : OverlayChanges(cu)
  \/ \E r \in Replica : Restart(r)

Spec == Init /\ [][Next]_vars

-----------------------------------------------------------------------------
(* A call is placed to the first contact of the most specific group that   *)
(* could be read who covers the store and may be called now, from the      *)
(* region nearest to the number ("the nearest region", "Try most specific  *)
(* -> least specific").                                                    *)

PlacedWell ==
  \A c \in Call : call[c].stage # "new" =>
    LET q == call[c].request IN
    /\ IsNearest(call[c].region, q.number)
    /\ q.resolved => IsPrimary(q.number, q.customer, q.store, q.now, q.failing)

(* "connection_id -> region_id, so play/recognize/recording/hang-up operate *)
(* the connection with the same ACS client that created it"                *)
(* (call_handler.py): whatever replica handles the event, the command goes *)
(* to the region that placed the call.                                     *)

CommandsReachTheCall ==
  \A c \in Call : sent[c] \cup recorded[c] \subseteq {call[c].region}

(* The part of it that the code keeps, with sessions in memory: what plays,*)
(* listens and hangs up goes to the region that placed the call, through   *)
(* failing handlers and restarts.  The recording commands do not: they are *)
(* called without a region, so that a call of another region than the      *)
(* default one is recorded, if at all, through the wrong client.           *)

ConversationReachesTheCall ==
  \A c \in Call : sent[c] \subseteq {call[c].region}

(* The definition that the catalog resolves for a call stays one and the   *)
(* same, the base SOP or the customer's own, though patches change and     *)
(* reads fail during the call.  This is not all that an event reads: the   *)
(* step an answer leads to comes from the engine's own file                *)
(* (sop_engine.py, evaluate_transition and advance_session), whatever has  *)
(* been resolved.                                                          *)

OneDefinition ==
  \A c \in Call : used[c] # {} =>
    \E d \in Definitions(call[c].request.customer) : used[c] = {d}

=============================================================================
