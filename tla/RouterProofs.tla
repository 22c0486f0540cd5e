---------------------------- MODULE RouterProofs ----------------------------
(***************************************************************************)
(* The router for every set of requests and providers, every threshold,    *)
(* timeout, TTL and size of the cache: types, breakers, the rest of a      *)
(* failing provider, and the promise Advice makes to the callers.          *)
(***************************************************************************)
EXTENDS Router, TLAPS

LEMMA NothingElse ==
  /\ Nothing \notin Providers /\ Nothing \notin Requests
  /\ Nothing \notin Answers /\ Nothing \notin Entry
BY RouterAssumption

(* The types of the breaker's operations.                                  *)
LEMMA BreakerTypes ==
  ASSUME NEW b \in Breaker
  PROVE  State(b) \in Breaker /\ Failed(b) \in Breaker /\ Succeeded(b) \in Breaker
<1>1. State(b) \in Breaker /\ Succeeded(b) \in Breaker
  <2>1. 0 \in 0..Threshold
    BY RouterAssumption
  <2>2. [b EXCEPT !.state = "half-open"] \in Breaker
    BY DEF Breaker
  <2>3. [b EXCEPT !.state = "closed", !.failures = 0] \in Breaker
    BY <2>1 DEF Breaker
  <2> QED BY <2>2, <2>3 DEF State, Succeeded
<1>2. 0 \in Ages /\ Threshold \in 0..Threshold
  BY RouterAssumption DEF Ages
<1>3. CASE b.failures < Threshold
  <2>1. b.failures + 1 \in 0..Threshold
    BY <1>3, RouterAssumption DEF Breaker
  <2> QED BY <1>1, <1>2, <1>3, <2>1 DEF Breaker, Failed
<1>4. CASE ~(b.failures < Threshold)
  BY <1>1, <1>2, <1>4 DEF Breaker, Failed
<1> QED BY <1>3, <1>4

LEMMA OlderIsAge == \A age \in Ages : Older(age) \in Ages
BY RouterAssumption DEF Ages, Older

LEMMA KeyOfRequest == \A r \in Requests : BuildKey(r) \in Keys
BY DEF Keys

(* Types: the initial state and each action.                               *)
LEMMA TypesInit == Init => RouterTypes
<1>1. Closed \in Breaker /\ [streak |-> 0, quiet |-> MaxAge] \in Health
  BY RouterAssumption DEF Closed, Breaker, Health, Ages
<1> QED BY <1>1 DEF Init, RouterTypes

LEMMA TypesOnward ==
  ASSUME RouterTypes, pc # "idle", Onward
  PROVE  /\ pc' \in {"idle", "consulting"}
         /\ call' \in IF pc' = "idle" THEN {NoCall} ELSE RequestAt
         /\ pc' # "idle" => call'.provider \in {call'.req.primary, call'.req.fallback}
         /\ reply' \in Answers \cup {Nothing} /\ served' \in Requests \cup {Nothing}
<1>0. call \in RequestAt /\ call.req \in Requests
  BY DEF RouterTypes, RequestAt
<1>1. CASE call.provider = call.req.primary /\ call.req.fallback # Nothing
  <2>1. call.req.fallback \in Providers
    BY <1>0, <1>1, RouterAssumption
  <2> QED BY <1>0, <1>1, <2>1 DEF Onward, RequestAt, RouterTypes
<1>2. CASE ~(call.provider = call.req.primary /\ call.req.fallback # Nothing)
  BY <1>0, <1>2 DEF Onward
<1> QED BY <1>1, <1>2

LEMMA TypesRecorded ==
  ASSUME RouterTypes
  PROVE  /\ Recorded(States) \in [Configured -> Breaker]
         /\ Recorded(Failures) \in [Configured -> Breaker]
         /\ Recorded(Successes) \in [Configured -> Breaker]
<1>1. breaker \in [Configured -> Breaker]
  BY DEF RouterTypes, Breaker
<1> QED BY <1>1, BreakerTypes DEF Recorded, States, Failures, Successes

LEMMA TypesStep == RouterTypes /\ [Next]_vars => RouterTypes'
<1> SUFFICES ASSUME RouterTypes, [Next]_vars PROVE RouterTypes'
  OBVIOUS
<1>1. CASE Tick
  <2>1. breaker' \in [Configured -> Breaker]
    BY <1>1, OlderIsAge DEF Tick, RouterTypes, Breaker
  <2>2. health' \in [Configured -> Health]
    BY <1>1, OlderIsAge DEF Tick, RouterTypes, Health
  <2>3. entries' \in [Keys -> Entry \cup {Nothing}]
    BY <1>1, OlderIsAge, NothingElse DEF Tick, RouterTypes, Entry
  <2> QED BY <1>1, <2>1, <2>2, <2>3 DEF Tick, RouterTypes
<1>2. ASSUME NEW r \in Requests, Hit(r) PROVE RouterTypes'
  <2>1. reply' \in Answers
    <3>1. entries[BuildKey(r)] \in Entry
      BY <1>2, KeyOfRequest DEF Hit, Held, RouterTypes
    <3> QED BY <1>2, <3>1 DEF Hit, Entry
  <2> QED BY <1>2, <2>1 DEF Hit, RouterTypes
<1>3. ASSUME NEW r \in Requests, Miss(r) PROVE RouterTypes'
  BY <1>3, RouterAssumption DEF Miss, RouterTypes, RequestAt
<1>4. CASE Ask
  BY <1>4, TypesRecorded DEF Ask, RouterTypes, Breaker
<1>5. CASE Refuse
  BY <1>5 DEF Refuse, RouterTypes, RequestAt
<1>6. CASE Measure
  <2>1. pc # "idle" /\ Onward
    BY <1>6 DEF Measure
  <2> QED BY <1>6, <2>1, TypesRecorded, TypesOnward DEF Measure, RouterTypes, Breaker
<1>7. CASE Fails
  <2>1. pc # "idle" /\ Onward /\ call \in RequestAt
    BY <1>7 DEF Fails, RouterTypes
  <2>2. health' \in [Configured -> Health]
    BY <1>7, RouterAssumption DEF Fails, RouterTypes, Health, Ages
  <2> QED
    BY <1>7, <2>1, <2>2, TypesRecorded, TypesOnward
    DEF Fails, RouterTypes, Breaker, Health, RequestAt
<1>8. ASSUME NEW c \in Contents, Answered(c) PROVE RouterTypes'
  <2> DEFINE a == [content |-> c, provider |-> call.provider]
  <2>1. call \in RequestAt /\ a \in Answers
    BY <1>8 DEF Answered, RouterTypes, RequestAt, Answers
  <2>2. Evicted \in [Keys -> Entry \cup {Nothing}]
    BY DEF Evicted, RouterTypes, Entry
  <2>3. entries' \in [Keys -> Entry \cup {Nothing}]
    <3>1. [answer |-> a, age |-> 0] \in Entry
      BY <2>1, RouterAssumption DEF Entry, Ages
    <3> QED BY <1>8, <2>2, <3>1 DEF Answered, Cached
  <2>4. health' \in [Configured -> Health]
    BY <1>8, RouterAssumption DEF Answered, RouterTypes, Health
  <2>5. served' \in Requests
    BY <1>8, <2>1 DEF Answered, RequestAt
  <2> QED
    BY <1>8, <2>1, <2>3, <2>4, <2>5, TypesRecorded
    DEF Answered, RouterTypes
<1>9. CASE UNCHANGED vars
  BY <1>9 DEF vars, RouterTypes
<1> QED
  BY <1>1, <1>2, <1>3, <1>4, <1>5, <1>6, <1>7, <1>8, <1>9 DEF Next, Step, Decide

(* Type correctness of the router.                                         *)
THEOREM RouterTypeCorrect == Spec => []RouterTypes
BY TypesInit, TypesStep, PTL DEF Spec

-----------------------------------------------------------------------------
(* A breaker is judged by its own provider's failures, whatever happens.   *)
LEMMA SoundInit == Init => BreakerSound
BY RouterAssumption DEF Init, BreakerSound, Closed

LEMMA SoundStep == RouterTypes /\ BreakerSound /\ [Next]_vars => BreakerSound'
<1> SUFFICES ASSUME RouterTypes, BreakerSound, [Next]_vars, NEW p \in Configured
             PROVE  /\ breaker'[p].failures = health'[p].streak
                    /\ breaker'[p].lastFailure = health'[p].quiet
                    /\ breaker'[p].state = "closed" <=> breaker'[p].failures < Threshold
                    /\ breaker'[p].state = "half-open" => Rested(breaker'[p])
  BY DEF BreakerSound, Rested
<1>0. /\ breaker[p] \in Breaker /\ health[p] \in Health
      /\ breaker[p].failures = health[p].streak
      /\ breaker[p].lastFailure = health[p].quiet
      /\ breaker[p].state = "closed" <=> breaker[p].failures < Threshold
      /\ breaker[p].state = "half-open" => Rested(breaker[p])
  BY DEF BreakerSound, RouterTypes
<1>1. CASE Tick
  <2>1. /\ breaker'[p] = [breaker[p] EXCEPT !.lastFailure = Older(@)]
        /\ health'[p] = [health[p] EXCEPT !.quiet = Older(@)]
    BY <1>1 DEF Tick
  <2>2. /\ breaker'[p].failures = breaker[p].failures
        /\ breaker'[p].state = breaker[p].state
        /\ breaker'[p].lastFailure = Older(breaker[p].lastFailure)
        /\ health'[p].streak = health[p].streak
        /\ health'[p].quiet = Older(health[p].quiet)
    BY <2>1, <1>0 DEF Breaker, Health
  <2>3. Rested(breaker[p]) => Rested(breaker'[p])
    BY <2>2, <1>0, RouterAssumption DEF Rested, Older, Breaker, Ages
  <2> QED BY <1>0, <2>2, <2>3
<1>2. CASE UNCHANGED <<breaker, health>>
  BY <1>0, <1>2
<1>3. CASE breaker' = Recorded(States) /\ UNCHANGED health
  <2>1. breaker'[p] \in {breaker[p], State(breaker[p])}
    BY <1>3 DEF Recorded, States
  <2>2. /\ State(breaker[p]).failures = breaker[p].failures
        /\ State(breaker[p]).lastFailure = breaker[p].lastFailure
    BY <1>0 DEF State, Breaker
  <2>3. State(breaker[p]).state \in {breaker[p].state, "half-open"}
    BY <1>0 DEF State, Breaker
  <2>4. CASE State(breaker[p]).state = breaker[p].state
    BY <1>0, <1>3, <2>1, <2>2, <2>4 DEF Rested
  <2>5. CASE State(breaker[p]).state # breaker[p].state
    <3>1. breaker[p].state = "open" /\ Rested(breaker[p])
      BY <2>5 DEF State
    <3> QED BY <1>0, <1>3, <2>1, <2>2, <2>3, <3>1 DEF Rested
  <2> QED BY <2>4, <2>5
<1>4. CASE Fails
  <2>1. CASE p # call.provider
    <3>1. breaker'[p] = breaker[p] /\ health'[p] = health[p]
      BY <1>4, <2>1 DEF Fails, Recorded, Failures
    <3> QED BY <1>0, <3>1
  <2>2. CASE p = call.provider
    <3>1. breaker'[p] = Failed(breaker[p])
      BY <1>4, <2>2 DEF Fails, Recorded, Failures
    <3>2. health'[p] = [streak |-> IF health[p].streak < Threshold
                                   THEN health[p].streak + 1 ELSE Threshold,
                        quiet  |-> 0]
      BY <1>4, <2>2 DEF Fails
    <3>3. CASE breaker[p].failures < Threshold
      BY <1>0, <3>1, <3>2, <3>3, RouterAssumption DEF Failed, Breaker, Health
    <3>4. CASE ~(breaker[p].failures < Threshold)
      BY <1>0, <3>1, <3>2, <3>4, RouterAssumption DEF Failed, Breaker, Health
    <3> QED BY <3>3, <3>4
  <2> QED BY <2>1, <2>2
<1>5. ASSUME NEW c \in Contents, Answered(c)
      PROVE  /\ breaker'[p].failures = health'[p].streak
             /\ breaker'[p].lastFailure = health'[p].quiet
             /\ breaker'[p].state = "closed" <=> breaker'[p].failures < Threshold
             /\ breaker'[p].state = "half-open" => Rested(breaker'[p])
  <2>1. CASE p # call.provider
    <3>1. breaker'[p] = breaker[p] /\ health'[p] = health[p]
      BY <1>5, <2>1 DEF Answered, Recorded, RouterTypes
    <3> QED BY <1>0, <3>1
  <2>2. CASE p = call.provider
    <3>1. breaker'[p] = Succeeded(breaker[p])
      BY <1>5, <2>2 DEF Answered, Recorded, Successes
    <3>2. health'[p] = [health[p] EXCEPT !.streak = 0]
      BY <1>5, <2>2 DEF Answered, RouterTypes
    <3> QED BY <1>0, <3>1, <3>2, RouterAssumption DEF Succeeded, Breaker, Health
  <2> QED BY <2>1, <2>2
<1> QED
  BY <1>1, <1>2, <1>3, <1>4, <1>5
  DEF Next, Step, Decide, Hit, Miss, Ask, Refuse, Measure, vars

(* Breakers count the failures in a row of their own provider.             *)
THEOREM BreakersAreSound == Spec => []BreakerSound
<1>1. RouterTypes /\ BreakerSound /\ [Next]_vars => BreakerSound'
  BY SoundStep
<1> QED BY <1>1, SoundInit, RouterTypeCorrect, PTL DEF Spec

-----------------------------------------------------------------------------
(* What Allow decides, in terms of the provider's history.                 *)
LEMMA AllowedAsRested ==
  ASSUME RouterTypes, BreakerSound, NEW p \in Providers
  PROVE  Allows(p) <=> ~(p \in Configured /\ MustRest(p))
<1>1. CASE p \notin Configured
  BY <1>1 DEF Allows
<1>2. CASE p \in Configured
  <2>0. /\ breaker[p] \in Breaker /\ health[p] \in Health
        /\ breaker[p].failures = health[p].streak
        /\ breaker[p].lastFailure = health[p].quiet
        /\ breaker[p].state = "closed" <=> breaker[p].failures < Threshold
        /\ breaker[p].state = "half-open" => Rested(breaker[p])
    BY <1>2 DEF BreakerSound, RouterTypes
  <2>1. Rested(breaker[p]) <=> ~(health[p].quiet <= ResetTimeout)
    BY <2>0, RouterAssumption DEF Rested, Health, Ages
  <2>2. State(breaker[p]).state = "open"
          <=> breaker[p].state = "open" /\ ~Rested(breaker[p])
    BY <2>0 DEF State, Breaker
  <2>3. breaker[p].state = "closed" <=> ~(health[p].streak >= Threshold)
    BY <2>0, RouterAssumption DEF Health
  <2>4. breaker[p].state \in {"closed", "open", "half-open"}
    BY <2>0 DEF Breaker
  <2> QED BY <1>2, <2>0, <2>1, <2>2, <2>3, <2>4 DEF Allows, MustRest
<1> QED BY <1>1, <1>2

LEMMA AskRespectsRest ==
  RouterTypes /\ BreakerSound /\ [Next]_vars =>
    (pc = "consulting" /\ pc' = "asking" /\ call.provider \in Configured
       => ~MustRest(call.provider))
<1> SUFFICES ASSUME RouterTypes, BreakerSound, [Next]_vars,
                    pc = "consulting", pc' = "asking", call.provider \in Configured
             PROVE  ~MustRest(call.provider)
  OBVIOUS
<1>1. Ask
  BY DEF Next, Step, Decide, Hit, Miss, Refuse, Measure, Fails, Answered, Tick, vars
<1>2. call.provider \in Providers
  BY RouterAssumption
<1> QED BY <1>1, <1>2, AllowedAsRested DEF Ask

(* A provider that failed Threshold times in a row is left alone for the   *)
(* reset timeout.                                                          *)
THEOREM RestIsRespected == Spec => RestRespected
<1>1. RouterTypes /\ BreakerSound /\ [Next]_vars =>
        [pc = "consulting" /\ pc' = "asking" /\ call.provider \in Configured
           => ~MustRest(call.provider)]_vars
  BY AskRespectsRest
<1> QED BY <1>1, RouterTypeCorrect, BreakersAreSound, PTL DEF Spec, RestRespected

-----------------------------------------------------------------------------
(* While a request is in progress its key is not held, and a provider that *)
(* was left behind has its excuse.                                         *)
InProgress ==
  pc # "idle" =>
    /\ ~Held(BuildKey(call.req))
    /\ call.provider # call.req.primary => call.req.primary \in excused
    /\ pc = "refused" => call.provider \in excused

LEMMA TickKeepsUnheld ==
  ASSUME RouterTypes, Tick, NEW k \in Keys
  PROVE  /\ entries[k] = Nothing => entries'[k] = Nothing
         /\ entries[k] # Nothing =>
              entries'[k] = [answer |-> entries[k].answer, age |-> Older(entries[k].age)]
BY DEF Tick, RouterTypes, Entry

LEMMA HeldByAge ==
  ASSUME RouterTypes, NEW k \in Keys
  PROVE  Held(k) <=> entries[k] # Nothing /\ entries[k].age <= TTL
<1>1. entries[k] \in Entry \cup {Nothing}
  BY DEF RouterTypes
<1> QED BY <1>1, RouterAssumption DEF Held, Expired, Entry, Ages

LEMMA InProgressStep ==
  ASSUME RouterTypes, BreakerSound, InProgress, [Next]_vars
  PROVE  /\ InProgress'
         /\ pc # "idle" /\ pc' = "idle" /\ reply' = Nothing
              => {call.req.primary, call.req.fallback} \ {Nothing} \subseteq excused'
<1> DEFINE deserved == {call.req.primary, call.req.fallback} \ {Nothing} \subseteq excused'
<1>0. pc # "idle" => /\ call \in RequestAt /\ BuildKey(call.req) \in Keys
                     /\ call.provider \in {call.req.primary, call.req.fallback}
                     /\ call.provider \in Providers /\ call.req \in Requests
  BY KeyOfRequest DEF RouterTypes, RequestAt
<1>1. CASE Tick
  <2>1. UNCHANGED <<pc, call, excused>>
    BY <1>1 DEF Tick
  <2>2. ASSUME pc # "idle" PROVE ~Held(BuildKey(call.req))'
    <3> DEFINE k == BuildKey(call.req)
    <3>0. k \in Keys /\ ~Held(k) /\ entries[k] \in Entry \cup {Nothing}
      BY <1>0, <2>2 DEF InProgress, RouterTypes
    <3>1. CASE entries[k] = Nothing
      BY <1>1, <2>1, <3>0, <3>1, TickKeepsUnheld DEF Held, BuildKey
    <3>2. CASE entries[k] # Nothing
      <4>1. entries'[k].age = Older(entries[k].age)
        BY <1>1, <3>0, <3>2 DEF Tick, Entry
      <4>2. entries[k].age \in Ages /\ entries[k].age > TTL
        BY <3>0, <3>2, RouterAssumption DEF Held, Expired, Entry, Ages
      <4>3. entries'[k].age > TTL
        BY <4>1, <4>2, RouterAssumption DEF Older, Ages
      <4> QED BY <2>1, <4>3 DEF Held, Expired, BuildKey
    <3> QED BY <3>1, <3>2
  <2> QED BY <2>1, <2>2 DEF InProgress
<1>2. ASSUME NEW r \in Requests, Hit(r) PROVE pc = "idle" /\ pc' = "idle"
  BY <1>2 DEF Hit
<1>3. ASSUME NEW r \in Requests, Miss(r) PROVE InProgress' /\ pc = "idle"
  BY <1>3 DEF Miss, InProgress, Held, Expired, BuildKey
<1>4. CASE Ask
  BY <1>4 DEF Ask, InProgress, Held, Expired, BuildKey
<1>5. CASE Refuse
  <2>1. MustRest(call.provider) /\ excused' = excused \cup {call.provider}
    BY <1>0, <1>5, AllowedAsRested DEF Refuse
  <2> QED BY <1>5, <2>1 DEF Refuse, InProgress, Held, Expired, BuildKey
<1>6. ASSUME pc # "idle", Onward, UNCHANGED entries,
             excused \subseteq excused', call.provider \in excused'
      PROVE  InProgress' /\ (pc' = "idle" => deserved)
  <2>1. CASE call.provider = call.req.primary /\ call.req.fallback # Nothing
    <3>1. /\ pc' = "consulting"
          /\ call' = [call EXCEPT !.provider = call.req.fallback]
      BY <1>6, <2>1 DEF Onward
    <3>2. call'.req = call.req
      BY <1>0, <1>6, <3>1 DEF RequestAt
    <3> QED
      BY <1>6, <2>1, <3>1, <3>2 DEF InProgress, Held, Expired, BuildKey
  <2>2. CASE call.provider = call.req.primary /\ call.req.fallback = Nothing
    BY <1>6, <2>2 DEF Onward, InProgress
  <2>3. CASE call.provider # call.req.primary
    <3>1. pc' = "idle" /\ call.provider = call.req.fallback
      BY <1>0, <1>6, <2>3 DEF Onward
    <3>2. call.req.primary \in excused
      BY <1>6, <2>3 DEF InProgress
    <3> QED BY <1>6, <3>1, <3>2 DEF InProgress
  <2> QED BY <2>1, <2>2, <2>3
<1>7. CASE Measure
  <2>1. /\ pc # "idle" /\ Onward /\ UNCHANGED <<entries, excused>>
        /\ call.provider \in excused
    BY <1>7 DEF Measure, InProgress
  <2> QED BY <1>6, <2>1
<1>8. CASE Fails
  <2>1. /\ pc # "idle" /\ Onward /\ UNCHANGED entries
        /\ excused' = excused \cup {call.provider}
    BY <1>8 DEF Fails
  <2> QED BY <1>6, <2>1
<1>9. ASSUME NEW c \in Contents, Answered(c)
      PROVE  pc' = "idle" /\ reply' # Nothing
  <2>1. pc # "idle" /\ reply' = [content |-> c, provider |-> call.provider]
    BY <1>9 DEF Answered
  <2>2. reply' \in Answers
    BY <1>0, <1>9, <2>1 DEF Answers
  <2> QED BY <1>9, <2>2, NothingElse DEF Answered
<1>10. CASE UNCHANGED vars
  BY <1>10 DEF vars, InProgress, Held, Expired, BuildKey
<1>11. ASSUME pc' = "idle" PROVE InProgress'
  BY <1>11 DEF InProgress
<1>12. (Tick \/ Ask \/ Refuse \/ UNCHANGED vars) /\ pc # "idle" => pc' # "idle"
  BY DEF Tick, Ask, Refuse, vars
<1> QED
  BY <1>1, <1>2, <1>3, <1>4, <1>5, <1>7, <1>8, <1>9, <1>10, <1>11, <1>12
  DEF Next, Step, Decide

LEMMA InProgressInit == Init => InProgress
BY DEF Init, InProgress

LEMMA InProgressHolds == Spec => []InProgress
<1>1. RouterTypes /\ BreakerSound /\ InProgress /\ [Next]_vars => InProgress'
  BY InProgressStep
<1> QED BY <1>1, InProgressInit, RouterTypeCorrect, BreakersAreSound, PTL DEF Spec

(* Decide fails only after every provider of the request failed in it or   *)
(* had to be spared.                                                       *)
THEOREM FailuresAreDeserved == Spec => FailureDeserved
<1>1. RouterTypes /\ BreakerSound /\ InProgress /\ [Next]_vars =>
        [pc # "idle" /\ pc' = "idle" /\ reply' = Nothing
           => {call.req.primary, call.req.fallback} \ {Nothing} \subseteq excused']_vars
  BY InProgressStep
<1> QED
  BY <1>1, RouterTypeCorrect, BreakersAreSound, InProgressHolds, PTL
  DEF Spec, FailureDeserved

-----------------------------------------------------------------------------
(* The router implements Advice: every step is a step of Advice, or leaves *)
(* what is known and what was replied alone.                               *)
LEMMA PromiseInit == Init => Promise!Init
BY DEF Init, Promise!Init, Known, Held, ServedKey

LEMMA KnownUnchanged == UNCHANGED entries => Known' = Known
BY DEF Known, Held, Expired

LEMMA TickIsTick ==
  ASSUME RouterTypes, Tick
  PROVE  Promise!Tick
<1> SUFFICES ASSUME NEW k \in Keys PROVE Known'[k] = Promise!Older(Known[k])
  BY DEF Promise!Tick, Tick, Known, ServedKey, BuildKey
<1>0. entries[k] \in Entry \cup {Nothing} /\ Nothing \notin Entry
  BY NothingElse DEF RouterTypes
<1>1. CASE entries[k] = Nothing
  BY <1>1, TickKeepsUnheld DEF Known, Held, Promise!Older
<1>2. CASE entries[k] # Nothing
  <2>0. entries[k] \in Entry /\ entries[k].age \in Ages
    BY <1>0, <1>2 DEF Entry
  <2>1. entries'[k] = [entries[k] EXCEPT !.age = Older(@)]
    BY <1>2 DEF Tick
  <2>2. entries'[k].age = Older(entries[k].age)
    BY <2>0, <2>1 DEF Entry
  <2>3. entries'[k] \in Entry
    BY <2>0, <2>1, OlderIsAge DEF Entry
  <2>4. Held(k) <=> entries[k].age <= TTL
    BY <1>2, <2>0, RouterAssumption DEF Held, Expired, Ages
  <2>5. Held(k)' <=> Older(entries[k].age) <= TTL
    BY <1>0, <2>2, <2>3, RouterAssumption DEF Held, Expired, Entry, Ages
  <2>6. CASE entries[k].age > TTL
    <3>1. ~Held(k) /\ ~Held(k)'
      BY <2>0, <2>4, <2>5, <2>6, RouterAssumption DEF Older, Ages
    <3> QED BY <3>1 DEF Known, Promise!Older
  <2>7. CASE entries[k].age = TTL
    <3>1. Held(k) /\ ~Held(k)'
      BY <2>0, <2>4, <2>5, <2>7, RouterAssumption DEF Older, Ages
    <3> QED BY <2>7, <3>1, RouterAssumption DEF Known, Promise!Older
  <2>8. CASE entries[k].age < TTL
    <3>1. Held(k) /\ Held(k)' /\ Older(entries[k].age) = entries[k].age + 1
      BY <2>0, <2>4, <2>5, <2>8, RouterAssumption DEF Older, Ages
    <3>2. Known[k] = entries[k] /\ Known'[k] = entries'[k]
      BY <3>1 DEF Known
    <3>3. Known'[k] = [entries[k] EXCEPT !.age = @ + 1]
      BY <2>1, <3>1, <3>2
    <3> QED BY <1>2, <2>0, <2>8, <3>2, <3>3, RouterAssumption DEF Promise!Older, Ages
  <2> QED BY <2>0, <2>6, <2>7, <2>8, RouterAssumption DEF Ages
<1> QED BY <1>1, <1>2

LEMMA EvictionIsInvisible ==
  ASSUME RouterTypes, NEW k \in Keys
  PROVE  Evicted[k] = entries[k] \/ (Evicted[k] = Nothing /\ ~Held(k))
BY DEF Evicted, Held, RouterTypes

LEMMA AnswerIsLearnt ==
  ASSUME RouterTypes, InProgress, NEW c \in Contents, Answered(c)
  PROVE  \E k \in Keys : \E a \in Answers : Promise!Learn(k, a)
<1> DEFINE k == BuildKey(call.req)
           a == [content |-> c, provider |-> call.provider]
           e == [answer |-> a, age |-> 0]
<1>1. k \in Keys /\ call.provider \in Providers /\ ~Held(k)
  BY KeyOfRequest DEF Answered, RouterTypes, RequestAt, InProgress
<1>2. a \in Answers /\ e \in Entry
  BY <1>1, RouterAssumption DEF Answers, Entry, Ages
<1>3. entries' = [Evicted EXCEPT ![k] = e] /\ reply' = a
  BY DEF Answered, Cached
<1>4. Evicted \in [Keys -> Entry \cup {Nothing}]
  BY DEF Evicted, RouterTypes
<1>5. Known[k] = Nothing
  BY <1>1 DEF Known
<1>6. ASSUME NEW j \in Keys PROVE Known'[j] = [Known EXCEPT ![k] = e][j]
  <2>1. CASE j = k
    <3>1. entries'[j] = e
      BY <1>1, <1>3, <1>4, <2>1
    <3>2. Held(j)'
      BY <1>2, <3>1, NothingElse, RouterAssumption DEF Held, Expired
    <3> QED BY <1>1, <2>1, <3>1, <3>2 DEF Known
  <2>2. CASE j # k
    <3>1. entries'[j] = Evicted[j]
      BY <1>3, <1>4, <2>2
    <3>2. CASE entries'[j] = entries[j]
      BY <2>2, <3>2 DEF Known, Held, Expired
    <3>3. CASE entries'[j] = Nothing /\ ~Held(j)
      BY <2>2, <3>3 DEF Known, Held
    <3> QED BY <3>1, <3>2, <3>3, EvictionIsInvisible
  <2> QED BY <2>1, <2>2
<1>7. Known' = [Known EXCEPT ![k] = e]
  BY <1>6 DEF Known
<1>8. ServedKey' = k
  BY <1>1, NothingElse DEF Answered, ServedKey, BuildKey, RouterTypes, RequestAt
<1> QED BY <1>1, <1>2, <1>3, <1>5, <1>7, <1>8 DEF Promise!Learn

LEMMA PromiseStep ==
  ASSUME RouterTypes, InProgress, [Next]_vars
  PROVE  Promise!Next \/ UNCHANGED <<Known, ServedKey, reply>>
<1>1. CASE Tick
  BY <1>1, TickIsTick DEF Promise!Next
<1>2. ASSUME NEW r \in Requests, Hit(r) PROVE Promise!Next
  <2> DEFINE k == BuildKey(r)
  <2>1. k \in Keys /\ entries[k] # Nothing /\ Known[k] = entries[k]
    BY <1>2, KeyOfRequest DEF Hit, Held, Known
  <2>2. ServedKey' = k
    BY <1>2, NothingElse DEF Hit, ServedKey, BuildKey
  <2>3. Promise!Replay(k)
    BY <1>2, <2>1, <2>2, KnownUnchanged DEF Hit, Promise!Replay
  <2> QED BY <2>1, <2>3 DEF Promise!Next
<1>3. ASSUME NEW c \in Contents, Answered(c) PROVE Promise!Next
  BY <1>3, AnswerIsLearnt DEF Promise!Next
<1>4. ASSUME pc # "idle", Onward, UNCHANGED entries
      PROVE  Promise!Next \/ UNCHANGED <<Known, ServedKey, reply>>
  <2> DEFINE k == BuildKey(call.req)
  <2>1. k \in Keys /\ Known[k] = Nothing
    BY <1>4, KeyOfRequest DEF RouterTypes, RequestAt, InProgress, Known
  <2>2. UNCHANGED <<ServedKey, reply>> \/ (reply' = Nothing /\ ServedKey' = k)
    <3>1. call.req \in Requests
      BY <1>4 DEF RouterTypes, RequestAt
    <3> QED BY <1>4, <3>1, NothingElse DEF Onward, ServedKey, BuildKey
  <2>3. Known' = Known
    BY <1>4, KnownUnchanged
  <2> QED BY <2>1, <2>2, <2>3 DEF Promise!Next, Promise!Fail
<1>5. CASE Measure \/ Fails
  BY <1>4, <1>5 DEF Measure, Fails
<1>6. CASE UNCHANGED <<entries, reply, served>>
  BY <1>6, KnownUnchanged DEF ServedKey, BuildKey
<1> QED
  BY <1>1, <1>2, <1>3, <1>5, <1>6
  DEF Next, Step, Decide, Miss, Ask, Refuse, vars

(* Whatever the breakers and the bounded cache do, callers see Advice: an  *)
(* answer goes again only to a request with the key it was given for, and  *)
(* only within TTL (Router.Decide, Cache).                                 *)
THEOREM PromiseIsKept == Spec => PromiseKept
<1>1. RouterTypes /\ InProgress /\ [Next]_vars => [Promise!Next]_(Promise!vars)
  BY PromiseStep DEF Promise!vars
<1> QED
  BY <1>1, PromiseInit, RouterTypeCorrect, InProgressHolds, PTL
  DEF Spec, PromiseKept, Promise!Spec
=============================================================================
