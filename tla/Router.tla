------------------------------- MODULE Router -------------------------------
(***************************************************************************)
(* The LLM router: Decide with its response cache, a circuit breaker for   *)
(* each configured provider, and a fallback.  The controller has one       *)
(* worker, so one Decide runs at a time; time passes between its steps.    *)
(* Breakers and cache live in memory: a restart is a new behaviour.  A     *)
(* time stamp is an age, as in Reconciler; MaxAge stands for long ago.     *)
(***************************************************************************)
EXTENDS Integers, FiniteSets

CONSTANTS
  Requests,      \* records: name, load, primary, fallback
  Providers,
  Configured,    \* the providers in the operator's configuration
  Contents,      \* what a provider may answer
  Threshold, ResetTimeout, TTL, CacheLimit,
  MaxAge,        \* ages are counted up to here
  Nothing

Ages == 0..MaxAge
Answers == [content : Contents, provider : Providers]
Entry == [answer : Answers, age : Ages]

ASSUME RouterAssumption ==
  /\ Configured \subseteq Providers
  /\ Nothing \notin Providers /\ Nothing \notin Requests
  /\ Nothing \notin Answers /\ Nothing \notin Entry
  /\ \A r \in Requests :
       r.primary \in Providers /\ r.fallback \in (Providers \ {r.primary}) \cup {Nothing}
  /\ Threshold \in Nat \ {0} /\ CacheLimit \in Nat
  /\ ResetTimeout \in Nat \ {0} /\ TTL \in Nat
  /\ MaxAge \in Nat /\ MaxAge > ResetTimeout /\ MaxAge > TTL

VARIABLES
  breaker,       \* for each configured provider state, failures, lastFailure
  entries,       \* the response cache: an entry, or Nothing, for each key
  pc,            \* idle, consulting (before Allow), refused, asking
  call,          \* the request in progress and the provider it has reached
  reply,         \* what the last Decide returned; Nothing is an error
  served,        \* history: the request that the last Decide was for
  health,        \* history: failures in a row, and the age of the last one
  excused        \* history: providers this Decide saw fail or had to spare

vars == <<breaker, entries, pc, call, reply, served, health, excused>>

NoCall == [req |-> Nothing, provider |-> Nothing]
Closed == [state |-> "closed", failures |-> 0, lastFailure |-> MaxAge]

(* Several requests have one key: the key is built from the policy's name  *)
(* and the rounded metrics only.  Policies are cluster-scoped, so these    *)
(* are requests of one policy, with other providers after an edit.         *)
BuildKey(r) == <<r.name, r.load>>
Keys == {BuildKey(r) : r \in Requests}

Init ==
  /\ breaker = [p \in Configured |-> Closed]
  /\ entries = [k \in Keys |-> Nothing]
  /\ pc = "idle" /\ call = NoCall /\ reply = Nothing /\ served = Nothing
  /\ health = [p \in Configured |-> [streak |-> 0, quiet |-> MaxAge]]
  /\ excused = {}

-----------------------------------------------------------------------------
(* The response cache.                                                     *)

Expired(e) == e # Nothing /\ e.age > TTL

(* Cache.Get finds an entry that has not expired.                          *)
Held(k) == entries[k] # Nothing /\ ~Expired(entries[k])

(* evictExpired, when the map has more than CacheLimit entries.            *)
Evicted ==
  IF Cardinality({k \in Keys : entries[k] # Nothing}) > CacheLimit
  THEN [k \in Keys |-> IF Expired(entries[k]) THEN Nothing ELSE entries[k]]
  ELSE entries

(* Cache.Set.                                                              *)
Cached(k, a) == [Evicted EXCEPT ![k] = [answer |-> a, age |-> 0]]

-----------------------------------------------------------------------------
(* The circuit breaker.  Failures are counted up to Threshold: the code    *)
(* compares the count with nothing else.                                   *)

Rested(b) == b.lastFailure > ResetTimeout

(* CircuitBreaker.State: an open breaker that has rested is half-open.     *)
State(b) == IF b.state = "open" /\ Rested(b) THEN [b EXCEPT !.state = "half-open"] ELSE b

(* A fault variant: half-open is entered after the reset timeout of the    *)
(* first failure, not of the last.                                         *)
FailedFirst(b) ==
  LET n == IF b.failures < Threshold THEN b.failures + 1 ELSE Threshold
  IN  [state       |-> IF n >= Threshold THEN "open" ELSE b.state,
       failures    |-> n,
       lastFailure |-> IF b.failures = 0 THEN 0 ELSE b.lastFailure]

(* RecordFailure.                                                          *)
Failed(b) ==
  LET n == IF b.failures < Threshold THEN b.failures + 1 ELSE Threshold
  IN  [state |-> IF n >= Threshold THEN "open" ELSE b.state,
       failures |-> n, lastFailure |-> 0]

(* A fault variant: a success closes the breaker but keeps the count.      *)
SucceededKeepingCount(b) == [b EXCEPT !.state = "closed"]

(* RecordSuccess.                                                          *)
Succeeded(b) == [b EXCEPT !.state = "closed", !.failures = 0]

(* What the caller knows of a provider that is to be left alone.           *)
MustRest(p) == health[p].streak >= Threshold /\ health[p].quiet <= ResetTimeout

(* Allow: a provider without a configuration has no breaker.               *)
Allows(p) == p \in Configured => State(breaker[p]).state # "open"

States    == [p \in Configured |-> State(breaker[p])]
Failures  == [p \in Configured |-> Failed(breaker[p])]
Successes == [p \in Configured |-> Succeeded(breaker[p])]

(* Only the breaker of the provider reached changes, if it has one.        *)
Recorded(next) ==
  [p \in Configured |-> IF p = call.provider THEN next[p] ELSE breaker[p]]

-----------------------------------------------------------------------------
(* Decide.                                                                 *)

(* A fault variant: the lookup forgets the load.                           *)
HitAnyLoad(r) ==
  /\ pc = "idle"
  /\ \E k \in Keys : k[1] = r.name /\ Held(k) /\ reply' = entries[k].answer
  /\ served' = r
  /\ UNCHANGED <<breaker, entries, pc, call, health, excused>>

Hit(r) ==
  /\ pc = "idle" /\ Held(BuildKey(r))
  /\ reply' = entries[BuildKey(r)].answer /\ served' = r
  /\ UNCHANGED <<breaker, entries, pc, call, health, excused>>

Miss(r) ==
  /\ pc = "idle" /\ ~Held(BuildKey(r))
  /\ pc' = "consulting" /\ call' = [req |-> r, provider |-> r.primary]
  /\ excused' = {}
  /\ UNCHANGED <<breaker, entries, reply, served, health>>

Decide(r) == Hit(r) \/ Miss(r)

(* A fault variant: whether there is a fallback is not checked.            *)
OnwardUnchecked ==
  IF call.provider = call.req.primary
  THEN /\ pc' = "consulting" /\ call' = [call EXCEPT !.provider = call.req.fallback]
       /\ UNCHANGED <<reply, served>>
  ELSE pc' = "idle" /\ call' = NoCall /\ reply' = Nothing /\ served' = call.req

(* A fault variant: an open breaker ends Decide without the fallback.      *)
OnwardUnlessOpen ==
  IF pc = "asking" /\ call.provider = call.req.primary /\ call.req.fallback # Nothing
  THEN /\ pc' = "consulting" /\ call' = [call EXCEPT !.provider = call.req.fallback]
       /\ UNCHANGED <<reply, served>>
  ELSE pc' = "idle" /\ call' = NoCall /\ reply' = Nothing /\ served' = call.req

(* The provider reached gives no answer: the fallback is next, if there is *)
(* one and it has not been reached yet.                                    *)
Onward ==
  IF call.provider = call.req.primary /\ call.req.fallback # Nothing
  THEN /\ pc' = "consulting" /\ call' = [call EXCEPT !.provider = call.req.fallback]
       /\ UNCHANGED <<reply, served>>
  ELSE pc' = "idle" /\ call' = NoCall /\ reply' = Nothing /\ served' = call.req

(* The breaker allows the call, and the request is sent.                   *)
Ask ==
  /\ pc = "consulting" /\ Allows(call.provider)
  /\ breaker' = Recorded(States)
  /\ pc' = "asking"
  /\ UNCHANGED <<entries, call, reply, served, health, excused>>

(* The breaker refuses.                                                    *)
Refuse ==
  /\ pc = "consulting" /\ ~Allows(call.provider)
  /\ pc' = "refused"
  /\ excused' = IF MustRest(call.provider)
                THEN excused \cup {call.provider} ELSE excused
  /\ UNCHANGED <<breaker, entries, call, reply, served, health>>

(* A fault variant: a refused call counts as a failure of the provider.    *)
MeasureAsFailure ==
  /\ pc = "refused"
  /\ breaker' = Recorded(Failures)
  /\ Onward
  /\ UNCHANGED <<entries, health, excused>>

(* A refused call reads the state once more, for the metric: by then the   *)
(* breaker may have rested.                                                *)
Measure ==
  /\ pc = "refused"
  /\ breaker' = Recorded(States)
  /\ Onward
  /\ UNCHANGED <<entries, health, excused>>

(* The provider answers, and the answer is cached.                         *)
Answered(c) ==
  /\ pc = "asking" /\ call.provider \in Configured
  /\ breaker' = Recorded(Successes)
  /\ health' = [health EXCEPT ![call.provider].streak = 0]
  /\ LET a == [content |-> c, provider |-> call.provider]
     IN  entries' = Cached(BuildKey(call.req), a) /\ reply' = a /\ served' = call.req
  /\ pc' = "idle" /\ call' = NoCall
  /\ UNCHANGED excused

(* The provider is unknown, times out, fails, or answers what cannot be    *)
(* parsed.                                                                 *)
Fails ==
  /\ pc = "asking"
  /\ breaker' = Recorded(Failures)
  /\ health' = [p \in Configured |-> IF p # call.provider THEN health[p]
                  ELSE [streak |-> IF health[p].streak < Threshold
                                   THEN health[p].streak + 1 ELSE Threshold,
                        quiet  |-> 0]]
  /\ excused' = excused \cup {call.provider}
  /\ Onward
  /\ UNCHANGED entries

Older(age) == IF age < MaxAge THEN age + 1 ELSE age

Tick ==
  /\ breaker' = [p \in Configured |-> [breaker[p] EXCEPT !.lastFailure = Older(@)]]
  /\ health' = [p \in Configured |-> [health[p] EXCEPT !.quiet = Older(@)]]
  /\ entries' = [k \in Keys |-> IF entries[k] = Nothing THEN Nothing
                                ELSE [entries[k] EXCEPT !.age = Older(@)]]
  /\ UNCHANGED <<pc, call, reply, served, excused>>

Step == Ask \/ Refuse \/ Measure \/ Fails \/ \E c \in Contents : Answered(c)
Next == Tick \/ Step \/ \E r \in Requests : Decide(r)

Spec == Init /\ [][Next]_vars

(* Time passes and every policy is evaluated again and again               *)
(* (NeverForgotten).  That a call ends is up to the provider: the client   *)
(* that buildClient makes and the context of a reconcile have no timeout.  *)
FairSpec ==
  /\ Spec /\ WF_vars(Tick) /\ WF_vars(Step)
  /\ \A r \in Requests : SF_vars(Decide(r))

-----------------------------------------------------------------------------
Breaker == [state : {"closed", "open", "half-open"},
            failures : 0..Threshold, lastFailure : Ages]
Health == [streak : 0..Threshold, quiet : Ages]
RequestAt == [req : Requests, provider : Providers]

(* Types; the request in progress has reached one of its own providers.    *)
RouterTypes ==
  /\ breaker \in [Configured -> Breaker]
  /\ entries \in [Keys -> Entry \cup {Nothing}]
  /\ pc \in {"idle", "consulting", "refused", "asking"}
  /\ call \in IF pc = "idle" THEN {NoCall} ELSE RequestAt
  /\ pc # "idle" => call.provider \in {call.req.primary, call.req.fallback}
  /\ reply \in Answers \cup {Nothing} /\ served \in Requests \cup {Nothing}
  /\ health \in [Configured -> Health]
  /\ excused \subseteq Providers

(* The count of a breaker is the provider's failures in a row, however     *)
(* requests, fallbacks and probes mix; it is closed exactly below the      *)
(* threshold and half-open only after its rest: no failure is forgotten by *)
(* a probe and none outlives a success (RecordFailure, RecordSuccess).     *)
BreakerSound ==
  \A p \in Configured :
    /\ breaker[p].failures = health[p].streak
    /\ breaker[p].lastFailure = health[p].quiet
    /\ breaker[p].state = "closed" <=> breaker[p].failures < Threshold
    /\ breaker[p].state = "half-open" => Rested(breaker[p])

(* A provider that failed Threshold times in a row is not asked before     *)
(* ResetTimeout has passed since its last failure, through every mix of    *)
(* half-open probes, fallbacks and other requests (CircuitBreaker.Allow).  *)
RestRespected ==
  [][pc = "consulting" /\ pc' = "asking" /\ call.provider \in Configured
       => ~MustRest(call.provider)]_vars

(* Decide fails only when every provider of the request failed in this     *)
(* Decide or had to be spared: a primary that is spared, or fails, does    *)
(* not keep the fallback from being asked (Router.Decide).                 *)
FailureDeserved ==
  [][pc # "idle" /\ pc' = "idle" /\ reply' = Nothing
       => {call.req.primary, call.req.fallback} \ {Nothing} \subseteq excused']_vars

(* What the callers of Decide see is the promise of Advice: each is served *)
(* what is known under the key of its own request, and eviction and an     *)
(* expired entry that is still in the map are invisible to them.           *)
Known == [k \in Keys |-> IF Held(k) THEN entries[k] ELSE Nothing]
ServedKey == IF served = Nothing THEN Nothing ELSE BuildKey(served)
Promise == INSTANCE Advice WITH known <- Known, key <- ServedKey
PromiseKept == Promise!Spec

(* An open breaker does not stay open: a request whose key nobody shares   *)
(* gets to its primary again, however often it is refused meanwhile        *)
(* (CircuitBreaker.Allow: open to half-open after the reset timeout).      *)
ProbedAgain ==
  \A r \in Requests :
    (\A q \in Requests \ {r} : BuildKey(q) # BuildKey(r)) /\ r.primary \in Configured
      => (breaker[r.primary].state = "open") ~> (breaker[r.primary].state # "open")

=============================================================================
