------------------------------- MODULE Advice -------------------------------
(***************************************************************************)
(* What a caller of the LLM router is promised, whatever providers,        *)
(* breakers and a bounded cache do inside: an answer is served again only  *)
(* to a request with the same cache key and only within TTL, a provider is *)
(* asked only when nothing is known, and nothing else moves the answers.   *)
(***************************************************************************)
EXTENDS Integers

CONSTANTS Keys,        \* what the cache tells requests apart by
          Answers,     \* an answer together with the provider it came from
          TTL,
          Nothing

VARIABLES known,       \* for each key what may be served again, or Nothing
          key,         \* the key of the request that the last Decide was for
          reply        \* what it returned; Nothing is an error

vars == <<known, key, reply>>

Init == known = [k \in Keys |-> Nothing] /\ key = Nothing /\ reply = Nothing

Replay(k) ==
  /\ known[k] # Nothing
  /\ key' = k /\ reply' = known[k].answer
  /\ UNCHANGED known

Learn(k, a) ==
  /\ known[k] = Nothing
  /\ known' = [known EXCEPT ![k] = [answer |-> a, age |-> 0]]
  /\ key' = k /\ reply' = a

Fail(k) ==
  /\ known[k] = Nothing
  /\ key' = k /\ reply' = Nothing
  /\ UNCHANGED known

Older(e) ==
  IF e = Nothing \/ e.age >= TTL THEN Nothing ELSE [e EXCEPT !.age = @ + 1]

Tick == known' = [k \in Keys |-> Older(known[k])] /\ UNCHANGED <<key, reply>>

Next ==
  \/ Tick
  \/ \E k \in Keys : Replay(k) \/ Fail(k) \/ \E a \in Answers : Learn(k, a)

Spec == Init /\ [][Next]_vars
=============================================================================
