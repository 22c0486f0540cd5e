------------------------------- MODULE Signals -------------------------------
(***************************************************************************)
(* What the signal plugins put into a Bundle, and what the objectives, the *)
(* reactive rules and the alert rules read from it.  A plugin is a record  *)
(* whose kind says which service it asks; w is what the services would     *)
(* report now: a number for each signal.  Numbers are fixed-point.         *)
(***************************************************************************)
EXTENDS Integers, Sequences

CONSTANT Customs   \* the names of custom signals that policies use

Core == {"cpu_utilization", "memory_utilization", "p95_latency", "error_rate",
         "queue_depth"}

ASSUME SignalsAssumption == Customs \cap (Core \cup {"p99_latency", "cpu", "memory"}) = {}

Names == Core \cup Customs

(* A custom signal that nobody wrote reads as 0, like a field of the       *)
(* struct: the empty bundle.                                               *)
NewBundle == [n \in Names |-> 0]

-----------------------------------------------------------------------------
(* A call of Collect: what it writes, the signals that it did not get, and *)
(* whether it returned without an error.                                   *)

Result(writes, lost, ok) == [writes |-> writes, lost |-> lost, ok |-> ok]
Reports(names, w) == Result([n \in names |-> w[n]], {}, TRUE)
Silent(names) == Result([n \in {} |-> 0], names, TRUE)
Fails(names) == Result([n \in {} |-> 0], names, FALSE)
Zeros(names) == Result([n \in names |-> 0], names, TRUE)

(* The length of a queue per targetQueueLength, in hundredths.             *)
Ratio(depth, length) == (100 * depth) \div length

(* The signals that a plugin is there for.                                 *)
Queue(name) == {"queue_depth", name}
Metric == {"cloudwatch", "gcp-monitoring", "webhook"}

Provides(x) ==
  CASE x.kind = "metrics-server" -> {"cpu_utilization", "memory_utilization"}
    [] x.kind = "prometheus"     -> {x.queries[i] : i \in 1 .. Len(x.queries)} \cup x.customs
    [] x.kind = "kafka"          -> Queue("kafka_consumer_lag")
    [] x.kind = "aws-sqs"        -> Queue("sqs_visible_messages") \cup {"sqs_inflight_messages"}
                                     \cup (IF x.length > 0 THEN {"sqs_target_ratio"} ELSE {})
    [] x.kind = "gcp-pubsub"     -> Queue("pubsub_unacked_messages")
    [] x.kind \in Metric         -> {x.signal}
    [] x.kind = "datadog"        -> {"datadog_metric"}
    [] x.kind = "opencost"       -> {"opencost_total_cost", "opencost_cpu_cost",
                                     "opencost_memory_cost", "opencost_cpu_efficiency",
                                     "opencost_ram_efficiency"}
    [] x.kind = "keda"           -> {"keda_desired_replicas"}
    [] x.kind = "nodes"          -> {}

(* Each signal without a value is 0 and no error: podUtilization fails, or *)
(* sees no pods; no container requests CPU, or none requests memory; a     *)
(* ScaledObject has no status.desiredReplicas, an allocation no such cost. *)
(* Only an object that cannot be read is an error.                         *)
Shown(names, w) ==
  {Result([n \in names |-> IF n \in empty THEN 0 ELSE w[n]], empty, TRUE) :
     empty \in SUBSET names}
    \cup {Fails(names)}

MetricsServer(names, w) == Shown(names, w)
KEDA(names, w) == Shown(names, w)

(* The core queries are made in turn; the first that fails ends it and     *)
(* leaves what was written before.  A query without result is 0.  Custom   *)
(* queries that fail are skipped.                                          *)
Prometheus(x, w) ==
  LET Asked(k) == {x.queries[i] : i \in 1 .. k}
      all == Provides(x)
      Upto(written, empty, ok) ==
        Result([n \in written |-> IF n \in empty THEN 0 ELSE w[n]],
               (all \ written) \cup empty, ok)
  IN  {Upto(all \ gone, empty, TRUE) :
         gone \in SUBSET (x.customs \ Asked(Len(x.queries))), empty \in SUBSET all}
      \cup UNION {{Upto(Asked(k - 1), empty, FALSE) : empty \in SUBSET Asked(k - 1)} :
                     k \in 1 .. Len(x.queries)}

(* The lags of the group, summed over the partitions of the topic.  A      *)
(* partition whose offset cannot be read, or without a committed one, is   *)
(* left out: any part of the sum may be left.                              *)
Kafka(names, w) ==
  LET lag == w["kafka_consumer_lag"]
  IN  {Result([n \in names |-> part], IF part = lag THEN {} ELSE names, TRUE) :
         part \in 0 .. lag}
      \cup {Fails(names)}

(* An attribute that is missing or no number is 0 and no error, and what   *)
(* is made of both is then of the other alone.                             *)
SQS(x, w) ==
  LET parts == {"sqs_visible_messages", "sqs_inflight_messages"}
      Attribute(n, gone) == IF n \in gone THEN 0 ELSE w[n]
      Depth(gone) ==
        Attribute("sqs_visible_messages", gone) + Attribute("sqs_inflight_messages", gone)
      Answer(gone) ==
        Result([n \in Provides(x) |->
                  CASE n \in parts             -> Attribute(n, gone)
                    [] n = "queue_depth"      -> Depth(gone)
                    [] n = "sqs_target_ratio" -> Ratio(Depth(gone), x.length)],
               IF gone = {} THEN {} ELSE Provides(x) \ (parts \ gone), TRUE)
  IN  {Answer(gone) : gone \in SUBSET parts} \cup {Fails(Provides(x))}

(* A service that has no data point yet: nothing is written, no error.     *)
Gauge(names, w) == {Reports(names, w), Silent(names), Fails(names)}

OpenCost(names, w) == Shown(names, w) \cup {Silent(names)}
Datadog(names, w) == Gauge(names, w)

(* These three also take an answer without a readable value for 0.         *)
Metered(names, w) == Gauge(names, w) \cup {Zeros(names)}

PubSub(names, w) ==
  Metered(names, [w EXCEPT !["queue_depth"] = w["pubsub_unacked_messages"]])
CloudWatch(names, w) == Metered(names, w)
GCPMonitoring(names, w) == Metered(names, w)

(* A field that is missing or no number is an error.                       *)
Webhook(names, w) == {Reports(names, w), Fails(names)}

(* Writes what only the prompt reads.                                      *)
Nodes == {Silent({}), Fails({})}

Outcomes(x, w) ==
  LET names == Provides(x)
  IN  CASE x.kind = "metrics-server" -> MetricsServer(names, w)
        [] x.kind = "prometheus"     -> Prometheus(x, w)
        [] x.kind = "kafka"          -> Kafka(names, w)
        [] x.kind = "aws-sqs"        -> SQS(x, w)
        [] x.kind = "gcp-pubsub"     -> PubSub(names, w)
        [] x.kind = "cloudwatch"     -> CloudWatch(names, w)
        [] x.kind = "gcp-monitoring" -> GCPMonitoring(names, w)
        [] x.kind = "datadog"        -> Datadog(names, w)
        [] x.kind = "webhook"        -> Webhook(names, w)
        [] x.kind = "opencost"       -> OpenCost(names, w)
        [] x.kind = "keda"           -> KEDA(names, w)
        [] x.kind = "nodes"          -> Nodes

Kinds == Metric \cup {"metrics-server", "prometheus", "kafka", "aws-sqs",
                      "gcp-pubsub", "datadog", "opencost", "keda", "nodes"}

(* The configuration of a plugin: what it reads has a name in the bundle.  *)
IsPlugin(x) ==
  /\ x.kind \in Kinds /\ Provides(x) \subseteq Names
  /\ x.kind = "prometheus" => Len(x.queries) \in Nat
  /\ x.kind = "aws-sqs" => x.length \in Int

(* What is said about one queue under several names agrees.                *)
Agrees(x, w) ==
  /\ x.kind = "kafka" => w["queue_depth"] = w["kafka_consumer_lag"]
  /\ x.kind = "aws-sqs" =>
       /\ w["queue_depth"] = w["sqs_visible_messages"] + w["sqs_inflight_messages"]
       /\ x.length > 0 => w["sqs_target_ratio"] = Ratio(w["queue_depth"], x.length)
  /\ x.kind = "gcp-pubsub" => w["queue_depth"] = w["pubsub_unacked_messages"]

-----------------------------------------------------------------------------
(* resolveMetric: an unknown name reads as 0.                              *)
ResolveMetric(metric, b) ==
  CASE metric = "p99_latency" -> b["p95_latency"]
    [] metric \in Names       -> b[metric]
    [] OTHER                  -> 0

(* computeMargin, of which only the sign matters: lower is better, except  *)
(* for availability; nothing but 0 meets a target of 0.                    *)
Margin(slo, actual) ==
  IF slo.target = 0 THEN IF actual = 0 THEN 100 ELSE -100
  ELSE IF slo.metric = "availability" THEN actual - slo.target
  ELSE slo.target - actual

Breached(slo, b) == Margin(slo, ResolveMetric(slo.metric, b)) < 0

Holds(op, value, threshold) ==
  \/ op = ">"  /\ value > threshold
  \/ op = ">=" /\ value >= threshold
  \/ op = "<"  /\ value < threshold
  \/ op = "<=" /\ value <= threshold
  \/ op = "==" /\ value = threshold

(* evalCondition of a reactive rule also knows "!=".                       *)
RuleHolds(rule, b) ==
  LET actual == ResolveMetric(rule.metric, b)
  IN  IF rule.op = "!=" THEN actual # rule.threshold
                        ELSE Holds(rule.op, actual, rule.threshold)

(* A fault variant: the error rate stays a fraction.                       *)
AlertValueFraction(metric, b) ==
  CASE metric = "cpu"    -> b["cpu_utilization"]
    [] metric = "memory" -> b["memory_utilization"]
    [] metric \in Customs \cup {"error_rate", "p95_latency", "queue_depth"} -> b[metric]
    [] OTHER             -> 0

(* evaluateCondition has names of its own, and turns the error rate into a *)
(* percentage.                                                             *)
AlertValue(metric, b) ==
  CASE metric = "error_rate" -> b["error_rate"] * 100
    [] metric = "cpu"        -> b["cpu_utilization"]
    [] metric = "memory"     -> b["memory_utilization"]
    [] metric \in Customs \cup {"p95_latency", "queue_depth"} -> b[metric]
    [] OTHER                 -> 0

(* A condition that does not parse never holds.                            *)
AlertHolds(rule, b) ==
  rule.wellFormed /\ Holds(rule.op, AlertValue(rule.metric, b), rule.threshold)
=============================================================================
