------------------------------ MODULE MCAlerting ------------------------------
(* Three policies, whose plugins are of every kind between them, and one     *)
(* alert name that two use.  The services of p1 are calm or busy.            *)
EXTENDS AlertingProperties, TLC

Plugin(k, must) == [kind |-> k, required |-> must]
Gauged(k, name) == Plugin(k, FALSE) @@ [signal |-> name]

MCPlugins ==
  [p1 |-> <<Plugin("metrics-server", TRUE),
            Plugin("prometheus", FALSE) @@
              [queries |-> <<"p95_latency", "error_rate">>, customs |-> {"availability"}],
            Plugin("kafka", FALSE)>>,
   p2 |-> <<Plugin("metrics-server", FALSE), Plugin("aws-sqs", TRUE) @@ [length |-> 5],
            Plugin("datadog", FALSE), Gauged("cloudwatch", "requests")>>,
   p3 |-> <<Plugin("gcp-pubsub", TRUE), Gauged("gcp-monitoring", "latency"),
            Plugin("opencost", FALSE), Plugin("keda", FALSE), Plugin("nodes", FALSE),
            Gauged("webhook", "load")>>]

Test(m, o, t) == [metric |-> m, op |-> o, threshold |-> t]
Alert(n, m, o, t, d) == Test(m, o, t) @@ [name |-> n, for |-> d, wellFormed |-> TRUE]

MCRuleBook ==
  [p1 |-> <<Test("queue_depth", ">=", 3), Test("error_rate", "==", 2)>>,
   p2 |-> <<Test("datadog_metric", "!=", 1)>>,
   p3 |-> <<>>]

Target(m, t) == [metric |-> m, target |-> t]

MCObjectives ==
  [p1 |-> {Target("p99_latency", 2), Target("availability", 2), Target("unknown", 1)},
   p2 |-> {Target("cpu_utilization", 1), Target("requests", 0), Target("sqs_target_ratio", 50)},
   p3 |-> {Target("queue_depth", 1), Target("latency", 1), Target("load", 0)}]

MCAlertRules ==
  [p1 |-> <<Alert("slow", "p95_latency", ">", 2, 1), Alert("errors", "error_rate", ">", 100, 2)>>,
   p2 |-> <<[Alert("slow", "cpu", "<", 9, 0) EXCEPT !.wellFormed = FALSE],
            Alert("slow", "queue_depth", ">=", 3, 1)>>,
   p3 |-> <<>>]

MCCustoms ==
  {"availability", "kafka_consumer_lag", "keda_desired_replicas", "load",
   "sqs_visible_messages", "sqs_inflight_messages", "sqs_target_ratio", "datadog_metric",
   "requests", "pubsub_unacked_messages", "latency", "opencost_total_cost", "opencost_cpu_cost",
   "opencost_memory_cost", "opencost_cpu_efficiency", "opencost_ram_efficiency"}

(* The depth of a queue is the sum of its parts, or what PubSub has not      *)
(* delivered; of an SQS queue it is also given per 5 messages.               *)
Report(values) == values @@ [n \in Core \cup MCCustoms |-> 1]

MCWorlds ==
  [p1 |-> {Report([queue_depth |-> 2, kafka_consumer_lag |-> 2, availability |-> 2]),
           Report([queue_depth |-> 4, kafka_consumer_lag |-> 4,
                   p95_latency |-> 3, error_rate |-> 2])},
   p2 |-> {Report([queue_depth |-> 4, sqs_visible_messages |-> 3, sqs_target_ratio |-> 80,
                   cpu_utilization |-> 2, datadog_metric |-> 2])},
   p3 |-> {Report([opencost_total_cost |-> 2, latency |-> 2])}]
=============================================================================
