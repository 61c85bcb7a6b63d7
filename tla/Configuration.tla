--------------------------- MODULE Configuration ---------------------------
(***************************************************************************)
(* types/readconfig.go: the gateway's configuration, from environment      *)
(* variables.  The value of a variable is a record of its kind and, where  *)
(* it is a number or a duration, that many seconds: "unset"; "number"; a   *)
(* "duration" with a unit; "text", which is neither; "bad", which does not *)
(* parse as what the variable is for.                                      *)
(***************************************************************************)
EXTENDS Integers

Kinds == {"unset", "number", "duration", "text", "bad"}
Values == [kind : Kinds, n : Int]
Unset == [kind |-> "unset", n |-> 0]
Text == [kind |-> "text", n |-> 0]
Bad == [kind |-> "bad", n |-> 0]
Number(n) == [kind |-> "number", n |-> n]
Duration(n) == [kind |-> "duration", n |-> n]

DefaultTimeout == 60

(* parseIntOrDurationValue: a number of seconds, or a duration, which may  *)
(* be negative.                                                            *)
ParseIntOrDuration(value) ==
  IF value.kind = "duration" \/ (value.kind = "number" /\ value.n >= 0)
    THEN value.n ELSE DefaultTimeout

(* Read fails on a URL that does not parse and on a number that is none    *)
(* (max_idle_conns stands for max_idle_conns_per_host too).                *)
ReadFails(env) ==
  \/ env.functions_provider_url = Bad \/ env.logs_provider_url = Bad
  \/ \E v \in {env.faas_nats_port, env.faas_prometheus_port, env.max_idle_conns} :
       v.kind \notin {"unset", "number"}

(* Read: FALSE stands for a pointer that is nil.                           *)
IsSet(value) == value # Unset
LogsUrlSet(env) == IsSet(env.logs_provider_url) \/ IsSet(env.functions_provider_url)
Read(env) ==
  [FunctionsProviderURL |-> IsSet(env.functions_provider_url),
   LogsProviderURL |-> LogsUrlSet(env),
   NATSAddress |-> IsSet(env.faas_nats_address),
   NATSPort |-> IsSet(env.faas_nats_port),
   WriteTimeout |-> ParseIntOrDuration(env.write_timeout),
   UseBasicAuth |-> env.basic_auth,
   Namespace |-> env.function_namespace]

UseExternalProvider(config) == config.FunctionsProviderURL
UseNATSByAddress(config) == config.NATSAddress              \* slip: half of the test
UseNATS(config) == config.NATSPort /\ config.NATSAddress
=============================================================================
