----------------------------- MODULE MCGateway -----------------------------
EXTENDS Gateway

Plain ==
  [functions_provider_url |-> Text, logs_provider_url |-> Unset,
   faas_nats_address |-> Unset, faas_nats_port |-> Unset,
   faas_prometheus_port |-> Unset, max_idle_conns |-> Unset,
   write_timeout |-> Unset, basic_auth |-> FALSE, function_namespace |-> "d"]

MCEnvironments ==
  {[Plain EXCEPT !.functions_provider_url = p, !.logs_provider_url = l,
                 !.faas_nats_address = a, !.faas_nats_port = n, !.basic_auth = b] :
     p \in {Unset, Text, Bad}, l \in {Unset, Text, Bad}, b \in BOOLEAN,
     a \in {Unset, Text}, n \in {Unset, Number(4222), Text}}
  \cup {[Plain EXCEPT !.write_timeout = t, !.function_namespace = ""] :
     t \in {Number(0), Duration(-1)}}
  \cup {[Plain EXCEPT !.faas_prometheus_port = Text], [Plain EXCEPT !.max_idle_conns = Text]}

Function(name, ns) == <<<<name>>, ns>>
Url(form, name) == [form |-> form, name |-> name]
MCFunctions == {Function("f", "d"), Function("f", "e")}
MCUrls == {Url("plain", <<"f">>), Url("plain", <<"f", "d">>), Url("plain", <<"f", "e">>),
           Url("escaped", <<"f">>)}
=============================================================================
