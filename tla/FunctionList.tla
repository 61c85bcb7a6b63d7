---------------------------- MODULE FunctionList ----------------------------
(***************************************************************************)
(* GET /system/functions: AddMetricsHandler (metrics/add_metrics.go) asks  *)
(* the provider for its functions and Prometheus (prometheus_query.go) for *)
(* their invocations, which the notifiers count meanwhile and Prometheus   *)
(* collects now and then.                                                  *)
(***************************************************************************)
EXTENDS Names, Functions

CONSTANTS
  Functions,         \* functions, pairs of a name and a namespace
  DefaultNamespace,  \* the namespace in which the provider looks for a bare name
  Urls,              \* requests that invoke functions
  MaxInvocations     \* bound: invocations counted

VARIABLES
  namespace,    \* function_namespace, as configured
  counter,      \* gateway_function_invocation_total, by label
  scraped,      \* what Prometheus has of it
  runs,         \* per function: invocations whose name the gateway could read
  runsScraped,  \* those of them that happened before the last scrape
  step,         \* of the listing: "idle", "listed", or its answer
  functions,    \* the functions the provider listed
  counts,       \* the counts reported, by function
  truth         \* runsScraped when Prometheus was asked

invocationVars == <<counter, scraped, runs, runsScraped>>
listingVars == <<step, functions, counts, truth>>
vars == <<namespace, invocationVars, listingVars>>

Labels == {Counted(n, url) : url \in Urls, n \in {Empty, DefaultNamespace}}
Answers == {"200", "refused", "aborted"}
Nothing == [f \in {} |-> 0]

(* The function that the provider finds under a name.                      *)
Found(name) == IF Len(name) > 1 THEN <<<<name[1]>>, name[2]>> ELSE <<name, DefaultNamespace>>

ListAssumption ==
  /\ DefaultNamespace \in STRING \ {Empty}
  /\ Urls \subseteq [form : Forms, name : Seq(STRING)]
  /\ \A url \in Urls : Len(url.name) \in 1 .. 2 /\ Found(url.name) \in Functions
  /\ Functions \subseteq Seq(STRING) \X STRING
  /\ \A f \in Functions : Len(f[1]) = 1 /\ f[1] \notin {NoName, Escaped(f[1])} /\ f[2] # Empty
  /\ MaxInvocations \in Nat

TypeOK ==
  /\ namespace \in {Empty, DefaultNamespace}
  /\ counter \in [Labels -> 0 .. MaxInvocations] /\ scraped \in [Labels -> 0 .. MaxInvocations]
  /\ runs \in [Functions -> Nat] /\ runsScraped \in [Functions -> Nat]
  /\ step \in {"idle", "listed"} \cup Answers
  /\ functions \subseteq Functions /\ DOMAIN counts \subseteq functions

Init ==
  /\ namespace \in {Empty, DefaultNamespace}
  /\ counter = [l \in Labels |-> 0] /\ scraped = counter
  /\ runs = [f \in Functions |-> 0] /\ runsScraped = runs
  /\ step = "idle" /\ functions = {}
  /\ counts = Nothing /\ truth = runs

-----------------------------------------------------------------------------
(* A name the gateway can read: it stands in the URL, and in full if the   *)
(* gateway does not know the default namespace.                            *)
Readable(url) == url.form = "plain" /\ (namespace # Empty \/ Len(url.name) > 1)

(* A function is invoked: the provider runs what the forwarded path, which *)
(* is r.URL.Path, names, and the notifiers count what they read.           *)
Invoke(url) ==
  LET label == Counted(namespace, url)
  IN  /\ counter[label] < MaxInvocations
      /\ counter' = [counter EXCEPT ![label] = @ + 1]
      /\ runs' = [runs EXCEPT ![Found(url.name)] = IF Readable(url) THEN @ + 1 ELSE @]
      /\ UNCHANGED <<namespace, scraped, runsScraped, listingVars>>

(* Prometheus scrapes the gateway.                                         *)
Scrape ==
  /\ scraped' = counter /\ runsScraped' = runs
  /\ UNCHANGED <<namespace, counter, runs, listingVars>>

-----------------------------------------------------------------------------
(* The provider lists functions of a namespace; any status but 200 is      *)
(* passed on, and what cannot be parsed is a 500: "refused".               *)
List ==
  /\ step = "idle"
  /\ \/ \E n \in {f[2] : f \in Functions} :
          /\ functions' \in SUBSET {f \in Functions : f[2] = n}
          /\ step' = "listed"
     \/ step' = "refused" /\ UNCHANGED functions
  /\ UNCHANGED <<namespace, invocationVars, counts, truth>>

(* With no functions there is no query.                                    *)
ListNothing ==
  /\ step = "listed" /\ functions = {}
  /\ step' = "200"
  /\ UNCHANGED <<namespace, invocationVars, functions, counts, truth>>

(* Fetch: the invocations counted under labels that end in .n, where n is  *)
(* the namespace of the first function.  mixIn: the count of each function *)
(* is that of its label, if there is one.                                  *)
Matching(n) == {l \in Labels : Len(l) > 1 /\ l[Len(l)] = n /\ scraped[l] > 0}
MixIn(f, found) == IF MixedIn(f) \in found THEN scraped[MixedIn(f)] ELSE 0

ListWithCounts ==
  /\ step = "listed" /\ functions # {}
  /\ LET first == CHOOSE f \in functions : TRUE
     IN  counts' = [f \in functions |-> MixIn(f, Matching(first[2]))]
  /\ truth' = runsScraped
  /\ step' = "200"
  /\ UNCHANGED <<namespace, invocationVars, functions>>

(* If the query fails its results are nil, and mixIn panics reading them.  *)
ListUnmixed ==
  /\ step = "listed" /\ functions # {}
  /\ step' = "aborted"
  /\ UNCHANGED <<namespace, invocationVars, functions, counts, truth>>

Done ==
  /\ step \in Answers
  /\ step' = "idle" /\ functions' = {} /\ counts' = Nothing
  /\ truth' = [f \in Functions |-> 0]
  /\ UNCHANGED <<namespace, invocationVars>>

Listing == ListNothing \/ ListWithCounts \/ ListUnmixed

Next == (\E url \in Urls : Invoke(url)) \/ Scrape \/ List \/ Listing \/ Done

Spec == Init /\ [][Next]_vars

-----------------------------------------------------------------------------
(* Whoever derives a name from a plain request that names a function       *)
(* agrees on it: what is scaled is what the provider runs, and it is       *)
(* counted under the label that the function list and the gauge of         *)
(* replicas use.                                                           *)
NamesAgree == \A url \in Urls : Readable(url) =>
  /\ Scaled(namespace, url) = Found(url.name)
  /\ Counted(namespace, url) = MixedIn(Found(url.name))
  /\ Counted(namespace, url) = GaugeLabel(Found(url.name))

(* A listing reports, for each function that the provider listed, exactly  *)
(* the invocations that Prometheus had heard of, under all its names and   *)
(* no other function's, though invocations and scrapes went on meanwhile.  *)
ListExact ==
  step = "200" =>
    /\ DOMAIN counts = functions
    /\ \A f \in functions : counts[f] = truth[f]

(* "log the error but continue, the mixIn will correctly handle the empty  *)
(* results" (add_metrics.go:64).                                           *)
ListedAnyway == step # "aborted"
=============================================================================
