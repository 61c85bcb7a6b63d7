------------------------------ MODULE Exporter ------------------------------
(***************************************************************************)
(* The metrics exporter (metrics/exporter.go): scrapes call Collect while  *)
(* the notifiers of the forwarding proxy count and the watcher replaces    *)
(* the list of services.                                                   *)
(*                                                                         *)
(* Collectors hand their metrics to the registry in order, so a scrape     *)
(* reads the counters one after the other.  Nothing synchronises scrapes   *)
(* with one another (they share the gauge) nor with the watcher: storing   *)
(* the slice e.services takes two stores, in whichever order the compiler  *)
(* chose, and a scrape may read it in between.                             *)
(***************************************************************************)
EXTENDS Integers, Sequences, FiniteSets, Functions

CONSTANTS
  Requests, Functions, NoFunction, Codes,      \* of ForwardingProxy
  Scrapes,           \* calls of Collect, each in a goroutine of its own
  Namespaces,        \* the provider's namespaces, in order
  NamespaceOf,       \* NamespaceOf[f]
  FunctionNamespace, \* the gateway's default namespace
  Deployments,       \* what the provider may find deployed: replicas by function, or Gone
  Stray              \* what lies beyond the end of an array

Gone == -1

ASSUME ExporterAssumption ==
  /\ NoFunction \notin Functions
  /\ Codes \subseteq 200 .. 599
  /\ Stray \notin Functions
  /\ IsFiniteSet(Requests) /\ IsFiniteSet(Functions)
  /\ Namespaces \in Seq(Range(Namespaces)) /\ Namespaces # << >> /\ IsInjective(Namespaces)
  /\ Deployments \subseteq [Functions -> Nat \cup {Gone}]

VARIABLES
  pc, fn, stream, interceptor, sent, code, started, observed, completed,
  watcher, todo, list,    \* the watcher's position, namespaces to fetch, and services so far
  array, length,     \* e.services: the array and the length of the slice
  at, got, taken, next,   \* per scrape: position, values collected, services taken, index
  alone,             \* per scrape: no other scrape has overlapped with it
  gauge              \* ServiceReplicasGauge

Proxy == INSTANCE ForwardingProxy

proxyVars == <<pc, fn, stream, interceptor, sent, code, started, observed, completed>>
watcherVars == <<watcher, todo, list, array, length>>
scrapeVars == <<at, got, taken, next, alone, gauge>>
vars == <<proxyVars, watcherVars, scrapeVars>>

Entries == [fn : Functions \cup {Stray}, replicas : Nat]
StrayEntry == [fn |-> Stray, replicas |-> 0]
Zeros == [f \in Functions |-> 0]
Empty == [f \in Functions \cup {Stray} |-> Gone]

TypeOK ==
  /\ Proxy!TypeOK
  /\ watcher \in {"idle", "fetch", "default", "publish", "arrayStored", "lengthStored"}
  /\ list \in Seq(Entries) /\ array \in Seq(Entries) /\ length \in Nat
  /\ at \in [Scrapes -> {"idle", "histogram", "started", "reset", "take", "fill", "done"}]
  /\ \A s \in Scrapes : taken[s] \in Seq(Entries) /\ next[s] \in 1 .. Len(taken[s]) + 1
  /\ gauge \in [Functions \cup {Stray} -> Nat \cup {Gone}]

Init ==
  /\ Proxy!Init
  /\ watcher = "idle" /\ todo = << >> /\ list = << >>
  /\ array = << >> /\ length = 0
  /\ at = [s \in Scrapes |-> "idle"]
  /\ got = [s \in Scrapes |-> [completed |-> Zeros, observed |-> Zeros, started |-> Zeros,
                               replicas |-> Empty]]
  /\ taken = [s \in Scrapes |-> << >>]
  /\ next = [s \in Scrapes |-> 1]
  /\ alone = [s \in Scrapes |-> FALSE]
  /\ gauge = Empty

-----------------------------------------------------------------------------
(* The watcher                                                             *)

(* What the provider may answer for a namespace, in any order: functions   *)
(* are deployed, scaled and removed at any time.                           *)
Listed(n, deployed) ==
  LET present == {f \in Functions : NamespaceOf[f] = n /\ deployed[f] # Gone}
  IN  {[i \in DOMAIN order |-> [fn |-> order[i], replicas |-> deployed[order[i]]]] :
         order \in Bijection(1 .. Cardinality(present), present)}
Answers(n) == UNION {Listed(n, deployed) : deployed \in Deployments}

(* A round starts.  No namespaces, not supported and an error are one case.*)
GetNamespaces ==
  /\ watcher = "idle"
  /\ \/ watcher' = "fetch" /\ todo' = Namespaces
     \/ watcher' = "default" /\ UNCHANGED todo
  /\ list' = << >>
  /\ UNCHANGED <<array, length>>

(* The functions of the default namespace; on an error the round is over.  *)
GetDefaultFunctions ==
  /\ watcher = "default"
  /\ \/ watcher' = "publish" /\ list' \in Answers(FunctionNamespace)
     \/ watcher' = "idle" /\ UNCHANGED list
  /\ UNCHANGED <<todo, array, length>>

(* Those of the next namespace, which is passed over on an error.          *)
GetFunctions ==
  /\ watcher = "fetch"
  /\ list' \in {list} \cup {list \o services : services \in Answers(Head(todo))}
  /\ todo' = Tail(todo)
  /\ watcher' = IF Tail(todo) = << >> THEN "publish" ELSE "fetch"
  /\ UNCHANGED <<array, length>>

(* e.services = services.                                                  *)
StoreArray ==
  /\ watcher \in {"publish", "lengthStored"}
  /\ array' = list
  /\ watcher' = IF watcher = "publish" THEN "arrayStored" ELSE "idle"
  /\ UNCHANGED <<todo, list, length>>
StoreLength ==
  /\ watcher \in {"publish", "arrayStored"}
  /\ length' = Len(list)
  /\ watcher' = IF watcher = "publish" THEN "lengthStored" ELSE "idle"
  /\ UNCHANGED <<todo, list, array>>

Watcher == GetNamespaces \/ GetDefaultFunctions \/ GetFunctions \/ StoreArray \/ StoreLength

-----------------------------------------------------------------------------
(* A scrape                                                                *)

Scraping(s) == at[s] \notin {"idle", "done"}
Move(s, from, to) == at[s] = from /\ at' = [at EXCEPT ![s] = to]

(* Collect begins with the completed invocations.                          *)
Begin(s) ==
  /\ at[s] = "idle"
  /\ at' = [at EXCEPT ![s] = "histogram"]
  /\ got' = [got EXCEPT ![s].completed = completed]
  /\ alone' = [t \in Scrapes |->
                 IF t = s THEN \A u \in Scrapes \ {s} : ~Scraping(u)
                 ELSE alone[t] /\ ~Scraping(t)]
  /\ UNCHANGED <<taken, next, gauge>>

CollectHistogram(s) ==
  /\ Move(s, "histogram", "started")
  /\ got' = [got EXCEPT ![s].observed = observed]
  /\ UNCHANGED <<taken, next, alone, gauge>>

CollectStarted(s) ==
  /\ Move(s, "started", "reset")
  /\ got' = [got EXCEPT ![s].started = started]
  /\ UNCHANGED <<taken, next, alone, gauge>>

ResetNothing(s) ==                                       \* slip: no Reset
  /\ Move(s, "reset", "take")
  /\ UNCHANGED <<got, taken, next, alone, gauge>>
Reset(s) ==
  /\ Move(s, "reset", "take")
  /\ gauge' = Empty
  /\ UNCHANGED <<got, taken, next, alone>>

(* The loop evaluates e.services once: as many elements as the length says,*)
(* whatever the array holds.                                               *)
Take(s) ==
  /\ Move(s, "take", "fill")
  /\ taken' = [taken EXCEPT ![s] =
                 [i \in 1 .. length |-> IF i <= Len(array) THEN array[i] ELSE StrayEntry]]
  /\ UNCHANGED <<got, next, alone, gauge>>

Fill(s) ==
  /\ at[s] = "fill" /\ next[s] <= Len(taken[s])
  /\ gauge' = [gauge EXCEPT ![taken[s][next[s]].fn] = taken[s][next[s]].replicas]
  /\ next' = [next EXCEPT ![s] = @ + 1]
  /\ UNCHANGED <<at, got, taken, alone>>

CollectGauge(s) ==
  /\ next[s] > Len(taken[s])
  /\ Move(s, "fill", "done")
  /\ got' = [got EXCEPT ![s].replicas = gauge]
  /\ UNCHANGED <<taken, next, alone, gauge>>

Collect(s) ==
  \/ CollectHistogram(s) \/ CollectStarted(s)
  \/ Reset(s) \/ Take(s) \/ Fill(s) \/ CollectGauge(s)

-----------------------------------------------------------------------------
Next ==
  \/ Proxy!Next /\ UNCHANGED <<watcherVars, scrapeVars>>
  \/ Watcher /\ UNCHANGED <<proxyVars, scrapeVars>>
  \/ (\E s \in Scrapes : Begin(s) \/ Collect(s))
       /\ UNCHANGED <<proxyVars, watcherVars>>

Spec == Init /\ [][Next]_vars
FairSpec == Spec /\ Proxy!Fairness

-----------------------------------------------------------------------------
(* Within one scrape no function has more completed invocations than       *)
(* observations, nor more observations than started ones, although the     *)
(* three are read at different times while requests are counted: Collect   *)
(* reads them in the opposite order of that in which they are counted.     *)
ScrapeOrdered == \A s \in Scrapes, f \in Functions :
  at[s] = "done" =>
    /\ got[s].completed[f] <= got[s].observed[f]
    /\ got[s].observed[f] <= got[s].started[f]

(* A scrape that no other one overlapped exports the services it took, all *)
(* of them and no function that is gone.                                   *)
LoneScrapeExact == \A s \in Scrapes :
  at[s] = "done" /\ alone[s] =>
    /\ \A i \in DOMAIN taken[s] : got[s].replicas[taken[s][i].fn] = taken[s][i].replicas
    /\ \A f \in Functions \cup {Stray} :
         got[s].replicas[f] # Gone => \E i \in DOMAIN taken[s] : taken[s][i].fn = f

(* The two properties of the proxy (see ForwardingProxy), under scrapes.    *)
ReportedAsSent == Proxy!ReportedAsSent
Forwarded == Proxy!Forwarded
=============================================================================
