--------------------------- MODULE ExporterProofs ---------------------------
(***************************************************************************)
(* What holds of Exporter, and of ForwardingProxy under it, for every set  *)
(* of requests, functions, namespaces and scrapes.  The proxy, the watcher *)
(* and the gauge each have an invariant; that of the counters is about the *)
(* proxy and the scrapes together.                                         *)
(***************************************************************************)
EXTENDS Exporter, FiniteSetTheorems, SequenceTheorems, TLAPS

-----------------------------------------------------------------------------
(* The invariant                                                           *)

(* The status that a request's client got, and the one that has been noted *)
(* for the notifiers, at each position.                                    *)
Quiet == {0, Proxy!EarlyHints}             \* what the interceptor has before the answer
Reported == {"report", "halfway", "counted"}
StatusAt(q) ==
  /\ pc[q] \in {"idle", "arrived", "build", "do", "serve"} => sent[q] = 0
  /\ pc[q] \in {"idle", "arrived", "build", "do"} => interceptor[q] = 0
  /\ pc[q] = "serve" => interceptor[q] \in Quiet
  /\ pc[q] = "copy" => code[q] = sent[q] /\ code[q] # 0
  /\ pc[q] = "stream" => interceptor[q] = sent[q]
  /\ pc[q] = "served" => interceptor[q] = sent[q] \/ (sent[q] = 0 /\ interceptor[q] \in Quiet)
  /\ pc[q] \in Reported =>
       \/ code[q] = sent[q] \/ code[q] = Proxy!EarlyHints
       \/ code[q] = 200 /\ sent[q] = 0
  /\ pc[q] = "done" => code[q] = sent[q] \/ code[q] = Proxy!EarlyHints

StatusInv == Proxy!TypeOK /\ \A q \in Requests : StatusAt(q)

(* The counters of a function count its requests that have come far enough.*)
Begun(f) == {q \in Requests : fn[q] = f /\ pc[q] \notin {"idle", "arrived"}}
Observed(f) == {q \in Requests : fn[q] = f /\ pc[q] \in {"halfway", "counted", "done"}}
Ended(f) == {q \in Requests : fn[q] = f /\ pc[q] \in {"counted", "done"}}

CountInv == \A f \in Functions :
  /\ started[f] = Cardinality(Begun(f))
  /\ observed[f] = Cardinality(Observed(f))
  /\ completed[f] = Cardinality(Ended(f))

(* What a scrape has read is no more than what it is still to read.        *)
ReadAt(s, f) ==
  /\ at[s] = "histogram" => got[s].completed[f] <= observed[f]
  /\ at[s] \notin {"idle", "histogram"} => got[s].completed[f] <= got[s].observed[f]
  /\ at[s] = "started" => got[s].observed[f] <= started[f]
  /\ at[s] \notin {"idle", "histogram", "started"} => got[s].observed[f] <= got[s].started[f]

Values == [completed : [Functions -> Nat], observed : [Functions -> Nat],
           started : [Functions -> Nat], replicas : [Functions \cup {Stray} -> Nat \cup {Gone}]]
ReadInv == got \in [Scrapes -> Values] /\ \A s \in Scrapes, f \in Functions : ReadAt(s, f)

(* A list of services says one thing of a function.                        *)
Services == [fn : Functions, replicas : Nat]
Coherent(seq) == \A i, j \in DOMAIN seq : seq[i].fn = seq[j].fn => seq[i].replicas = seq[j].replicas

(* The watcher goes through the namespaces once, so no function is listed  *)
(* twice, and publishes such lists only.                                   *)
WatcherInv ==
  /\ watcher \in {"idle", "fetch", "default", "publish", "arrayStored", "lengthStored"}
  /\ list \in Seq(Services) /\ Coherent(list)
  /\ array \in Seq(Services) /\ Coherent(array)
  /\ length \in Nat
  /\ watcher = "fetch" =>
       /\ todo \in Seq(Range(Namespaces)) /\ todo # << >> /\ IsInjective(todo)
       /\ \A i \in DOMAIN list, j \in DOMAIN todo : NamespaceOf[list[i].fn] # todo[j]

(* What a gauge has is what the first n entries of a list say.             *)
Exports(values, seq, n) ==
  /\ \A i \in 1 .. n : values[seq[i].fn] = seq[i].replicas
  /\ \A f \in Functions \cup {Stray} : values[f] # Gone => \E i \in 1 .. n : seq[i].fn = f

(* While a scrape is alone the gauge is its own.                           *)
ScrapeAt(s) ==
  /\ alone[s] /\ Scraping(s) => \A u \in Scrapes \ {s} : ~Scraping(u)
  /\ alone[s] /\ at[s] = "take" => gauge = Empty
  /\ alone[s] /\ at[s] = "fill" => Exports(gauge, taken[s], next[s] - 1)
  /\ alone[s] /\ at[s] = "done" => Exports(got[s].replicas, taken[s], Len(taken[s]))
  /\ at[s] \in {"idle", "histogram", "started", "reset", "take"} => next[s] = 1 /\ taken[s] = << >>
  /\ taken[s] \in Seq(Entries) /\ Coherent(taken[s]) /\ next[s] \in 1 .. Len(taken[s]) + 1

ScrapeInv ==
  /\ at \in [Scrapes -> {"idle", "histogram", "started", "reset", "take", "fill", "done"}]
  /\ alone \in [Scrapes -> BOOLEAN]
  /\ gauge \in [Functions \cup {Stray} -> Nat \cup {Gone}]
  /\ DOMAIN taken = Scrapes /\ DOMAIN next = Scrapes
  /\ \A s \in Scrapes : ScrapeAt(s)

Inv == StatusInv /\ CountInv /\ ReadInv /\ WatcherInv /\ ScrapeInv

-----------------------------------------------------------------------------
(* The proxy: the status                                                   *)

LEMMA CodesAreStatuses == \A c \in Codes : c \in Int /\ c # 0 /\ c # Proxy!EarlyHints
  BY ExporterAssumption DEF Proxy!EarlyHints

LEMMA StatusInit == Proxy!Init => StatusInv
  BY ExporterAssumption DEF Proxy!Init, StatusInv, Proxy!TypeOK, StatusAt, Quiet, Reported

(* A step of the proxy is a step of one request.                           *)
LEMMA ProxyStep ==
  ASSUME Proxy!Next
  PROVE  \E q \in Requests :
           \/ Proxy!Arrive(q) \/ Proxy!NotifyStarted(q) \/ Proxy!Build(q) \/ Proxy!Answer(q)
           \/ Proxy!Fail(q) \/ Proxy!CopyEnds(q) \/ Proxy!PassInterim(q) \/ Proxy!StreamAnswer(q)
           \/ Proxy!StreamFails(q) \/ Proxy!StreamEnds(q) \/ Proxy!Return(q) \/ Proxy!End(q)
           \/ Proxy!Observe(q, "report", "halfway") \/ Proxy!Count(q, "halfway", "counted")
  BY DEF Proxy!Next, Proxy!Handler, Proxy!Upstream, Proxy!Cut

LEMMA StatusNext == StatusInv /\ Proxy!Next => StatusInv'
<1> SUFFICES ASSUME StatusInv, Proxy!Next PROVE Proxy!TypeOK' /\ \A r \in Requests : StatusAt(r)'
  BY DEF StatusInv
<1> PICK q \in Requests :
           \/ Proxy!Arrive(q) \/ Proxy!NotifyStarted(q) \/ Proxy!Build(q) \/ Proxy!Answer(q)
           \/ Proxy!Fail(q) \/ Proxy!CopyEnds(q) \/ Proxy!PassInterim(q) \/ Proxy!StreamAnswer(q)
           \/ Proxy!StreamFails(q) \/ Proxy!StreamEnds(q) \/ Proxy!Return(q) \/ Proxy!End(q)
           \/ Proxy!Observe(q, "report", "halfway") \/ Proxy!Count(q, "halfway", "counted")
  BY ProxyStep
<1> USE ExporterAssumption, CodesAreStatuses
        DEF StatusInv, Proxy!TypeOK, Proxy!Step, Proxy!counters
<1>1. CASE Proxy!Arrive(q)
  <2>1. Proxy!TypeOK'
    BY <1>1 DEF Proxy!Arrive
  <2>2. ASSUME NEW r \in Requests PROVE StatusAt(r)'
    BY <1>1 DEF Proxy!Arrive, StatusAt, Quiet, Reported
  <2> QED
    BY <2>1, <2>2
<1>2. CASE Proxy!NotifyStarted(q)
  <2>1. Proxy!TypeOK'
    BY <1>2 DEF Proxy!NotifyStarted, Proxy!Add
  <2>2. ASSUME NEW r \in Requests PROVE StatusAt(r)'
    BY <1>2 DEF Proxy!NotifyStarted, Proxy!Add, StatusAt, Quiet, Reported
  <2> QED
    BY <2>1, <2>2
<1>3. CASE Proxy!Build(q)
  <2>1. Proxy!TypeOK'
    <3>1. PICK to \in {"serve", "do", "aborted"} :
            /\ pc[q] = "build" /\ pc' = [pc EXCEPT ![q] = to]
            /\ UNCHANGED <<fn, stream, interceptor, sent, code, started, observed, completed>>
      BY <1>3 DEF Proxy!Build
    <3> QED
      BY <3>1
  <2>2. ASSUME NEW r \in Requests PROVE StatusAt(r)'
    BY <1>3 DEF Proxy!Build, StatusAt, Quiet, Reported
  <2> QED
    BY <2>1, <2>2
<1>4. CASE Proxy!Answer(q)
  <2>1. Proxy!TypeOK'
    BY <1>4 DEF Proxy!Answer
  <2>2. ASSUME NEW r \in Requests PROVE StatusAt(r)'
    BY <1>4 DEF Proxy!Answer, StatusAt, Quiet, Reported
  <2> QED
    BY <2>1, <2>2
<1>5. CASE Proxy!Fail(q)
  <2>1. Proxy!TypeOK'
    BY <1>5 DEF Proxy!Fail, Proxy!BadGateway
  <2>2. ASSUME NEW r \in Requests PROVE StatusAt(r)'
    BY <1>5 DEF Proxy!Fail, Proxy!BadGateway, StatusAt, Quiet, Reported
  <2> QED
    BY <2>1, <2>2
<1>6. CASE Proxy!CopyEnds(q)
  <2>1. Proxy!TypeOK'
    BY <1>6 DEF Proxy!CopyEnds, StatusAt
  <2>2. ASSUME NEW r \in Requests PROVE StatusAt(r)'
    BY <1>6 DEF Proxy!CopyEnds, StatusAt, Quiet, Reported
  <2> QED
    BY <2>1, <2>2
<1>7. CASE Proxy!PassInterim(q)
  <2>1. Proxy!TypeOK'
    BY <1>7 DEF Proxy!PassInterim, Proxy!EarlyHints
  <2>2. ASSUME NEW r \in Requests PROVE StatusAt(r)'
    BY <1>7 DEF Proxy!PassInterim, Proxy!EarlyHints, StatusAt, Quiet, Reported
  <2> QED
    BY <2>1, <2>2
<1>8. CASE Proxy!StreamAnswer(q)
  <2>1. Proxy!TypeOK'
    BY <1>8 DEF Proxy!StreamAnswer
  <2>2. ASSUME NEW r \in Requests PROVE StatusAt(r)'
    BY <1>8 DEF Proxy!StreamAnswer, StatusAt, Quiet, Reported
  <2> QED
    BY <2>1, <2>2
<1>9. CASE Proxy!StreamFails(q)
  <2>1. Proxy!TypeOK'
    BY <1>9 DEF Proxy!StreamFails
  <2>2. ASSUME NEW r \in Requests PROVE StatusAt(r)'
    BY <1>9 DEF Proxy!StreamFails, StatusAt, Quiet, Reported
  <2> QED
    BY <2>1, <2>2
<1>10. CASE Proxy!StreamEnds(q)
  <2>1. Proxy!TypeOK'
    BY <1>10 DEF Proxy!StreamEnds
  <2>2. ASSUME NEW r \in Requests PROVE StatusAt(r)'
    BY <1>10 DEF Proxy!StreamEnds, StatusAt, Quiet, Reported
  <2> QED
    BY <2>1, <2>2
<1>11. CASE Proxy!Return(q)
  <2>1. Proxy!TypeOK'
    BY <1>11 DEF Proxy!Return, Proxy!Status, Proxy!EarlyHints
  <2>2. ASSUME NEW r \in Requests PROVE StatusAt(r)'
    BY <1>11 DEF Proxy!Return, Proxy!Status, Proxy!EarlyHints, StatusAt, Quiet, Reported
  <2> QED
    BY <2>1, <2>2
<1>12. CASE Proxy!Observe(q, "report", "halfway")
  <2>1. Proxy!TypeOK'
    BY <1>12 DEF Proxy!Observe, Proxy!Add
  <2>2. ASSUME NEW r \in Requests PROVE StatusAt(r)'
    BY <1>12 DEF Proxy!Observe, Proxy!Add, StatusAt, Quiet, Reported
  <2> QED
    BY <2>1, <2>2
<1>13. CASE Proxy!Count(q, "halfway", "counted")
  <2>1. Proxy!TypeOK'
    BY <1>13 DEF Proxy!Count, Proxy!Add
  <2>2. ASSUME NEW r \in Requests PROVE StatusAt(r)'
    BY <1>13 DEF Proxy!Count, Proxy!Add, StatusAt, Quiet, Reported
  <2> QED
    BY <2>1, <2>2
<1>14. CASE Proxy!End(q)
  <2>1. Proxy!TypeOK'
    BY <1>14 DEF Proxy!End, Proxy!BadGateway, Proxy!EarlyHints
  <2>2. ASSUME NEW r \in Requests PROVE StatusAt(r)'
    BY <1>14 DEF Proxy!End, Proxy!BadGateway, Proxy!EarlyHints, StatusAt, Quiet, Reported
  <2> QED
    BY <2>1, <2>2
<1> QED
  BY <1>1, <1>2, <1>3, <1>4, <1>5, <1>6, <1>7, <1>8, <1>9, <1>10, <1>11, <1>12, <1>13, <1>14

-----------------------------------------------------------------------------
(* The proxy: the counters                                                 *)

LEMMA CountInit == Proxy!Init => CountInv
<1> SUFFICES ASSUME Proxy!Init, NEW f \in Functions
             PROVE  /\ started[f] = Cardinality(Begun(f)) /\ observed[f] = Cardinality(Observed(f))
                    /\ completed[f] = Cardinality(Ended(f))
  BY DEF CountInv
<1>1. Begun(f) = {} /\ Observed(f) = {} /\ Ended(f) = {}
  BY DEF Proxy!Init, Begun, Observed, Ended
<1> QED
  BY <1>1, FS_EmptySet DEF Proxy!Init

(* The sets that are counted are finite, and each contains the next.       *)
LEMMA CountedFinite ==
  ASSUME NEW f
  PROVE  /\ IsFiniteSet(Begun(f)) /\ IsFiniteSet(Observed(f)) /\ IsFiniteSet(Ended(f))
         /\ Cardinality(Ended(f)) <= Cardinality(Observed(f))
         /\ Cardinality(Observed(f)) <= Cardinality(Begun(f))
<1>1. Begun(f) \in SUBSET Requests /\ Observed(f) \in SUBSET Begun(f) /\ Ended(f) \in SUBSET Observed(f)
  BY DEF Begun, Observed, Ended
<1>2. IsFiniteSet(Begun(f))
  BY <1>1, ExporterAssumption, FS_Subset
<1>3. IsFiniteSet(Observed(f)) /\ Cardinality(Observed(f)) <= Cardinality(Begun(f))
  BY <1>1, <1>2, FS_Subset
<1> QED
  BY <1>1, <1>2, <1>3, FS_Subset

(* A position is as good as another one that counts the same.              *)
Class(p) == <<p \in {"idle", "arrived"}, p \in {"halfway", "counted", "done"}, p \in {"counted", "done"}>>

LEMMA NothingCounted ==
  ASSUME CountInv, UNCHANGED <<started, observed, completed>>,
         \A r \in Requests :
           /\ Class(pc'[r]) = Class(pc[r])
           /\ fn'[r] = fn[r] \/ pc[r] \in {"idle", "arrived"}
  PROVE  CountInv'
<1>1. \A f \in Functions : Begun(f)' = Begun(f) /\ Observed(f)' = Observed(f) /\ Ended(f)' = Ended(f)
  BY DEF Begun, Observed, Ended, Class
<1> QED
  BY <1>1 DEF CountInv

(* One more request of a function in a set of those that are counted.      *)
LEMMA OneMore ==
  ASSUME NEW S, NEW q, IsFiniteSet(S), q \notin S
  PROVE  Cardinality(S \cup {q}) = Cardinality(S) + 1
  BY FS_AddElement

LEMMA CountNext == StatusInv /\ CountInv /\ Proxy!Next => CountInv'
<1> SUFFICES ASSUME StatusInv, CountInv, Proxy!Next PROVE CountInv'
  OBVIOUS
<1> PICK q \in Requests :
           \/ Proxy!Arrive(q) \/ Proxy!NotifyStarted(q) \/ Proxy!Build(q) \/ Proxy!Answer(q)
           \/ Proxy!Fail(q) \/ Proxy!CopyEnds(q) \/ Proxy!PassInterim(q) \/ Proxy!StreamAnswer(q)
           \/ Proxy!StreamFails(q) \/ Proxy!StreamEnds(q) \/ Proxy!Return(q) \/ Proxy!End(q)
           \/ Proxy!Observe(q, "report", "halfway") \/ Proxy!Count(q, "halfway", "counted")
  BY ProxyStep
<1>t. /\ DOMAIN pc = Requests /\ DOMAIN fn = Requests
      /\ pc[q] # "idle" => fn[q] \in Functions
      /\ started \in [Functions -> Nat] /\ observed \in [Functions -> Nat] /\ completed \in [Functions -> Nat]
  BY ExporterAssumption DEF StatusInv, Proxy!TypeOK
<1>1. ASSUME NEW from, NEW to, pc[q] = from, pc' = [pc EXCEPT ![q] = to], Class(to) = Class(from),
             fn' = fn, UNCHANGED <<started, observed, completed>>
      PROVE  CountInv'
  <2>1. \A r \in Requests : Class(pc'[r]) = Class(pc[r])
    BY <1>1, <1>t
  <2> QED
    BY <1>1, <2>1, NothingCounted
<1>2. CASE Proxy!Arrive(q)
  <2>1. /\ pc[q] = "idle" /\ pc'[q] = "arrived" /\ UNCHANGED <<started, observed, completed>>
        /\ \A r \in Requests \ {q} : pc'[r] = pc[r] /\ fn'[r] = fn[r]
    BY <1>2, <1>t DEF Proxy!Arrive, Proxy!Step, Proxy!counters
  <2>2. Class(pc'[q]) = Class(pc[q])
    BY <2>1 DEF Class
  <2> QED
    BY <2>1, <2>2, NothingCounted
<1>3. CASE Proxy!PassInterim(q)
  BY <1>3, NothingCounted DEF Proxy!PassInterim, Proxy!counters
<1>4. CASE Proxy!Build(q)
  <2>1. PICK to \in {"serve", "do", "aborted"} : pc' = [pc EXCEPT ![q] = to] /\ pc[q] = "build"
    BY <1>4 DEF Proxy!Build, Proxy!Step
  <2>2. Class(to) = Class("build")
    BY DEF Class
  <2> QED
    BY <1>1, <1>4, <2>1, <2>2 DEF Proxy!Build, Proxy!counters
<1>5. CASE Proxy!Answer(q)
  <2>1. Class("copy") = Class("do")
    BY DEF Class
  <2> QED
    BY <1>1, <1>5, <2>1 DEF Proxy!Answer, Proxy!Step, Proxy!counters
<1>6. CASE Proxy!Fail(q)
  <2>1. Class("report") = Class("do")
    BY DEF Class
  <2> QED
    BY <1>1, <1>6, <2>1 DEF Proxy!Fail, Proxy!Step, Proxy!counters
<1>7. CASE Proxy!CopyEnds(q)
  <2>1. Class("report") = Class("copy")
    BY DEF Class
  <2> QED
    BY <1>1, <1>7, <2>1 DEF Proxy!CopyEnds, Proxy!Step, Proxy!counters
<1>8. CASE Proxy!StreamAnswer(q)
  <2>1. Class("stream") = Class("serve")
    BY DEF Class
  <2> QED
    BY <1>1, <1>8, <2>1 DEF Proxy!StreamAnswer, Proxy!Step, Proxy!counters
<1>9. CASE Proxy!StreamFails(q)
  <2>1. Class("served") = Class("serve")
    BY DEF Class
  <2> QED
    BY <1>1, <1>9, <2>1 DEF Proxy!StreamFails, Proxy!Step, Proxy!counters
<1>10. CASE Proxy!StreamEnds(q)
  <2>1. Class("served") = Class("stream")
    BY DEF Class
  <2> QED
    BY <1>1, <1>10, <2>1 DEF Proxy!StreamEnds, Proxy!Step, Proxy!counters
<1>11. CASE Proxy!Return(q)
  <2>1. Class("report") = Class("served")
    BY DEF Class
  <2> QED
    BY <1>1, <1>11, <2>1 DEF Proxy!Return, Proxy!Step, Proxy!counters
<1>12. CASE Proxy!End(q)
  <2>1. Class("done") = Class("counted")
    BY DEF Class
  <2> QED
    BY <1>1, <1>12, <2>1 DEF Proxy!End, Proxy!Step, Proxy!counters
<1>13. CASE Proxy!NotifyStarted(q)
  <2>1. /\ pc[q] = "arrived" /\ pc'[q] = "build" /\ fn' = fn /\ UNCHANGED <<observed, completed>>
        /\ \A r \in Requests \ {q} : pc'[r] = pc[r]
        /\ started' = [started EXCEPT ![fn[q]] = @ + 1]
    BY <1>13, <1>t DEF Proxy!NotifyStarted, Proxy!Step, Proxy!Add, Proxy!counters
  <2>2. \A f \in Functions : Observed(f)' = Observed(f) /\ Ended(f)' = Ended(f)
    BY <2>1 DEF Observed, Ended
  <2>3. fn[q] \in Functions
    BY <1>t, <2>1
  <2>4. \A f \in Functions \ {fn[q]} : Begun(f)' = Begun(f) /\ started'[f] = started[f]
    BY <1>t, <2>1 DEF Begun
  <2>5. Begun(fn[q])' = Begun(fn[q]) \cup {q} /\ q \notin Begun(fn[q])
    BY <2>1 DEF Begun
  <2>6. Cardinality(Begun(fn[q])') = Cardinality(Begun(fn[q])) + 1
    BY <2>5, CountedFinite, OneMore
  <2>7. started'[fn[q]] = started[fn[q]] + 1
    BY <1>t, <2>1, <2>3
  <2> QED
    BY <2>1, <2>2, <2>3, <2>4, <2>6, <2>7 DEF CountInv
<1>14. CASE Proxy!Observe(q, "report", "halfway")
  <2>1. /\ pc[q] = "report" /\ pc'[q] = "halfway" /\ fn' = fn /\ UNCHANGED <<started, completed>>
        /\ \A r \in Requests \ {q} : pc'[r] = pc[r]
        /\ observed' = [observed EXCEPT ![fn[q]] = @ + 1]
    BY <1>14, <1>t DEF Proxy!Observe, Proxy!Step, Proxy!Add, Proxy!counters
  <2>2. \A f \in Functions : Begun(f)' = Begun(f) /\ Ended(f)' = Ended(f)
    BY <2>1 DEF Begun, Ended
  <2>3. fn[q] \in Functions
    BY <1>t, <2>1
  <2>4. \A f \in Functions \ {fn[q]} : Observed(f)' = Observed(f) /\ observed'[f] = observed[f]
    BY <1>t, <2>1 DEF Observed
  <2>5. Observed(fn[q])' = Observed(fn[q]) \cup {q} /\ q \notin Observed(fn[q])
    BY <2>1 DEF Observed
  <2>6. Cardinality(Observed(fn[q])') = Cardinality(Observed(fn[q])) + 1
    BY <2>5, CountedFinite, OneMore
  <2>7. observed'[fn[q]] = observed[fn[q]] + 1
    BY <1>t, <2>1, <2>3
  <2> QED
    BY <2>1, <2>2, <2>3, <2>4, <2>6, <2>7 DEF CountInv
<1>15. CASE Proxy!Count(q, "halfway", "counted")
  <2>1. /\ pc[q] = "halfway" /\ pc'[q] = "counted" /\ fn' = fn /\ UNCHANGED <<started, observed>>
        /\ \A r \in Requests \ {q} : pc'[r] = pc[r]
        /\ completed' = [completed EXCEPT ![fn[q]] = @ + 1]
    BY <1>15, <1>t DEF Proxy!Count, Proxy!Step, Proxy!Add, Proxy!counters
  <2>2. \A f \in Functions : Begun(f)' = Begun(f) /\ Observed(f)' = Observed(f)
    BY <2>1 DEF Begun, Observed
  <2>3. fn[q] \in Functions
    BY <1>t, <2>1
  <2>4. \A f \in Functions \ {fn[q]} : Ended(f)' = Ended(f) /\ completed'[f] = completed[f]
    BY <1>t, <2>1 DEF Ended
  <2>5. Ended(fn[q])' = Ended(fn[q]) \cup {q} /\ q \notin Ended(fn[q])
    BY <2>1 DEF Ended
  <2>6. Cardinality(Ended(fn[q])') = Cardinality(Ended(fn[q])) + 1
    BY <2>5, CountedFinite, OneMore
  <2>7. completed'[fn[q]] = completed[fn[q]] + 1
    BY <1>t, <2>1, <2>3
  <2> QED
    BY <2>1, <2>2, <2>3, <2>4, <2>6, <2>7 DEF CountInv
<1> QED
  BY <1>2, <1>3, <1>4, <1>5, <1>6, <1>7, <1>8, <1>9, <1>10, <1>11, <1>12, <1>13, <1>14, <1>15

(* The counters only grow, and each is at most what is counted before it.  *)
LEMMA CountersGrow ==
  ASSUME StatusInv, Proxy!Next, NEW f \in Functions
  PROVE  /\ observed'[f] >= observed[f] /\ started'[f] >= started[f]
         /\ observed'[f] \in Nat /\ started'[f] \in Nat
<1>1. observed \in [Functions -> Nat] /\ started \in [Functions -> Nat]
  BY DEF StatusInv, Proxy!TypeOK
<1>2. PICK q \in Requests :
        /\ observed' = observed \/ observed' = [observed EXCEPT ![fn[q]] = @ + 1]
        /\ started' = started \/ started' = [started EXCEPT ![fn[q]] = @ + 1]
  BY ProxyStep DEF Proxy!Arrive, Proxy!NotifyStarted, Proxy!Build, Proxy!Answer, Proxy!Fail,
     Proxy!CopyEnds, Proxy!PassInterim, Proxy!StreamAnswer, Proxy!StreamFails, Proxy!StreamEnds,
     Proxy!Return, Proxy!End, Proxy!Observe, Proxy!Count, Proxy!counters, Proxy!Add
<1> QED
  BY <1>1, <1>2

LEMMA CountersOrdered ==
  ASSUME CountInv, NEW f \in Functions
  PROVE  completed[f] <= observed[f] /\ observed[f] <= started[f]
  BY CountedFinite DEF CountInv

-----------------------------------------------------------------------------
(* Scrapes: what is read of the counters                                   *)

LEMMA ReadInit == Init => ReadInv
<1> SUFFICES ASSUME Init PROVE ReadInv
  OBVIOUS
<1>1. Zeros \in [Functions -> Nat] /\ Empty \in [Functions \cup {Stray} -> Nat \cup {Gone}]
  BY DEF Zeros, Empty
<1> QED
  BY <1>1 DEF Init, ReadInv, Values, ReadAt

(* While the counters grow, what has been read stays behind them.          *)
LEMMA ProxyKeepsRead ==
  ASSUME ReadInv, StatusInv, Proxy!Next, UNCHANGED scrapeVars
  PROVE  ReadInv'
<1>1. got' = got /\ at' = at
  BY DEF scrapeVars
<1>2. ASSUME NEW s \in Scrapes, NEW f \in Functions PROVE ReadAt(s, f)'
  <2>1. /\ observed'[f] >= observed[f] /\ started'[f] >= started[f]
        /\ observed'[f] \in Nat /\ started'[f] \in Nat
        /\ observed[f] \in Nat /\ started[f] \in Nat
    BY CountersGrow DEF StatusInv, Proxy!TypeOK
  <2>2. got[s].completed[f] \in Nat /\ got[s].observed[f] \in Nat
    BY DEF ReadInv, Values
  <2> QED
    BY <1>1, <2>1, <2>2 DEF ReadInv, ReadAt
<1> QED
  BY <1>1, <1>2 DEF ReadInv

LEMMA ScrapeKeepsRead ==
  ASSUME Inv, NEW s \in Scrapes, Begin(s) \/ Collect(s), UNCHANGED proxyVars
  PROVE  ReadInv'
<1>c. UNCHANGED <<started, observed, completed>>
  BY DEF proxyVars
<1>t. /\ got \in [Scrapes -> Values] /\ DOMAIN at = Scrapes
      /\ started \in [Functions -> Nat] /\ observed \in [Functions -> Nat] /\ completed \in [Functions -> Nat]
      /\ gauge \in [Functions \cup {Stray} -> Nat \cup {Gone}]
  BY DEF Inv, ReadInv, ScrapeInv, StatusInv, Proxy!TypeOK
<1>o. \A f \in Functions : completed[f] <= observed[f] /\ observed[f] <= started[f]
  BY CountersOrdered DEF Inv
<1>r. \A t \in Scrapes, f \in Functions : ReadAt(t, f)
  BY DEF Inv, ReadInv
<1>1. CASE Begin(s)
  <2>1. /\ at' = [at EXCEPT ![s] = "histogram"]
        /\ got' = [got EXCEPT ![s] = [@ EXCEPT !.completed = completed]]
    BY <1>1 DEF Begin
  <2>2. got' \in [Scrapes -> Values]
    BY <1>t, <2>1 DEF Values
  <2>3. /\ at'[s] = "histogram" /\ got'[s].completed = completed
        /\ \A t \in Scrapes \ {s} : at'[t] = at[t] /\ got'[t] = got[t]
    BY <1>t, <2>1 DEF Values
  <2> QED
    BY <1>c, <1>o, <1>r, <2>2, <2>3 DEF ReadInv, ReadAt
<1>2. CASE CollectHistogram(s)
  <2>1. /\ at[s] = "histogram" /\ at' = [at EXCEPT ![s] = "started"]
        /\ got' = [got EXCEPT ![s] = [@ EXCEPT !.observed = observed]]
    BY <1>2 DEF CollectHistogram, Move
  <2>2. got' \in [Scrapes -> Values]
    BY <1>t, <2>1 DEF Values
  <2>3. /\ at'[s] = "started" /\ got'[s].completed = got[s].completed /\ got'[s].observed = observed
        /\ \A t \in Scrapes \ {s} : at'[t] = at[t] /\ got'[t] = got[t]
    BY <1>t, <2>1 DEF Values
  <2> QED
    BY <1>c, <1>o, <1>r, <2>1, <2>2, <2>3 DEF ReadInv, ReadAt
<1>3. CASE CollectStarted(s)
  <2>1. /\ at[s] = "started" /\ at' = [at EXCEPT ![s] = "reset"]
        /\ got' = [got EXCEPT ![s] = [@ EXCEPT !.started = started]]
    BY <1>3 DEF CollectStarted, Move
  <2>2. got' \in [Scrapes -> Values]
    BY <1>t, <2>1 DEF Values
  <2>3. /\ at'[s] = "reset" /\ got'[s].completed = got[s].completed
        /\ got'[s].observed = got[s].observed /\ got'[s].started = started
        /\ \A t \in Scrapes \ {s} : at'[t] = at[t] /\ got'[t] = got[t]
    BY <1>t, <2>1 DEF Values
  <2> QED
    BY <1>c, <1>r, <2>1, <2>2, <2>3 DEF ReadInv, ReadAt
<1>4. CASE Reset(s) \/ Take(s) \/ Fill(s)
  <2>1. /\ got' = got
        /\ at[s] \in {"reset", "take", "fill"} /\ at'[s] \in {"take", "fill"}
        /\ \A t \in Scrapes \ {s} : at'[t] = at[t]
    BY <1>4, <1>t DEF Reset, Take, Fill, Move
  <2> QED
    BY <1>c, <1>r, <1>t, <2>1 DEF ReadInv, ReadAt
<1>5. CASE CollectGauge(s)
  <2>1. /\ at[s] = "fill" /\ at' = [at EXCEPT ![s] = "done"]
        /\ got' = [got EXCEPT ![s] = [@ EXCEPT !.replicas = gauge]]
    BY <1>5 DEF CollectGauge, Move
  <2>2. got' \in [Scrapes -> Values]
    BY <1>t, <2>1 DEF Values
  <2>3. /\ at'[s] = "done" /\ got'[s].completed = got[s].completed
        /\ got'[s].observed = got[s].observed /\ got'[s].started = got[s].started
        /\ \A t \in Scrapes \ {s} : at'[t] = at[t] /\ got'[t] = got[t]
    BY <1>t, <2>1 DEF Values
  <2> QED
    BY <1>c, <1>r, <2>1, <2>2, <2>3 DEF ReadInv, ReadAt
<1> QED
  BY <1>1, <1>2, <1>3, <1>4, <1>5 DEF Collect

-----------------------------------------------------------------------------
(* The watcher                                                             *)

LEMMA WatcherInit == Init => WatcherInv
  BY DEF Init, WatcherInv, Coherent

(* What the provider answers for a namespace has each of its functions     *)
(* with its replicas.                                                      *)
LEMMA AnswerListed ==
  ASSUME NEW n, NEW services \in Answers(n)
  PROVE  /\ services \in Seq(Services) /\ Coherent(services)
         /\ \A i \in DOMAIN services : NamespaceOf[services[i].fn] = n
<1>1. PICK deployed \in Deployments : services \in Listed(n, deployed)
  BY DEF Answers
<1> DEFINE present == {f \in Functions : NamespaceOf[f] = n /\ deployed[f] # Gone}
<1>2. PICK order \in Bijection(1 .. Cardinality(present), present) :
        services = [i \in DOMAIN order |-> [fn |-> order[i], replicas |-> deployed[order[i]]]]
  BY <1>1 DEF Listed
<1>3. Cardinality(present) \in Nat
  <2>1. present \in SUBSET Functions
    OBVIOUS
  <2> HIDE DEF present
  <2> QED
    BY <2>1, ExporterAssumption, FS_Subset, FS_CardinalityType
<1>4. \A f \in present : f \in Functions /\ deployed[f] \in Nat /\ NamespaceOf[f] = n
  BY ExporterAssumption
<1> HIDE DEF present
<1>5. order \in [1 .. Cardinality(present) -> present]
  BY <1>2 DEF Bijection, Injection
<1>6. /\ DOMAIN services = 1 .. Cardinality(present)
      /\ \A i \in DOMAIN services :
           /\ services[i] = [fn |-> order[i], replicas |-> deployed[order[i]]]
           /\ order[i] \in present
  BY <1>2, <1>5
<1>7. \A i \in DOMAIN services : services[i] \in Services
  BY <1>4, <1>6 DEF Services
<1>8. services \in Seq(Services)
  BY <1>2, <1>3, <1>5, <1>6, <1>7
<1> QED
  BY <1>4, <1>6, <1>8 DEF Coherent

(* Lists of different functions can be put one after the other.            *)
LEMMA AppendCoherent ==
  ASSUME NEW r \in Seq(Services), Coherent(r), NEW s \in Seq(Services), Coherent(s),
         \A i \in DOMAIN r, j \in DOMAIN s : r[i].fn # s[j].fn
  PROVE  /\ r \o s \in Seq(Services) /\ Coherent(r \o s)
         /\ \A i \in DOMAIN (r \o s) :
              (\E j \in DOMAIN r : (r \o s)[i] = r[j]) \/ (\E j \in DOMAIN s : (r \o s)[i] = s[j])
<1>1. /\ r \o s \in Seq(Services) /\ Len(r \o s) = Len(r) + Len(s)
      /\ \A i \in 1 .. Len(r) + Len(s) :
           (r \o s)[i] = IF i <= Len(r) THEN r[i] ELSE s[i - Len(r)]
  BY ConcatProperties
<1>2. \A i \in DOMAIN (r \o s) :
        (\E j \in DOMAIN r : (r \o s)[i] = r[j]) \/ (\E j \in DOMAIN s : (r \o s)[i] = s[j])
  <2> SUFFICES ASSUME NEW i \in 1 .. Len(r) + Len(s)
               PROVE  (\E j \in DOMAIN r : (r \o s)[i] = r[j]) \/ (\E j \in DOMAIN s : (r \o s)[i] = s[j])
    BY <1>1
  <2>1. CASE i <= Len(r)
    BY <1>1, <2>1
  <2>2. CASE i > Len(r)
    <3>1. i - Len(r) \in DOMAIN s /\ (r \o s)[i] = s[i - Len(r)]
      BY <1>1, <2>2
    <3> QED
      BY <3>1
  <2> QED
    BY <2>1, <2>2
<1>3. ASSUME NEW i \in DOMAIN (r \o s), NEW k \in DOMAIN (r \o s), (r \o s)[i].fn = (r \o s)[k].fn
      PROVE  (r \o s)[i].replicas = (r \o s)[k].replicas
  <2> DEFINE x == (r \o s)[i]
             y == (r \o s)[k]
  <2>1. (\E j \in DOMAIN r : x = r[j]) \/ (\E j \in DOMAIN s : x = s[j])
    BY <1>2
  <2>2. (\E j \in DOMAIN r : y = r[j]) \/ (\E j \in DOMAIN s : y = s[j])
    BY <1>2
  <2>3. x.fn = y.fn
    BY <1>3
  <2> HIDE DEF x, y
  <2>4. x.replicas = y.replicas
    BY <2>1, <2>2, <2>3 DEF Coherent
  <2> QED
    BY <2>4 DEF x, y
<1>4. Coherent(r \o s)
  BY <1>3 DEF Coherent
<1> QED
  BY <1>1, <1>2, <1>4

LEMMA WatcherNext == WatcherInv /\ Watcher => WatcherInv'
<1> SUFFICES ASSUME WatcherInv, Watcher PROVE WatcherInv'
  OBVIOUS
<1>1. CASE GetNamespaces
  <2>1. << >> \in Seq(Services) /\ Coherent(<< >>) /\ DOMAIN << >> = {}
    BY DEF Coherent
  <2> QED
    BY <1>1, <2>1, ExporterAssumption DEF GetNamespaces, WatcherInv
<1>2. CASE GetDefaultFunctions
  BY <1>2, AnswerListed DEF GetDefaultFunctions, WatcherInv
<1>3. CASE GetFunctions
  <2>1. /\ watcher = "fetch" /\ list' \in {list} \cup {list \o services : services \in Answers(Head(todo))}
        /\ todo' = Tail(todo) /\ watcher' = IF Tail(todo) = << >> THEN "publish" ELSE "fetch"
        /\ UNCHANGED <<array, length>>
    BY <1>3 DEF GetFunctions
  <2>2. /\ list \in Seq(Services) /\ Coherent(list)
        /\ todo \in Seq(Range(Namespaces)) /\ todo # << >> /\ IsInjective(todo)
        /\ \A i \in DOMAIN list, j \in DOMAIN todo : NamespaceOf[list[i].fn] # todo[j]
    BY <2>1 DEF WatcherInv
  <2>3. /\ Tail(todo) \in Seq(Range(Namespaces)) /\ 1 \in DOMAIN todo /\ Head(todo) = todo[1]
        /\ \A j \in DOMAIN Tail(todo) : j + 1 \in DOMAIN todo /\ Tail(todo)[j] = todo[j + 1] /\ j \in Nat \ {0}
    BY <2>2
  <2>4. \A j \in DOMAIN Tail(todo) : Tail(todo)[j] # Head(todo)
    BY <2>2, <2>3 DEF IsInjective
  <2>5. IsInjective(Tail(todo))
    BY <2>2, <2>3 DEF IsInjective
  <2>6. CASE list' = list
    <3>1. \A i \in DOMAIN list, j \in DOMAIN Tail(todo) : NamespaceOf[list[i].fn] # Tail(todo)[j]
      BY <2>2, <2>3
    <3> QED
      BY <2>1, <2>2, <2>3, <2>5, <2>6, <3>1 DEF WatcherInv
  <2>7. ASSUME NEW services \in Answers(Head(todo)), list' = list \o services PROVE WatcherInv'
    <3>1. /\ services \in Seq(Services) /\ Coherent(services)
          /\ \A i \in DOMAIN services : NamespaceOf[services[i].fn] = Head(todo)
      BY AnswerListed
    <3>2. \A i \in DOMAIN list, j \in DOMAIN services : list[i].fn # services[j].fn
      BY <2>2, <2>3, <3>1
    <3>3. /\ list' \in Seq(Services) /\ Coherent(list')
          /\ \A i \in DOMAIN list' :
               (\E j \in DOMAIN list : list'[i] = list[j]) \/ (\E j \in DOMAIN services : list'[i] = services[j])
      BY <2>2, <2>7, <3>1, <3>2, AppendCoherent
    <3>4. \A i \in DOMAIN list', j \in DOMAIN Tail(todo) : NamespaceOf[list'[i].fn] # Tail(todo)[j]
      <4> SUFFICES ASSUME NEW i \in DOMAIN list', NEW j \in DOMAIN Tail(todo)
                   PROVE  NamespaceOf[list'[i].fn] # Tail(todo)[j]
        OBVIOUS
      <4>1. CASE \E k \in DOMAIN list : list'[i] = list[k]
        BY <2>2, <2>3, <4>1
      <4>2. CASE \E k \in DOMAIN services : list'[i] = services[k]
        BY <2>4, <3>1, <4>2
      <4> QED
        BY <3>3, <4>1, <4>2
    <3> QED
      BY <2>1, <2>3, <2>5, <3>3, <3>4 DEF WatcherInv
  <2> QED
    BY <2>1, <2>6, <2>7
<1>4. CASE StoreArray
  BY <1>4 DEF StoreArray, WatcherInv
<1>5. CASE StoreLength
  BY <1>5 DEF StoreLength, WatcherInv
<1> QED
  BY <1>1, <1>2, <1>3, <1>4, <1>5 DEF Watcher

-----------------------------------------------------------------------------
(* Scrapes: the gauge                                                      *)

LEMMA StrayAndGone ==
  /\ Empty \in [Functions \cup {Stray} -> Nat \cup {Gone}] /\ \A f \in Functions \cup {Stray} : Empty[f] = Gone
  /\ Gone \notin Nat /\ Stray \notin Functions
  /\ StrayEntry \in Entries /\ StrayEntry.fn = Stray
  /\ Services \subseteq Entries
  BY ExporterAssumption DEF Empty, Gone, StrayEntry, Entries, Services

LEMMA ScrapeInit == Init => ScrapeInv
<1> SUFFICES ASSUME Init PROVE ScrapeInv
  OBVIOUS
<1>1. << >> \in Seq(Entries) /\ Coherent(<< >>) /\ Len(<< >>) = 0
  BY DEF Coherent
<1>2. ASSUME NEW s \in Scrapes PROVE ScrapeAt(s)
  BY <1>1 DEF Init, ScrapeAt
<1> QED
  BY <1>2, StrayAndGone DEF Init, ScrapeInv

(* A step of a scrape leaves those alone that are at work or over; one     *)
(* that is at work is no longer alone, or the step would not be.           *)
LEMMA OthersKept ==
  ASSUME ScrapeInv, NEW s \in Scrapes, Scraping(s),
         Scraping(s)' \/ at'[s] = "done",
         UNCHANGED alone, DOMAIN taken' = Scrapes, DOMAIN next' = Scrapes,
         NEW t \in Scrapes \ {s},
         \A u \in Scrapes \ {s} :
           at'[u] = at[u] /\ got'[u] = got[u] /\ taken'[u] = taken[u] /\ next'[u] = next[u]
  PROVE  ScrapeAt(t)'
<1>1. ScrapeAt(t)
  BY DEF ScrapeInv
<1>2. alone[t] => ~Scraping(t)
  BY <1>1 DEF ScrapeAt
<1>3. /\ at'[t] = at[t] /\ got'[t] = got[t] /\ taken'[t] = taken[t] /\ next'[t] = next[t]
      /\ alone'[t] = alone[t]
  OBVIOUS
<1> QED
  BY <1>1, <1>2, <1>3 DEF ScrapeAt, Scraping

(* The services taken are those of one list, which may be cut short or go  *)
(* on with what lies beyond the array.                                     *)
LEMMA TakenCoherent ==
  ASSUME WatcherInv
  PROVE  LET seq == [i \in 1 .. length |-> IF i <= Len(array) THEN array[i] ELSE StrayEntry]
         IN  seq \in Seq(Entries) /\ Coherent(seq)
<1> DEFINE seq == [i \in 1 .. length |-> IF i <= Len(array) THEN array[i] ELSE StrayEntry]
<1>1. /\ array \in Seq(Services) /\ Coherent(array) /\ length \in Nat
  BY DEF WatcherInv
<1>2. DOMAIN seq = 1 .. length /\ \A i \in 1 .. length :
        \/ i \in DOMAIN array /\ seq[i] = array[i] /\ array[i] \in Services
        \/ seq[i] = StrayEntry
  BY <1>1
<1>3. \A i \in 1 .. length : seq[i] \in Entries
  BY <1>2, StrayAndGone
<1>4. seq \in Seq(Entries)
  BY <1>1, <1>3
<1> HIDE DEF seq
<1>5. \A e \in Services : e.fn # StrayEntry.fn
  BY StrayAndGone DEF Services
<1>6. Coherent(seq)
  <2> SUFFICES ASSUME NEW i \in 1 .. length, NEW j \in 1 .. length, seq[i].fn = seq[j].fn
               PROVE  seq[i].replicas = seq[j].replicas
    BY <1>2 DEF Coherent
  <2>1. CASE seq[i] = StrayEntry /\ seq[j] = StrayEntry
    BY <2>1
  <2>2. CASE /\ i \in DOMAIN array /\ seq[i] = array[i] /\ array[i] \in Services
             /\ j \in DOMAIN array /\ seq[j] = array[j] /\ array[j] \in Services
    BY <1>1, <2>2 DEF Coherent
  <2> QED
    BY <1>2, <1>5, <2>1, <2>2
<1> QED
  BY <1>4, <1>6 DEF seq

LEMMA EntryOf ==
  ASSUME NEW seq \in Seq(Entries), NEW n \in 1 .. Len(seq)
  PROVE  seq[n] \in Entries /\ seq[n].fn \in Functions \cup {Stray} /\ seq[n].replicas \in Nat
<1>1. seq[n] \in Entries
  OBVIOUS
<1> QED
  BY <1>1 DEF Entries

(* One more entry is exported: those before it that are of the same        *)
(* function say the same.                                                  *)
LEMMA ExportsOneMore ==
  ASSUME gauge \in [Functions \cup {Stray} -> Nat \cup {Gone}],
         NEW seq \in Seq(Entries), Coherent(seq), NEW n \in 1 .. Len(seq),
         Exports(gauge, seq, n - 1)
  PROVE  Exports([gauge EXCEPT ![seq[n].fn] = seq[n].replicas], seq, n)
<1> DEFINE g == [gauge EXCEPT ![seq[n].fn] = seq[n].replicas]
<1>1. seq[n].fn \in Functions \cup {Stray}
  BY EntryOf
<1>2. /\ g[seq[n].fn] = seq[n].replicas
      /\ \A f \in (Functions \cup {Stray}) \ {seq[n].fn} : g[f] = gauge[f]
  BY <1>1
<1> HIDE DEF g
<1>3. ASSUME NEW i \in 1 .. n PROVE g[seq[i].fn] = seq[i].replicas
  <2>1. seq[i].fn \in Functions \cup {Stray} /\ i \in DOMAIN seq /\ n \in DOMAIN seq
    BY EntryOf
  <2>2. CASE seq[i].fn = seq[n].fn
    BY <1>2, <2>1, <2>2 DEF Coherent
  <2>3. CASE seq[i].fn # seq[n].fn
    <3>1. i \in 1 .. n - 1
      BY <2>3
    <3> QED
      BY <1>2, <2>1, <2>3, <3>1 DEF Exports
  <2> QED
    BY <2>2, <2>3
<1>4. ASSUME NEW f \in Functions \cup {Stray}, g[f] # Gone PROVE \E i \in 1 .. n : seq[i].fn = f
  <2>1. CASE f = seq[n].fn
    BY <2>1
  <2>2. CASE f # seq[n].fn
    BY <1>2, <1>4, <2>2 DEF Exports
  <2> QED
    BY <2>1, <2>2
<1> QED
  BY <1>3, <1>4 DEF Exports, g

LEMMA BeginKeepsScrapes ==
  ASSUME ScrapeInv, NEW s \in Scrapes, Begin(s)
  PROVE  ScrapeInv'
<1>1. /\ at[s] = "idle" /\ at' = [at EXCEPT ![s] = "histogram"]
      /\ \A u \in Scrapes \ {s} : got'[u] = got[u]
      /\ alone' = [t \in Scrapes |-> IF t = s THEN \A u \in Scrapes \ {s} : ~Scraping(u)
                                     ELSE alone[t] /\ ~Scraping(t)]
      /\ UNCHANGED <<taken, next, gauge>>
  BY DEF Begin
<1>2. at \in [Scrapes -> {"idle", "histogram", "started", "reset", "take", "fill", "done"}]
  BY DEF ScrapeInv
<1>3. /\ at' \in [Scrapes -> {"idle", "histogram", "started", "reset", "take", "fill", "done"}]
      /\ at'[s] = "histogram" /\ \A t \in Scrapes \ {s} : at'[t] = at[t]
  BY <1>1, <1>2
<1>4. alone' \in [Scrapes -> BOOLEAN]
  BY <1>1 DEF ScrapeInv
<1>5. /\ alone'[s] <=> \A u \in Scrapes \ {s} : ~Scraping(u)
      /\ \A t \in Scrapes \ {s} : alone'[t] <=> alone[t] /\ ~Scraping(t)
  BY <1>1
<1>6. \A u \in Scrapes \ {s} : Scraping(u)' <=> Scraping(u)
  BY <1>3 DEF Scraping
<1>7. ScrapeAt(s)'
  <2>1. ScrapeAt(s)
    BY DEF ScrapeInv
  <2> QED
    BY <1>1, <1>3, <1>5, <1>6, <2>1 DEF ScrapeAt
<1>8. ASSUME NEW t \in Scrapes \ {s} PROVE ScrapeAt(t)'
  <2>1. ScrapeAt(t)
    BY DEF ScrapeInv
  <2>2. /\ at'[t] = at[t] /\ got'[t] = got[t] /\ taken'[t] = taken[t] /\ next'[t] = next[t]
        /\ alone'[t] <=> alone[t] /\ ~Scraping(t)
    BY <1>1, <1>3, <1>5
  <2> QED
    BY <2>1, <2>2 DEF ScrapeAt, Scraping
<1> QED
  BY <1>1, <1>3, <1>4, <1>7, <1>8 DEF ScrapeInv

LEMMA CollectKeepsScrapes ==
  ASSUME ScrapeInv, WatcherInv, ReadInv, NEW s \in Scrapes, Collect(s)
  PROVE  ScrapeInv'
<1>t. /\ at \in [Scrapes -> {"idle", "histogram", "started", "reset", "take", "fill", "done"}]
      /\ alone \in [Scrapes -> BOOLEAN] /\ DOMAIN got = Scrapes
      /\ gauge \in [Functions \cup {Stray} -> Nat \cup {Gone}]
      /\ DOMAIN taken = Scrapes /\ DOMAIN next = Scrapes
  BY DEF ScrapeInv, ReadInv
<1>s. ScrapeAt(s)
  BY DEF ScrapeInv
(* It is enough to look at the scrape itself and at the gauge.             *)
<1>o. ASSUME Scraping(s), NEW to, at' = [at EXCEPT ![s] = to],
             to \in {"histogram", "started", "reset", "take", "fill", "done"},
             UNCHANGED alone, DOMAIN taken' = Scrapes, DOMAIN next' = Scrapes,
             \A u \in Scrapes \ {s} : got'[u] = got[u] /\ taken'[u] = taken[u] /\ next'[u] = next[u],
             gauge' \in [Functions \cup {Stray} -> Nat \cup {Gone}],
             ScrapeAt(s)'
      PROVE  ScrapeInv'
  <2>1. at' \in [Scrapes -> {"idle", "histogram", "started", "reset", "take", "fill", "done"}]
    BY <1>o, <1>t
  <2>2. at'[s] = to /\ \A u \in Scrapes \ {s} : at'[u] = at[u]
    BY <1>o, <1>t
  <2>3. Scraping(s)' \/ at'[s] = "done"
    BY <1>o, <2>2 DEF Scraping
  <2>4. \A t \in Scrapes \ {s} : ScrapeAt(t)'
    BY <1>o, <2>2, <2>3, OthersKept
  <2>5. \A t \in Scrapes : ScrapeAt(t)'
    BY <1>o, <2>4
  <2> QED
    BY <1>o, <1>t, <2>1, <2>5 DEF ScrapeInv
(* Those that were not at work are not at work now.                        *)
<1>a. ASSUME NEW to, at' = [at EXCEPT ![s] = to], UNCHANGED alone, alone[s], Scraping(s)
      PROVE  \A u \in Scrapes \ {s} : ~Scraping(u)'
  BY <1>a, <1>s, <1>t DEF ScrapeAt, Scraping
<1>1. CASE CollectHistogram(s)
  <2>1. /\ at[s] = "histogram" /\ at' = [at EXCEPT ![s] = "started"] /\ at'[s] = "started"
        /\ \A u \in Scrapes \ {s} : got'[u] = got[u]
        /\ UNCHANGED <<taken, next, alone, gauge>>
    BY <1>1, <1>t DEF CollectHistogram, Move
  <2>2. Scraping(s)
    BY <2>1 DEF Scraping
  <2>3. ScrapeAt(s)'
    BY <1>a, <1>s, <2>1, <2>2 DEF ScrapeAt
  <2> QED
    BY <1>o, <1>t, <2>1, <2>2, <2>3
<1>2. CASE CollectStarted(s)
  <2>1. /\ at[s] = "started" /\ at' = [at EXCEPT ![s] = "reset"] /\ at'[s] = "reset"
        /\ \A u \in Scrapes \ {s} : got'[u] = got[u]
        /\ UNCHANGED <<taken, next, alone, gauge>>
    BY <1>2, <1>t DEF CollectStarted, Move
  <2>2. Scraping(s)
    BY <2>1 DEF Scraping
  <2>3. ScrapeAt(s)'
    BY <1>a, <1>s, <2>1, <2>2 DEF ScrapeAt
  <2> QED
    BY <1>o, <1>t, <2>1, <2>2, <2>3
<1>3. CASE Reset(s)
  <2>1. /\ at[s] = "reset" /\ at' = [at EXCEPT ![s] = "take"] /\ at'[s] = "take"
        /\ gauge' = Empty /\ UNCHANGED <<got, taken, next, alone>>
    BY <1>3, <1>t DEF Reset, Move
  <2>2. Scraping(s)
    BY <2>1 DEF Scraping
  <2>3. ScrapeAt(s)'
    BY <1>a, <1>s, <2>1, <2>2 DEF ScrapeAt, Empty
  <2> QED
    BY <1>o, <1>t, <2>1, <2>2, <2>3, StrayAndGone
<1>4. CASE Take(s)
  <2> DEFINE seq == [i \in 1 .. length |-> IF i <= Len(array) THEN array[i] ELSE StrayEntry]
  <2>1. /\ at[s] = "take" /\ at' = [at EXCEPT ![s] = "fill"] /\ at'[s] = "fill"
        /\ taken' = [taken EXCEPT ![s] = seq] /\ UNCHANGED <<got, next, alone, gauge>>
    BY <1>4, <1>t DEF Take, Move
  <2>2. Scraping(s)
    BY <2>1 DEF Scraping
  <2>3. seq \in Seq(Entries) /\ Coherent(seq)
    BY TakenCoherent
  <2> HIDE DEF seq
  <2>4. taken'[s] = seq /\ DOMAIN taken' = Scrapes /\ \A u \in Scrapes \ {s} : taken'[u] = taken[u]
    BY <1>t, <2>1
  <2>5. Exports(Empty, seq, 0)
    BY StrayAndGone DEF Exports
  <2>6. next[s] = 1 /\ (alone[s] => gauge = Empty)
    BY <1>s, <2>1 DEF ScrapeAt
  <2>7. next'[s] = 1 /\ alone'[s] = alone[s] /\ gauge' = gauge
    BY <2>1, <2>6
  <2>8. ScrapeAt(s)'
    <3>1. next'[s] - 1 = 0 /\ next'[s] \in 1 .. Len(seq) + 1
      BY <2>3, <2>7
    <3>2. alone[s] => Exports(gauge', seq, next'[s] - 1)
      BY <2>5, <2>6, <2>7, <3>1
    <3>3. alone[s] => \A u \in Scrapes \ {s} : ~Scraping(u)'
      BY <1>a, <2>1, <2>2
    <3> QED
      BY <2>1, <2>3, <2>4, <2>7, <3>1, <3>2, <3>3 DEF ScrapeAt
  <2> QED
    BY <1>o, <1>t, <2>1, <2>2, <2>4, <2>8
<1>5. CASE Fill(s)
  <2>1. /\ at[s] = "fill" /\ next[s] <= Len(taken[s])
        /\ gauge' = [gauge EXCEPT ![taken[s][next[s]].fn] = taken[s][next[s]].replicas]
        /\ next' = [next EXCEPT ![s] = @ + 1] /\ UNCHANGED <<at, got, taken, alone>>
    BY <1>5 DEF Fill
  <2>2. Scraping(s)
    BY <2>1 DEF Scraping
  <2>3. at' = [at EXCEPT ![s] = "fill"]
    BY <1>t, <2>1
  <2>4. taken[s] \in Seq(Entries) /\ Coherent(taken[s]) /\ next[s] \in 1 .. Len(taken[s])
    BY <1>s, <2>1 DEF ScrapeAt
  <2>5. taken[s][next[s]].fn \in Functions \cup {Stray} /\ taken[s][next[s]].replicas \in Nat
    BY <2>4, EntryOf
  <2>6. gauge' \in [Functions \cup {Stray} -> Nat \cup {Gone}]
    BY <1>t, <2>1, <2>5
  <2>7. next'[s] = next[s] + 1 /\ DOMAIN next' = Scrapes /\ \A u \in Scrapes \ {s} : next'[u] = next[u]
    BY <1>t, <2>1
  <2>8. alone[s] => Exports(gauge', taken[s], next[s])
    <3>1. SUFFICES ASSUME alone[s] PROVE Exports(gauge', taken[s], next[s])
      OBVIOUS
    <3>2. Exports(gauge, taken[s], next[s] - 1)
      BY <1>s, <2>1, <3>1 DEF ScrapeAt
    <3> QED
      BY <1>t, <2>1, <2>4, <3>2, ExportsOneMore
  <2>9. next'[s] - 1 = next[s] /\ next'[s] \in 1 .. Len(taken[s]) + 1
    BY <2>4, <2>7
  <2>10. ScrapeAt(s)'
    <3>1. at'[s] = "fill" /\ alone'[s] = alone[s] /\ taken'[s] = taken[s]
      BY <2>1
    <3> QED
      BY <1>a, <2>1, <2>2, <2>3, <2>4, <2>8, <2>9, <3>1 DEF ScrapeAt
  <2> QED
    BY <1>o, <1>t, <2>1, <2>2, <2>3, <2>6, <2>7, <2>10
<1>6. CASE CollectGauge(s)
  <2>1. /\ next[s] > Len(taken[s]) /\ at[s] = "fill" /\ at' = [at EXCEPT ![s] = "done"] /\ at'[s] = "done"
        /\ got' = [got EXCEPT ![s] = [@ EXCEPT !.replicas = gauge]]
        /\ UNCHANGED <<taken, next, alone, gauge>>
    BY <1>6, <1>t DEF CollectGauge, Move
  <2>2. Scraping(s)
    BY <2>1 DEF Scraping
  <2>3. got'[s].replicas = gauge /\ \A u \in Scrapes \ {s} : got'[u] = got[u]
    BY <1>t, <2>1 DEF ReadInv, Values
  <2>4. /\ next[s] - 1 = Len(taken[s])
        /\ taken[s] \in Seq(Entries) /\ Coherent(taken[s]) /\ next[s] \in 1 .. Len(taken[s]) + 1
    BY <1>s, <2>1 DEF ScrapeAt
  <2>5. alone[s] => Exports(gauge, taken[s], Len(taken[s]))
    BY <1>s, <2>1, <2>4 DEF ScrapeAt
  <2>6. ScrapeAt(s)'
    <3>1. alone'[s] = alone[s] /\ taken'[s] = taken[s] /\ next'[s] = next[s]
      BY <2>1
    <3> QED
      BY <1>a, <2>1, <2>2, <2>3, <2>4, <2>5, <3>1 DEF ScrapeAt
  <2> QED
    BY <1>o, <1>t, <2>1, <2>2, <2>3, <2>6
<1> QED
  BY <1>1, <1>2, <1>3, <1>4, <1>5, <1>6 DEF Collect

LEMMA ScrapeUnchanged == ScrapeInv /\ UNCHANGED scrapeVars => ScrapeInv'
<1> SUFFICES ASSUME ScrapeInv, UNCHANGED <<at, got, taken, next, alone, gauge>> PROVE ScrapeInv'
  BY DEF scrapeVars
<1>1. ASSUME NEW s \in Scrapes PROVE ScrapeAt(s)'
  BY DEF ScrapeInv, ScrapeAt, Scraping
<1> QED
  BY <1>1 DEF ScrapeInv

-----------------------------------------------------------------------------
(* Everything together                                                     *)

LEMMA InvInit == Init => Inv
<1> SUFFICES ASSUME Init PROVE Inv
  OBVIOUS
<1>1. Proxy!Init
  BY DEF Init
<1> QED
  BY <1>1, StatusInit, CountInit, ReadInit, WatcherInit, ScrapeInit DEF Inv

LEMMA ProxyUnchanged ==
  ASSUME StatusInv, CountInv, UNCHANGED proxyVars
  PROVE  StatusInv' /\ CountInv'
<1>1. UNCHANGED <<pc, fn, stream, interceptor, sent, code, started, observed, completed>>
  BY DEF proxyVars
<1>2. Proxy!TypeOK'
  BY <1>1 DEF StatusInv, Proxy!TypeOK
<1>3. ASSUME NEW q \in Requests PROVE StatusAt(q)'
  BY <1>1 DEF StatusInv, StatusAt, Quiet
<1>4. CountInv'
  BY <1>1 DEF CountInv, Begun, Observed, Ended
<1> QED
  BY <1>2, <1>3, <1>4 DEF StatusInv

LEMMA ReadUnchanged ==
  ASSUME ReadInv, UNCHANGED <<proxyVars, scrapeVars>>
  PROVE  ReadInv'
<1>1. UNCHANGED <<got, at, started, observed>>
  BY DEF proxyVars, scrapeVars
<1> QED
  BY <1>1 DEF ReadInv, ReadAt

LEMMA WatcherUnchanged ==
  ASSUME WatcherInv, UNCHANGED watcherVars
  PROVE  WatcherInv'
<1>1. UNCHANGED <<watcher, todo, list, array, length>>
  BY DEF watcherVars
<1> QED
  BY <1>1 DEF WatcherInv, Coherent

LEMMA InvNext == Inv /\ [Next]_vars => Inv'
<1> SUFFICES ASSUME Inv, [Next]_vars PROVE Inv'
  OBVIOUS
<1>1. StatusInv /\ CountInv /\ ReadInv /\ WatcherInv /\ ScrapeInv
  BY DEF Inv
<1>2. CASE Proxy!Next /\ UNCHANGED <<watcherVars, scrapeVars>>
  <2>1. StatusInv' /\ CountInv'
    BY <1>1, <1>2, StatusNext, CountNext
  <2>2. ReadInv'
    BY <1>1, <1>2, ProxyKeepsRead
  <2>3. WatcherInv' /\ ScrapeInv'
    BY <1>1, <1>2, WatcherUnchanged, ScrapeUnchanged
  <2> QED
    BY <2>1, <2>2, <2>3 DEF Inv
<1>3. CASE Watcher /\ UNCHANGED <<proxyVars, scrapeVars>>
  <2>1. StatusInv' /\ CountInv' /\ ReadInv'
    BY <1>1, <1>3, ProxyUnchanged, ReadUnchanged
  <2>2. WatcherInv' /\ ScrapeInv'
    BY <1>1, <1>3, WatcherNext, ScrapeUnchanged
  <2> QED
    BY <2>1, <2>2 DEF Inv
<1>4. ASSUME NEW s \in Scrapes, Begin(s) \/ Collect(s), UNCHANGED <<proxyVars, watcherVars>>
      PROVE  Inv'
  <2>1. StatusInv' /\ CountInv' /\ WatcherInv'
    BY <1>1, <1>4, ProxyUnchanged, WatcherUnchanged
  <2>2. ReadInv'
    BY <1>4, ScrapeKeepsRead
  <2>3. ScrapeInv'
    BY <1>1, <1>4, BeginKeepsScrapes, CollectKeepsScrapes
  <2> QED
    BY <2>1, <2>2, <2>3 DEF Inv
<1>5. CASE UNCHANGED vars
  <2>1. UNCHANGED proxyVars /\ UNCHANGED watcherVars /\ UNCHANGED scrapeVars
    BY <1>5 DEF vars
  <2> QED
    BY <1>1, <2>1, ProxyUnchanged, ReadUnchanged, WatcherUnchanged, ScrapeUnchanged DEF Inv
<1> QED
  BY <1>2, <1>3, <1>4, <1>5 DEF Next

LEMMA Invariance == Spec => []Inv
  BY InvInit, InvNext, PTL DEF Spec

-----------------------------------------------------------------------------
(* Every variable of the exporter and of the proxy has its type.           *)
THEOREM TypeCorrect == Spec => []TypeOK
<1>1. Inv => TypeOK
  <2> SUFFICES ASSUME Inv PROVE TypeOK
    OBVIOUS
  <2>1. Services \subseteq Entries
    BY StrayAndGone
  <2>2. list \in Seq(Entries) /\ array \in Seq(Entries)
    <3>1. list \in Seq(Services) /\ array \in Seq(Services)
      BY DEF Inv, WatcherInv
    <3>2. ASSUME NEW seq \in Seq(Services) PROVE seq \in Seq(Entries)
      <4>1. seq \in [1 .. Len(seq) -> Services] /\ Len(seq) \in Nat
        OBVIOUS
      <4>2. seq \in [1 .. Len(seq) -> Entries]
        BY <2>1, <4>1
      <4> QED
        BY <4>1, <4>2
    <3> QED
      BY <3>1, <3>2
  <2>3. \A s \in Scrapes : taken[s] \in Seq(Entries) /\ next[s] \in 1 .. Len(taken[s]) + 1
    BY DEF Inv, ScrapeInv, ScrapeAt
  <2> QED
    BY <2>2, <2>3 DEF Inv, StatusInv, WatcherInv, ScrapeInv, TypeOK
<1> QED
  BY <1>1, Invariance, PTL

(* The notifiers are told the status that the client got, unless they are  *)
(* told an interim one: whichever way the answer took, through io.Copy, or *)
(* through the interceptor and the reverse proxy's goroutine, and whenever *)
(* it broke off.                                                           *)
THEOREM StatusReported == Spec => []ReportedAsSent
<1>1. Inv => ReportedAsSent
  BY DEF Inv, StatusInv, StatusAt, ReportedAsSent, Proxy!ReportedAsSent
<1> QED
  BY <1>1, Invariance, PTL

(* No scrape, however it is interleaved with the requests it counts,       *)
(* exports more completed invocations of a function than observations, nor *)
(* more observations than started ones.                                    *)
THEOREM ReadsOrdered == Spec => []ScrapeOrdered
<1>1. Inv => ScrapeOrdered
  BY DEF Inv, ReadInv, ReadAt, ScrapeOrdered
<1> QED
  BY <1>1, Invariance, PTL

(* A scrape that no other has overlapped exports just the services that it *)
(* took from the watcher, although the watcher may be storing others.      *)
THEOREM LoneScrape == Spec => []LoneScrapeExact
<1>1. Inv => LoneScrapeExact
  <2> SUFFICES ASSUME Inv, NEW s \in Scrapes, at[s] = "done", alone[s]
               PROVE  /\ \A i \in DOMAIN taken[s] : got[s].replicas[taken[s][i].fn] = taken[s][i].replicas
                      /\ \A f \in Functions \cup {Stray} :
                           got[s].replicas[f] # Gone => \E i \in DOMAIN taken[s] : taken[s][i].fn = f
    BY DEF LoneScrapeExact
  <2>1. Exports(got[s].replicas, taken[s], Len(taken[s])) /\ taken[s] \in Seq(Entries)
    BY DEF Inv, ScrapeInv, ScrapeAt
  <2>2. DOMAIN taken[s] = 1 .. Len(taken[s])
    BY <2>1
  <2> QED
    BY <2>1, <2>2 DEF Exports
<1> QED
  BY <1>1, Invariance, PTL
=============================================================================
