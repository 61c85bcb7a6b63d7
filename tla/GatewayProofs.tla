--------------------------- MODULE GatewayProofs ---------------------------
(***************************************************************************)
(* What holds of Gateway for every set of environments, functions,         *)
(* requests and bounds.  The start, the list of functions and the logs     *)
(* touch different variables, and each has an invariant of its own.        *)
(***************************************************************************)
EXTENDS Gateway, SequenceTheorems, TLAPS

-----------------------------------------------------------------------------
(* The invariant                                                           *)

(* While main needs the configuration it is one that was read without      *)
(* error and has a provider.                                               *)
StartInv ==
  /\ main \in {"start", "wire", "connect", "listen", "serve", "exited"}
  /\ timeout \in Int
  /\ main \in {"wire", "connect"} =>
       \E env \in Environments : config = Read(env) /\ UseExternalProvider(config)

(* What a counter has for a function.                                      *)
Tally(c, f) == IF List!MixedIn(f) \in List!Labels THEN c[List!MixedIn(f)] ELSE 0

(* The counter has, for each function, the invocations whose name could be *)
(* read, and what Prometheus has is what had happened at the last scrape.  *)
Tallied == \A f \in Functions :
  runs[f] = Tally(counter, f) /\ runsScraped[f] = Tally(scraped, f)

(* A listing is of one namespace and has no counts before the query.       *)
Listable ==
  /\ \A f, g \in functions : f[2] = g[2]
  /\ step \in {"idle", "listed"} => counts = List!Nothing

ListInv == List!TypeOK /\ Tallied /\ Listable /\ ListExact

(* While the handler is there, nothing is late; once it has returned the   *)
(* response is closed, and only a line that the copier has in hand is      *)
(* still to be written.                                                    *)
LateAt(q) ==
  /\ handler[q] \in {"idle", "connect"} => copier[q] = "none"
  /\ handler[q] # "over" => late[q] = 0
  /\ handler[q] = "over" => body[q] = "closed"
  /\ late[q] = 0 \/ (late[q] = 1 /\ copier[q] # "write")

LogInv == Logs!TypeOK /\ \A q \in LogRequests : LateAt(q)

Inv == StartInv /\ ListInv /\ LogInv

-----------------------------------------------------------------------------
(* Logs: a step concerns one request                                       *)

LEMMA LinesBounded == MaxLines \in Nat
  BY GatewayAssumption DEF Logs!LogAssumption

LEMMA LogInit == Logs!Init => LogInv
  BY LinesBounded DEF Logs!Init, LogInv, Logs!TypeOK, LateAt

LEMMA ArriveKeepsLog ==
  ASSUME LogInv, NEW q \in LogRequests, Logs!Arrive(q, timeout)
  PROVE  LogInv'
<1>1. Logs!TypeOK'
  BY DEF LogInv, Logs!TypeOK, Logs!Arrive
<1>2. ASSUME NEW p \in LogRequests PROVE LateAt(p)'
  BY DEF LogInv, Logs!TypeOK, LateAt, Logs!Arrive
<1> QED
  BY <1>1, <1>2 DEF LogInv

LEMMA RelayedKeepsLog ==
  ASSUME LogInv, Logs!Relayed
  PROVE  LogInv'
<1> USE LinesBounded
<1> SUFFICES ASSUME NEW q \in LogRequests,
                    \/ Logs!Refuse(q) \/ Logs!Relay(q) \/ Logs!Handler(q) \/ Logs!Leave(q)
                    \/ Logs!Read(q) \/ Logs!LogEnds(q) \/ Logs!Copier(q)
                    \/ Logs!ClientLeaves(q) \/ Logs!Expire(q)
             PROVE  Logs!TypeOK' /\ \A p \in LogRequests : LateAt(p)'
  BY DEF Logs!Relayed, LogInv
<1> USE DEF LogInv, Logs!TypeOK
<1>1. CASE Logs!Refuse(q)
  <2>1. Logs!TypeOK'
    BY <1>1 DEF Logs!Refuse
  <2>2. ASSUME NEW p \in LogRequests PROVE LateAt(p)'
    BY <1>1 DEF LateAt, Logs!Refuse
  <2> QED
    BY <2>1, <2>2
<1>2. CASE Logs!Relay(q)
  <2>1. Logs!TypeOK'
    BY <1>2 DEF Logs!Relay
  <2>2. ASSUME NEW p \in LogRequests PROVE LateAt(p)'
    BY <1>2 DEF LateAt, Logs!Relay
  <2> QED
    BY <2>1, <2>2
<1>3. CASE Logs!Select(q)
  <2>1. Logs!TypeOK'
    BY <1>3 DEF Logs!Select
  <2>2. ASSUME NEW p \in LogRequests PROVE LateAt(p)'
    BY <1>3 DEF LateAt, Logs!Select
  <2> QED
    BY <2>1, <2>2
<1>4. CASE Logs!Return(q)
  <2>1. Logs!TypeOK'
    BY <1>4 DEF Logs!Return
  <2>2. ASSUME NEW p \in LogRequests PROVE LateAt(p)'
    BY <1>4 DEF LateAt, Logs!Return
  <2> QED
    BY <2>1, <2>2
<1>5. CASE Logs!Leave(q)
  <2>1. Logs!TypeOK'
    BY <1>5 DEF Logs!Leave
  <2>2. ASSUME NEW p \in LogRequests PROVE LateAt(p)'
    BY <1>5 DEF LateAt, Logs!Leave
  <2> QED
    BY <2>1, <2>2
<1>6. CASE Logs!Read(q)
  <2>1. Logs!TypeOK'
    BY <1>6 DEF Logs!Read, Logs!Copied
  <2>2. ASSUME NEW p \in LogRequests PROVE LateAt(p)'
    BY <1>6 DEF LateAt, Logs!Read, Logs!Copied
  <2> QED
    BY <2>1, <2>2
<1>7. CASE Logs!ReadFails(q)
  <2>1. Logs!TypeOK'
    BY <1>7 DEF Logs!ReadFails, Logs!Copied
  <2>2. ASSUME NEW p \in LogRequests PROVE LateAt(p)'
    BY <1>7 DEF LateAt, Logs!ReadFails, Logs!Copied
  <2> QED
    BY <2>1, <2>2
<1>8. CASE Logs!LogEnds(q)
  <2>1. Logs!TypeOK'
    BY <1>8 DEF Logs!LogEnds, Logs!Copied
  <2>2. ASSUME NEW p \in LogRequests PROVE LateAt(p)'
    BY <1>8 DEF LateAt, Logs!LogEnds, Logs!Copied
  <2> QED
    BY <2>1, <2>2
<1>9. CASE Logs!Write(q)
  <2>1. Logs!TypeOK'
    BY <1>9 DEF Logs!Write, Logs!Copied
  <2>2. ASSUME NEW p \in LogRequests PROVE LateAt(p)'
    BY <1>9 DEF LateAt, Logs!Write, Logs!Copied
  <2> QED
    BY <2>1, <2>2
<1>10. CASE Logs!Report(q)
  <2>1. Logs!TypeOK'
    BY <1>10 DEF Logs!Report, Logs!Copied
  <2>2. ASSUME NEW p \in LogRequests PROVE LateAt(p)'
    BY <1>10 DEF LateAt, Logs!Report, Logs!Copied
  <2> QED
    BY <2>1, <2>2
<1>11. CASE Logs!ClientLeaves(q)
  <2>1. Logs!TypeOK'
    BY <1>11 DEF Logs!ClientLeaves
  <2>2. ASSUME NEW p \in LogRequests PROVE LateAt(p)'
    BY <1>11 DEF LateAt, Logs!ClientLeaves
  <2> QED
    BY <2>1, <2>2
<1>12. CASE Logs!Expire(q)
  <2>1. Logs!TypeOK'
    BY <1>12 DEF Logs!Expire
  <2>2. ASSUME NEW p \in LogRequests PROVE LateAt(p)'
    BY <1>12 DEF LateAt, Logs!Expire
  <2> QED
    BY <2>1, <2>2
<1> QED
  BY <1>1, <1>2, <1>3, <1>4, <1>5, <1>6, <1>7, <1>8, <1>9, <1>10, <1>11, <1>12 DEF Logs!Handler, Logs!Copier

LEMMA LogUnchanged == LogInv /\ UNCHANGED logVars => LogInv'
  BY DEF logVars, LogInv, Logs!TypeOK, LateAt

-----------------------------------------------------------------------------
(* Names                                                                   *)

LEMMA AppendTwo ==
  ASSUME NEW S, NEW a \in S, NEW b \in S
  PROVE  Append(<<a>>, b) = <<a, b>>
<1> DEFINE s == Append(<<a>>, b)
<1>1. s \in Seq(S) /\ Len(s) = 2 /\ s[1] = a /\ s[2] = b
  BY AppendProperties
<1> HIDE DEF s
<1>2. s = <<s[1], s[2]>>
  BY <1>1
<1> QED
  BY <1>1, <1>2 DEF s

(* A pair of a name without dots and a namespace has one label.            *)
LEMMA LabelOfFunction ==
  ASSUME NEW f \in Functions
  PROVE  /\ List!MixedIn(f) = <<f[1][1], f[2]>>
         /\ f = <<f[1], f[2]>> /\ f[1] = <<f[1][1]>>
         /\ f[1][1] \in STRING \ {List!Empty, "%"} /\ f[2] \in STRING \ {List!Empty}
<1>1. f \in Seq(STRING) \X STRING /\ f[2] # List!Empty /\ Len(f[1]) = 1
  BY GatewayAssumption DEF List!ListAssumption
<1>2. f[1] # List!NoName /\ f[1] # List!Escaped(f[1])
  BY GatewayAssumption DEF List!ListAssumption
<1> DEFINE name == f[1]
           part == name[1]
<1>3. name \in Seq(STRING) /\ Len(name) = 1
  BY <1>1
<1>4. f = <<name, f[2]>>
  <2>1. f \in Seq(STRING) \X STRING
    BY <1>1
  <2>2. f = <<f[1], f[2]>>
    BY <2>1
  <2> QED
    BY <2>2 DEF name
<1> HIDE DEF name
<1>5. name = <<part>> /\ part \in STRING
  BY <1>3
<1>6. part # List!Empty /\ part # "%"
  <2>1. part # List!Empty
    BY <1>2, <1>5 DEF List!NoName, name
  <2>2. name # [name EXCEPT ![1] = "%"]
    BY <1>2 DEF List!Escaped, name
  <2>3. part = "%" => name = [name EXCEPT ![1] = "%"]
    BY <1>3
  <2> QED
    BY <2>1, <2>2, <2>3
<1>7. Append(name, f[2]) = <<part, f[2]>>
  <2>1. f[2] \in STRING
    BY <1>1
  <2>2. Append(<<part>>, f[2]) = <<part, f[2]>>
    BY <1>5, <2>1, AppendTwo
  <2> QED
    BY <1>5, <2>2
<1> QED
  BY <1>1, <1>4, <1>5, <1>6, <1>7 DEF List!MixedIn, name

LEMMA LabelsDiffer ==
  ASSUME NEW f \in Functions, NEW g \in Functions, List!MixedIn(f) = List!MixedIn(g)
  PROVE  f = g
<1>1. <<f[1][1], f[2]>> = <<g[1][1], g[2]>>
  BY LabelOfFunction
<1>3. f[1][1] = g[1][1] /\ f[2] = g[2]
  BY <1>1
<1>4. f = <<<<f[1][1]>>, f[2]>> /\ g = <<<<g[1][1]>>, g[2]>>
  BY LabelOfFunction
<1> QED
  BY <1>3, <1>4

(* The name in a request is that of a function, with or without its        *)
(* namespace.                                                              *)
LEMMA NameInRequest ==
  ASSUME NEW url \in Urls
  PROVE  /\ url.form \in {"plain", "escaped", "absolute"} /\ List!Found(url.name) \in Functions
         /\ url.name \in Seq(STRING)
         /\ \/ /\ Len(url.name) = 1 /\ url.name = <<url.name[1]>>
               /\ List!Found(url.name) = <<url.name, DefaultNamespace>>
            \/ /\ Len(url.name) = 2 /\ url.name = <<url.name[1], url.name[2]>>
               /\ List!Found(url.name) = <<<<url.name[1]>>, url.name[2]>>
<1>1. url \in [form : List!Forms, name : Seq(STRING)]
  BY GatewayAssumption DEF List!ListAssumption
<1>2. Len(url.name) \in 1 .. 2 /\ List!Found(url.name) \in Functions
  BY GatewayAssumption DEF List!ListAssumption
<1> DEFINE name == url.name
<1>3. name \in Seq(STRING) /\ Len(name) \in 1 .. 2 /\ url.form \in {"plain", "escaped", "absolute"}
  BY <1>1, <1>2 DEF List!Forms
<1> HIDE DEF name
<1>4. CASE Len(name) = 1
  <2>1. name = <<name[1]>>
    BY <1>3, <1>4
  <2> QED
    BY <1>2, <1>3, <1>4, <2>1 DEF List!Found, name
<1>5. CASE Len(name) = 2
  <2>1. name = <<name[1], name[2]>>
    BY <1>3, <1>5
  <2> QED
    BY <1>2, <1>3, <1>5, <2>1 DEF List!Found, name
<1> QED
  BY <1>3, <1>4, <1>5

(* The labels under which an invocation is counted, by what stands in the  *)
(* request.                                                                *)
Known(ns) == ns \in {List!Empty, DefaultNamespace}

LEMMA DefaultGiven == DefaultNamespace \in STRING \ {List!Empty}
  BY GatewayAssumption DEF List!ListAssumption

LEMMA FrontOfTwo ==
  ASSUME NEW s \in Seq(STRING), Len(s) = 2
  PROVE  SubSeq(s, 1, 1) = <<s[1]>>
<1> DEFINE front == SubSeq(s, 1, 1)
<1>1. front \in Seq(STRING) /\ Len(front) = 1 /\ front[1] = s[1]
  BY SubSeqProperties
<1> HIDE DEF front
<1>2. front = <<front[1]>>
  BY <1>1
<1> QED
  BY <1>1, <1>2 DEF front

(* What the gateway can read is counted under the label of the function    *)
(* that the provider runs.                                                 *)
LEMMA ReadableLabel ==
  ASSUME NEW ns \in {List!Empty, DefaultNamespace}, NEW url \in Urls,
         url.form = "plain", ns # List!Empty \/ Len(url.name) > 1
  PROVE  /\ List!Counted(ns, url) = List!MixedIn(List!Found(url.name))
         /\ List!Scaled(ns, url) = List!Found(url.name)
<1> DEFINE name == url.name
<1>0. ns # List!Empty \/ Len(name) > 1
  OBVIOUS
<1>1. List!GetServiceName(url) = name
  BY DEF List!GetServiceName
<1>2. /\ name \in Seq(STRING) /\ List!Found(name) \in Functions
      /\ \/ Len(name) = 1 /\ List!Found(name) = <<name, DefaultNamespace>>
         \/ /\ Len(name) = 2 /\ name = <<name[1], name[2]>>
            /\ List!Found(name) = <<<<name[1]>>, name[2]>>
  BY NameInRequest
<1> HIDE DEF name
<1> SUFFICES /\ List!Counted(ns, url) = List!MixedIn(List!Found(name))
             /\ List!Scaled(ns, url) = List!Found(name)
  BY DEF name
<1>3. CASE Len(name) = 1 /\ List!Found(name) = <<name, DefaultNamespace>>
  <2>1. ns = DefaultNamespace /\ ns # List!Empty
    BY <1>0, <1>3, DefaultGiven
  <2>2. List!Counted(ns, url) = Append(name, ns)
    BY <1>1, <1>3, <2>1 DEF List!Counted
  <2>3. List!Scaled(ns, url) = <<name, ns>>
    BY <1>1, <1>3 DEF List!Scaled, List!GetNamespace
  <2> QED
    BY <1>3, <2>1, <2>2, <2>3 DEF List!MixedIn
<1>4. CASE /\ Len(name) = 2 /\ name = <<name[1], name[2]>>
           /\ List!Found(name) = <<<<name[1]>>, name[2]>>
  <2>1. name[1] \in STRING /\ name[2] \in STRING
    BY <1>2, <1>4
  <2>2. List!Counted(ns, url) = name
    BY <1>1, <1>4 DEF List!Counted
  <2>3. List!Scaled(ns, url) = <<SubSeq(name, 1, 1), name[2]>>
    BY <1>1, <1>4 DEF List!Scaled, List!GetNamespace
  <2>4. SubSeq(name, 1, 1) = <<name[1]>>
    BY <1>2, <1>4, FrontOfTwo
  <2>5. Append(<<name[1]>>, name[2]) = <<name[1], name[2]>>
    BY <2>1, AppendTwo
  <2> QED
    BY <1>4, <2>2, <2>3, <2>4, <2>5 DEF List!MixedIn
<1> QED
  BY <1>2, <1>3, <1>4

(* What it cannot read is counted under the label of no function.          *)
LEMMA UnreadableLabel ==
  ASSUME NEW ns \in {List!Empty, DefaultNamespace}, NEW url \in Urls,
         ~(url.form = "plain" /\ (ns # List!Empty \/ Len(url.name) > 1)),
         NEW f \in Functions
  PROVE  List!Counted(ns, url) # List!MixedIn(f)
<1> DEFINE name == url.name
           read == List!GetServiceName(url)
           label == List!Counted(ns, url)
<1>1. (name = <<name[1]>> /\ Len(name) = 1) \/ (name = <<name[1], name[2]>> /\ Len(name) = 2)
  BY NameInRequest
<1>2. \/ read = name /\ ns = List!Empty /\ Len(name) = 1
      \/ read = List!Escaped(name)
      \/ read = List!NoName
  <2>1. CASE url.form = "plain"
    <3>1. read = name
      BY <2>1 DEF List!GetServiceName
    <3>2. ns = List!Empty /\ ~(Len(name) > 1)
      BY <2>1
    <3> QED
      BY <1>1, <3>1, <3>2
  <2>2. CASE url.form = "escaped"
    BY <2>2 DEF List!GetServiceName
  <2>3. CASE url.form = "absolute"
    BY <2>3 DEF List!GetServiceName
  <2> QED
    BY <2>1, <2>2, <2>3, NameInRequest
<1>3. label = IF ns # List!Empty /\ Len(read) <= 1 THEN Append(read, ns) ELSE read
  BY DEF List!Counted
<1> HIDE DEF name, read
<1>4. label = read \/ (label = Append(read, ns) /\ Len(read) <= 1 /\ ns # List!Empty)
  <2>1. ASSUME Len(read) \notin Int PROVE FALSE
    BY <1>1, <1>2, <2>1 DEF List!Escaped, List!NoName
  <2> QED
    BY <1>3
<1>5. \/ \E x : label = <<x>>
      \/ \E x, y : label = <<x, y>> /\ x \in {List!Empty, "%"}
  <2>1. CASE \E x : read = <<x>> /\ (ns = List!Empty \/ x \in {List!Empty, "%"})
    <3>1. PICK x : read = <<x>> /\ (ns = List!Empty \/ x \in {List!Empty, "%"})
      BY <2>1
    <3>2. Append(<<x>>, ns) = <<x, ns>>
      <4> DEFINE S == {x, ns}
      <4>1. x \in S /\ ns \in S
        OBVIOUS
      <4> HIDE DEF S
      <4> QED
        BY <4>1, AppendTwo
    <3> QED
      BY <1>4, <3>1, <3>2
  <2>2. CASE \E y : read = <<"%", y>>
    <3>1. PICK y : read = <<"%", y>>
      BY <2>2
    <3>2. Len(read) = 2
      BY <3>1
    <3>3. label = read
      BY <1>4, <3>2
    <3> QED
      BY <3>1, <3>3
  <2>3. CASE read = List!Escaped(name)
    <3>1. CASE name = <<name[1]>>
      <4>1. read = <<"%">>
        BY <2>3, <3>1 DEF List!Escaped
      <4> QED
        BY <4>1, <2>1
    <3>2. CASE name = <<name[1], name[2]>>
      <4>1. read = <<"%", name[2]>>
        BY <2>3, <3>2 DEF List!Escaped
      <4> QED
        BY <4>1, <2>2
    <3> QED
      BY <1>1, <3>1, <3>2
  <2>4. CASE read = name /\ ns = List!Empty /\ Len(name) = 1
    BY <1>1, <2>1, <2>4
  <2>5. CASE read = List!NoName
    BY <2>1, <2>5 DEF List!NoName
  <2> QED
    BY <1>2, <2>3, <2>4, <2>5
<1> HIDE DEF label
<1>6. label # List!MixedIn(f)
  <2>1. List!MixedIn(f) = <<f[1][1], f[2]>> /\ f[1][1] \notin {List!Empty, "%"}
    BY LabelOfFunction
  <2> QED
    BY <1>5, <2>1
<1> QED
  BY <1>6 DEF label

LEMMA CountedLabel ==
  ASSUME NEW ns \in {List!Empty, DefaultNamespace}, NEW url \in Urls
  PROVE  List!Counted(ns, url) \in List!Labels
  BY DEF List!Labels, Known

LEMMA NamesAlwaysAgree == Known(namespace) => List!NamesAgree
<1> SUFFICES ASSUME Known(namespace), NEW url \in Urls, List!Readable(url)
             PROVE  /\ List!Scaled(namespace, url) = List!Found(url.name)
                    /\ List!Counted(namespace, url) = List!MixedIn(List!Found(url.name))
                    /\ List!Counted(namespace, url) = List!GaugeLabel(List!Found(url.name))
  BY DEF List!NamesAgree
<1>1. List!Found(url.name)[2] # List!Empty
  BY NameInRequest, LabelOfFunction
<1>2. List!GaugeLabel(List!Found(url.name)) = List!MixedIn(List!Found(url.name))
  BY <1>1 DEF List!GaugeLabel, List!MixedIn
<1>3. /\ List!Counted(namespace, url) = List!MixedIn(List!Found(url.name))
      /\ List!Scaled(namespace, url) = List!Found(url.name)
  BY ReadableLabel DEF List!Readable, Known
<1> QED
  BY <1>2, <1>3

-----------------------------------------------------------------------------
(* The list of functions                                                   *)

LEMMA ListInit == List!Init => ListInv
<1> SUFFICES ASSUME List!Init PROVE ListInv
  OBVIOUS
<1>1. MaxInvocations \in Nat
  BY GatewayAssumption DEF List!ListAssumption
<1>2. List!TypeOK
  BY <1>1 DEF List!Init, List!TypeOK, List!Nothing
<1>3. Tallied
  BY DEF List!Init, Tallied, Tally
<1>4. Listable /\ ListExact
  BY DEF List!Init, Listable, ListExact, List!ListExact, List!Answers
<1> QED
  BY <1>2, <1>3, <1>4 DEF ListInv

(* An invocation is counted for a function exactly if it is counted under  *)
(* the function's label.                                                   *)
LEMMA InvokeTallies ==
  ASSUME ListInv, NEW url \in Urls, List!Invoke(url)
  PROVE  \A f \in Functions : runs'[f] = Tally(counter', f)
<1> DEFINE label == List!Counted(namespace, url)
           named == List!Found(url.name)
<1>1. /\ counter' = [counter EXCEPT ![label] = @ + 1]
      /\ runs' = [runs EXCEPT ![named] = IF List!Readable(url) THEN @ + 1 ELSE @]
  BY DEF List!Invoke
<1>2. /\ namespace \in {List!Empty, DefaultNamespace}
      /\ counter \in [List!Labels -> 0 .. MaxInvocations] /\ runs \in [Functions -> Nat]
      /\ \A f \in Functions : runs[f] = Tally(counter, f)
  BY DEF ListInv, List!TypeOK, Tallied
<1>3. label \in List!Labels /\ named \in Functions
  BY <1>2, CountedLabel, NameInRequest
<1>4. CASE List!Readable(url)
  <2>1. label = List!MixedIn(named)
    BY <1>2, <1>4, ReadableLabel DEF List!Readable
  <2>2. \A f \in Functions : List!MixedIn(f) = label => f = named
    BY <1>3, <2>1, LabelsDiffer
  <2> HIDE DEF label, named
  <2>3. /\ runs'[named] = runs[named] + 1 /\ counter'[label] = counter[label] + 1
        /\ \A f \in Functions \ {named} : runs'[f] = runs[f]
        /\ \A l \in List!Labels \ {label} : counter'[l] = counter[l]
    BY <1>1, <1>2, <1>3, <1>4
  <2> QED
    BY <1>2, <1>3, <2>1, <2>2, <2>3 DEF Tally
<1>5. CASE ~List!Readable(url)
  <2>1. \A f \in Functions : List!MixedIn(f) # label
    BY <1>2, <1>5, UnreadableLabel DEF List!Readable
  <2> HIDE DEF label, named
  <2>2. /\ runs' = runs
        /\ \A l \in List!Labels \ {label} : counter'[l] = counter[l]
    BY <1>1, <1>2, <1>3, <1>5
  <2> QED
    BY <1>2, <2>1, <2>2 DEF Tally
<1> QED
  BY <1>4, <1>5

LEMMA InvokeKeepsList ==
  ASSUME ListInv, NEW url \in Urls, List!Invoke(url)
  PROVE  ListInv'
<1>1. /\ counter' = [counter EXCEPT ![List!Counted(namespace, url)] = @ + 1]
      /\ counter[List!Counted(namespace, url)] < MaxInvocations
      /\ runs' = [runs EXCEPT ![List!Found(url.name)] = IF List!Readable(url) THEN @ + 1 ELSE @]
      /\ UNCHANGED <<namespace, scraped, runsScraped, step, functions, counts, truth>>
  BY DEF List!Invoke, List!listingVars
<1>2. MaxInvocations \in Nat
  BY GatewayAssumption DEF List!ListAssumption
<1>3. List!TypeOK'
  <2>1. counter' \in [List!Labels -> 0 .. MaxInvocations] /\ runs' \in [Functions -> Nat]
    <3> DEFINE label == List!Counted(namespace, url)
               named == List!Found(url.name)
    <3>1. counter \in [List!Labels -> 0 .. MaxInvocations] /\ runs \in [Functions -> Nat]
      BY DEF ListInv, List!TypeOK
    <3>2. counter' = [counter EXCEPT ![label] = @ + 1] /\ counter[label] < MaxInvocations
      BY <1>1
    <3>3. runs' = [runs EXCEPT ![named] = IF List!Readable(url) THEN @ + 1 ELSE @]
      BY <1>1
    <3>i. label \in List!Labels /\ named \in Functions
      BY CountedLabel, NameInRequest DEF ListInv, List!TypeOK
    <3> HIDE DEF label, named
    <3>4. counter' \in [List!Labels -> 0 .. MaxInvocations]
      <4>1. counter[label] + 1 \in 0 .. MaxInvocations
        BY <1>2, <3>1, <3>2, <3>i
      <4> QED
        BY <3>1, <3>2, <4>1
    <3>5. runs' \in [Functions -> Nat]
      <4>1. runs[named] \in Nat /\ runs[named] + 1 \in Nat
        BY <3>1, <3>i
      <4> QED
        BY <3>1, <3>3, <4>1
    <3> QED
      BY <3>4, <3>5
  <2> QED
    BY <1>1, <2>1 DEF ListInv, List!TypeOK
<1>4. Tallied'
  <2>1. \A f \in Functions : runsScraped'[f] = Tally(scraped', f)
    BY <1>1 DEF ListInv, Tallied, Tally
  <2>2. \A f \in Functions : runs'[f] = Tally(counter', f)
    BY InvokeTallies
  <2> QED
    BY <2>1, <2>2 DEF Tallied, Tally
<1>5. Listable' /\ ListExact'
  BY <1>1 DEF ListInv, Listable, ListExact, List!ListExact
<1> QED
  BY <1>3, <1>4, <1>5 DEF ListInv

(* The labels that Fetch asks for have those of all functions listed, as   *)
(* these are of one namespace.                                             *)
LEMMA MixInExact ==
  ASSUME ListInv, NEW f \in functions, NEW g \in functions
  PROVE  List!MixIn(f, List!Matching(g[2])) = runsScraped[f]
<1>1. f \in Functions /\ f[2] = g[2] /\ runsScraped[f] = Tally(scraped, f)
  BY DEF ListInv, List!TypeOK, Listable, Tallied
<1>2. List!MixedIn(f) = <<f[1][1], f[2]>>
  BY <1>1, LabelOfFunction
<1> DEFINE label == List!MixedIn(f)
<1>3. Len(label) > 1 /\ label[Len(label)] = g[2]
  BY <1>1, <1>2
<1>4. scraped \in [List!Labels -> Nat]
  BY DEF ListInv, List!TypeOK
<1> HIDE DEF label
<1>5. label \in List!Matching(g[2]) <=> label \in List!Labels /\ scraped[label] > 0
  BY <1>3 DEF List!Matching
<1>6. Tally(scraped, f) = IF label \in List!Labels THEN scraped[label] ELSE 0
  BY DEF Tally, label
<1>7. List!MixIn(f, List!Matching(g[2])) = IF label \in List!Matching(g[2]) THEN scraped[label] ELSE 0
  BY DEF List!MixIn, label
<1>8. label \in List!Labels => scraped[label] \in Nat
  BY <1>4
<1> QED
  BY <1>1, <1>5, <1>6, <1>7, <1>8

LEMMA ListWithCountsKeepsList ==
  ASSUME ListInv, List!ListWithCounts
  PROVE  ListInv'
<1> DEFINE first == CHOOSE f \in functions : TRUE
<1>1. /\ functions # {}
      /\ counts' = [f \in functions |-> List!MixIn(f, List!Matching(first[2]))]
      /\ truth' = runsScraped /\ step' = "200"
      /\ UNCHANGED <<namespace, counter, scraped, runs, runsScraped, functions>>
  BY DEF List!ListWithCounts, List!invocationVars
<1>2. first \in functions
  BY <1>1
<1> HIDE DEF first
<1>3. \A f \in functions : counts'[f] = runsScraped[f]
  BY <1>1, <1>2, MixInExact
<1>4. List!TypeOK'
  BY <1>1 DEF ListInv, List!TypeOK, List!Answers
<1>5. Tallied'
  BY <1>1 DEF ListInv, Tallied, Tally
<1>6. Listable'
  BY <1>1 DEF ListInv, Listable
<1>7. ListExact'
  BY <1>1, <1>3 DEF ListExact, List!ListExact
<1> QED
  BY <1>4, <1>5, <1>6, <1>7 DEF ListInv

(* The other steps of a listing leave what was counted alone.              *)
LEMMA TallyKept == Tallied /\ UNCHANGED List!invocationVars => Tallied'
  BY DEF Tallied, Tally, List!invocationVars

LEMMA ListKeepsList ==
  ASSUME ListInv, List!Next
  PROVE  ListInv'
<1>1. ASSUME NEW url \in Urls, List!Invoke(url) PROVE ListInv'
  BY <1>1, InvokeKeepsList
<1>2. CASE List!Scrape
  <2>1. /\ scraped' = counter /\ runsScraped' = runs
        /\ UNCHANGED <<namespace, counter, runs, step, functions, counts, truth>>
    BY <1>2 DEF List!Scrape, List!listingVars
  <2>2. Tallied'
    BY <2>1 DEF ListInv, Tallied, Tally
  <2> QED
    BY <2>1, <2>2 DEF ListInv, List!TypeOK, Listable, ListExact, List!ListExact
<1>3. CASE List!List
  <2>1. /\ step = "idle" /\ UNCHANGED <<namespace, counter, scraped, runs, runsScraped, counts, truth>>
        /\ \/ /\ \E n \in {f[2] : f \in Functions} : functions' \in SUBSET {f \in Functions : f[2] = n}
              /\ step' = "listed"
           \/ step' = "refused" /\ UNCHANGED functions
    BY <1>3 DEF List!List, List!invocationVars
  <2>2. functions' \subseteq Functions /\ step' \in {"listed", "refused"}
    BY <2>1 DEF ListInv, List!TypeOK
  <2>3. \A f, g \in functions' : f[2] = g[2]
    BY <2>1 DEF ListInv, Listable
  <2>4. counts = List!Nothing /\ counts' = counts
    BY <2>1 DEF ListInv, Listable
  <2>5. List!TypeOK'
    BY <2>1, <2>2, <2>4 DEF ListInv, List!TypeOK, List!Answers, List!Nothing
  <2>6. Tallied'
    BY <2>1, TallyKept DEF ListInv, List!invocationVars
  <2> QED
    BY <2>2, <2>3, <2>4, <2>5, <2>6 DEF ListInv, Listable, ListExact, List!ListExact
<1>4. CASE List!ListNothing
  <2>1. /\ step = "listed" /\ functions = {} /\ step' = "200"
        /\ UNCHANGED <<namespace, counter, scraped, runs, runsScraped, functions, counts, truth>>
    BY <1>4 DEF List!ListNothing, List!invocationVars
  <2>2. Tallied'
    BY <2>1, TallyKept DEF ListInv, List!invocationVars
  <2>3. DOMAIN counts = {}
    BY <2>1 DEF ListInv, Listable, List!Nothing
  <2> QED
    BY <2>1, <2>2, <2>3 DEF ListInv, List!TypeOK, Listable, ListExact, List!ListExact, List!Answers
<1>5. CASE List!ListWithCounts
  BY <1>5, ListWithCountsKeepsList
<1>6. CASE List!ListUnmixed
  <2>1. /\ step' = "aborted"
        /\ UNCHANGED <<namespace, counter, scraped, runs, runsScraped, functions, counts, truth>>
    BY <1>6 DEF List!ListUnmixed, List!invocationVars
  <2>2. Tallied'
    BY <2>1, TallyKept DEF ListInv, List!invocationVars
  <2> QED
    BY <2>1, <2>2 DEF ListInv, List!TypeOK, Listable, ListExact, List!ListExact, List!Answers
<1>7. CASE List!Done
  <2>1. /\ step' = "idle" /\ functions' = {} /\ counts' = List!Nothing
        /\ UNCHANGED <<namespace, counter, scraped, runs, runsScraped>>
    BY <1>7 DEF List!Done, List!invocationVars
  <2>2. Tallied'
    BY <2>1, TallyKept DEF ListInv, List!invocationVars
  <2>3. DOMAIN List!Nothing = {}
    BY DEF List!Nothing
  <2> QED
    BY <2>1, <2>2, <2>3 DEF ListInv, List!TypeOK, Listable, ListExact, List!ListExact
<1> QED
  BY <1>1, <1>2, <1>3, <1>4, <1>5, <1>6, <1>7 DEF List!Next, List!Listing

LEMMA ListUnchanged == ListInv /\ UNCHANGED listVars => ListInv'
<1> SUFFICES ASSUME ListInv, UNCHANGED listVars PROVE ListInv'
  OBVIOUS
<1>1. UNCHANGED <<namespace, counter, scraped, runs, runsScraped, step, functions, counts, truth>>
  BY DEF listVars
<1>2. Tallied'
  BY <1>1, TallyKept DEF ListInv, List!invocationVars
<1> QED
  BY <1>1, <1>2 DEF ListInv, List!TypeOK, Listable, ListExact, List!ListExact

-----------------------------------------------------------------------------
(* Start-up                                                                *)

(* A configuration that was read has a time-out and a namespace, and with  *)
(* a provider it has a provider of logs.                                   *)
LEMMA ReadConfiguration ==
  ASSUME NEW env \in Environments
  PROVE  /\ Read(env).WriteTimeout \in Int
         /\ Read(env).Namespace \in {List!Empty, DefaultNamespace}
         /\ UseExternalProvider(Read(env)) => Read(env).LogsProviderURL
<1>1. env.write_timeout \in Values /\ env.function_namespace \in {List!Empty, DefaultNamespace}
  BY GatewayAssumption
<1>2. ParseIntOrDuration(env.write_timeout) \in Int
  BY <1>1 DEF ParseIntOrDuration, DefaultTimeout, Values
<1>3. /\ Read(env).WriteTimeout = ParseIntOrDuration(env.write_timeout)
      /\ Read(env).Namespace = env.function_namespace
      /\ Read(env).LogsProviderURL = LogsUrlSet(env)
      /\ Read(env).FunctionsProviderURL = IsSet(env.functions_provider_url)
  BY DEF Read
<1> QED
  BY <1>1, <1>2, <1>3 DEF UseExternalProvider, LogsUrlSet

LEMMA StartUpKeeps ==
  ASSUME StartInv, Known(namespace), StartUp
  PROVE  StartInv' /\ Known(namespace)'
<1>1. CASE ReadConfig
  BY <1>1 DEF ReadConfig, Exit, StartInv, Known
<1>2. CASE Wire
  <2>1. PICK env \in Environments : config = Read(env) /\ UseExternalProvider(config)
    BY <1>2 DEF Wire, StartInv
  <2>2. config.FunctionsProviderURL /\ config.LogsProviderURL
    BY <2>1, ReadConfiguration DEF UseExternalProvider
  <2>3. /\ main' = "connect" /\ timeout' = config.WriteTimeout
        /\ namespace' = config.Namespace /\ config' = config
    BY <1>2, <2>2 DEF Wire
  <2>4. timeout' \in Int /\ Known(namespace)'
    BY <2>1, <2>3, ReadConfiguration DEF Known
  <2> QED
    BY <2>1, <2>3, <2>4 DEF StartInv
<1>3. CASE NoCredentials
  BY <1>3 DEF NoCredentials, Exit, StartInv, Known
<1>4. CASE ConnectQueue
  BY <1>4 DEF ConnectQueue, UseNATS, Exit, StartInv, Known
<1>5. CASE NoQueue
  BY <1>5 DEF NoQueue, StartInv, Known
<1>6. CASE Listen
  BY <1>6 DEF Listen, Exit, StartInv, Known
<1> QED
  BY <1>1, <1>2, <1>3, <1>4, <1>5, <1>6 DEF StartUp

(* Nothing of the list is in use before the server listens, and nothing    *)
(* but the names in requests depends on the namespace.                     *)
LEMMA StartUpKeepsList ==
  ASSUME ListInv, StartInv, StartUp
  PROVE  ListInv'
<1>1. Known(namespace)'
  BY StartUpKeeps DEF ListInv, List!TypeOK, Known
<1>2. UNCHANGED <<counter, scraped, runs, runsScraped, step, functions, counts, truth>>
  BY DEF StartUp
<1>3. Tallied'
  BY <1>2 DEF ListInv, Tallied, Tally
<1> QED
  BY <1>1, <1>2, <1>3 DEF ListInv, List!TypeOK, Listable, ListExact, List!ListExact, Known

-----------------------------------------------------------------------------
(* The gateway                                                             *)

LEMMA InvInit == Init => Inv
<1> SUFFICES ASSUME Init PROVE Inv
  OBVIOUS
<1>1. ListInv /\ LogInv
  BY ListInit, LogInit DEF Init
<1>2. StartInv
  BY DEF Init, StartInv
<1> QED
  BY <1>1, <1>2 DEF Inv

LEMMA InvNext == Inv /\ [Next]_vars => Inv'
<1> SUFFICES ASSUME StartInv, ListInv, LogInv, [Next]_vars
             PROVE  StartInv' /\ ListInv' /\ LogInv'
  BY DEF Inv
<1>1. CASE StartUp
  <2>1. StartInv' /\ ListInv'
    BY <1>1, StartUpKeeps, StartUpKeepsList DEF ListInv, List!TypeOK, Known
  <2>2. LogInv'
    BY <1>1, LogUnchanged DEF StartUp
  <2> QED
    BY <2>1, <2>2
<1>s. UNCHANGED mainVars => StartInv'
  BY DEF StartInv, mainVars
<1>2. CASE Listed
  BY <1>2, <1>s, ListKeepsList, LogUnchanged DEF Listed
<1>3. CASE Logged
  <2>1. LogInv'
    BY <1>3, ArriveKeepsLog, RelayedKeepsLog DEF Logged
  <2> QED
    BY <1>3, <1>s, <2>1, ListUnchanged DEF Logged
<1>4. CASE UNCHANGED vars
  BY <1>4, <1>s, ListUnchanged, LogUnchanged DEF vars
<1> QED
  BY <1>1, <1>2, <1>3, <1>4 DEF Next

LEMMA Invariance == Spec => []Inv
  BY InvInit, InvNext, PTL DEF Spec

-----------------------------------------------------------------------------
(* What it shows                                                           *)

(* Every part of the gateway stays within its states and bounds.           *)
THEOREM TypeCorrect == Spec => []TypeOK
<1>1. Inv => TypeOK
  BY DEF Inv, StartInv, ListInv, LogInv, TypeOK
<1> QED
  BY <1>1, Invariance, PTL

(* main reads no pointer that the configuration left nil, whatever is set  *)
(* in the environment and whatever is not.                                 *)
THEOREM MainStartsOrSays == Spec => []StartsOrSays
<1>1. Inv => StartsOrSays
  BY DEF Inv, StartInv, StartsOrSays
<1> QED
  BY <1>1, Invariance, PTL

(* The four ways in which the gateway derives the name of a function agree *)
(* on every request whose name it can read.                                *)
THEOREM NamesOfOneFunction == Spec => []NamesAgree
<1>1. Inv => NamesAgree
  BY NamesAlwaysAgree DEF Inv, ListInv, List!TypeOK, NamesAgree, Known
<1> QED
  BY <1>1, Invariance, PTL

(* GET /system/functions reports for each function the invocations that    *)
(* Prometheus had heard of, and no other function's.                       *)
THEOREM CountsExact == Spec => []ListExact
<1>1. Inv => ListExact
  BY DEF Inv, ListInv
<1> QED
  BY <1>1, Invariance, PTL

(* At most one line of a log is written to a response whose handler has    *)
(* returned.                                                               *)
THEOREM OneLateLine == Spec => []FewLateLines
<1>1. Inv => FewLateLines
  BY DEF Inv, LogInv, LateAt, FewLateLines, Logs!FewLateLines
<1> QED
  BY <1>1, Invariance, PTL
=============================================================================
