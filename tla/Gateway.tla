------------------------------ MODULE Gateway ------------------------------
(***************************************************************************)
(* The gateway from its start (main.go) on: the configuration is read, the *)
(* handlers are built from it, and then functions are listed (with         *)
(* invocations that are counted meanwhile) and logs are relayed, each by   *)
(* the module for it.                                                      *)
(***************************************************************************)
EXTENDS Configuration

CONSTANTS
  Environments,      \* environments in which the gateway may be started
  Functions, DefaultNamespace, Urls, MaxInvocations,  \* of FunctionList
  LogRequests, MaxLines                                        \* of LogProxy

VARIABLES
  main,        \* where main is: "start", "wire", "connect", "listen", "serve",
                     \* "exited" or "crashed"
  config,      \* the configuration, while main needs it
  timeout,     \* of requests for logs
  namespace, counter, scraped, runs, runsScraped, step, functions, counts, truth,
  handler, copier, done, context, client, body, lines, late

mainVars == <<main, config, timeout>>
listVars == <<namespace, counter, scraped, runs, runsScraped, step, functions, counts, truth>>
logVars == <<handler, copier, done, context, client, body, lines, late>>
vars == <<mainVars, listVars, logVars>>

List == INSTANCE FunctionList
Logs == INSTANCE LogProxy

ASSUME GatewayAssumption ==
  /\ List!ListAssumption /\ Logs!LogAssumption
  /\ \A env \in Environments :
       env.write_timeout \in Values /\ env.function_namespace \in {List!Empty, DefaultNamespace}

NoConfig == [Namespace |-> List!Empty]

TypeOK ==
  /\ main \in {"start", "wire", "connect", "listen", "serve", "exited", "crashed"}
  /\ timeout \in Int
  /\ List!TypeOK /\ Logs!TypeOK

Init ==
  /\ main = "start" /\ config = NoConfig /\ timeout = 0
  /\ List!Init /\ namespace = List!Empty
  /\ Logs!Init

-----------------------------------------------------------------------------
(* Start-up.  It exits with a message if something is missing that it      *)
(* cannot do without; reading a nil pointer is a crash.                    *)

Exit == main' = "exited" /\ UNCHANGED <<timeout, namespace>>
Crash == main' = "crashed" /\ UNCHANGED <<timeout, namespace>>

ReadConfig ==
  /\ main = "start"
  /\ \E env \in Environments :
       IF ReadFails(env) \/ ~UseExternalProvider(Read(env))
         THEN Exit /\ UNCHANGED config
         ELSE /\ main' = "wire" /\ config' = Read(env)
              /\ UNCHANGED <<timeout, namespace>>

(* The credentials are read, which may fail, and the handlers built, from  *)
(* the URLs of the provider (main.go:72, 91, 107) and of the logs (144).   *)
Wire ==
  /\ main = "wire"
  /\ IF config.FunctionsProviderURL /\ config.LogsProviderURL
       THEN /\ main' = "connect"
            /\ timeout' = config.WriteTimeout /\ namespace' = config.Namespace
       ELSE Crash
  /\ UNCHANGED config
NoCredentials ==
  /\ main = "wire" /\ config.UseBasicAuth
  /\ Exit /\ UNCHANGED config

(* The queue, if it is configured; then the server listens.                *)
ConnectQueue ==
  /\ main = "connect" /\ UseNATS(config)
  /\ IF ~config.NATSAddress \/ ~config.NATSPort
       THEN Crash
       ELSE \/ Exit
            \/ main' = "listen" /\ UNCHANGED <<timeout, namespace>>
  /\ config' = NoConfig
NoQueue ==
  /\ main = "connect" /\ ~UseNATS(config)
  /\ main' = "listen" /\ config' = NoConfig
  /\ UNCHANGED <<timeout, namespace>>
Listen ==
  /\ main = "listen"
  /\ \/ Exit
     \/ main' = "serve" /\ UNCHANGED <<timeout, namespace>>
  /\ UNCHANGED config

StartUp ==
  /\ ReadConfig \/ Wire \/ NoCredentials \/ ConnectQueue \/ NoQueue \/ Listen
  /\ UNCHANGED <<counter, scraped, runs, runsScraped, step, functions, counts, truth, logVars>>

-----------------------------------------------------------------------------
(* Requests are served, each by its own goroutine.                         *)
Listed == main = "serve" /\ List!Next /\ UNCHANGED <<mainVars, logVars>>
Logged ==
  /\ main = "serve"
  /\ Logs!Relayed \/ \E q \in LogRequests : Logs!Arrive(q, timeout)
  /\ UNCHANGED <<mainVars, listVars>>

Next == StartUp \/ Listed \/ Logged

Spec == Init /\ [][Next]_vars
FairSpec == Spec /\ Logs!Fairness

-----------------------------------------------------------------------------
(* No configuration makes main read a pointer that the configuration left  *)
(* nil: it serves, or it says why it does not.                             *)
StartsOrSays == main # "crashed"

(* The properties of the parts, for a gateway started in any of the        *)
(* environments: FunctionList.tla and LogProxy.tla state them.             *)
NamesAgree == main = "serve" => List!NamesAgree
ListExact == List!ListExact
ListedAnyway == List!ListedAnyway
FewLateLines == Logs!FewLateLines
LogsAnswered == Logs!LogsAnswered
NoCopierLeft == Logs!NoCopierLeft
=============================================================================
