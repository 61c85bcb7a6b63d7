SPECIFICATION FairSpec
CONSTANTS
  q1 = q1  s1 = s1  s2 = s2  f1 = f1  n1 = n1
  NoFunction = NoFunction
  Stray = Stray
  Requests = {q1}
  Functions = {f1}
  Codes = {404}
  Scrapes = {s1, s2}
  Namespaces <- OneNamespace
  NamespaceOf <- AllInOne
  FunctionNamespace = n1
  Deployments <- ComesAndGoes
INVARIANTS TypeOK ScrapeOrdered LoneScrapeExact ReportedAsSent
PROPERTIES Forwarded
