SPECIFICATION PartsSpec
CONSTANTS
  org = org
  repo = repo
  Keys = {org, repo}
  Queries <- MCQueries
  NoList = NoList
  Typed <- MCTyped
  OwnerText <- MCOwnerText
  RepoText <- MCRepoText
  Requests = {q1, q2}
  DefaultMaxWorkers = 2
  Numbers <- MCNumbers
  NoRequest = NoRequest
  Faults = {"write"}
  Tabs = {t1, t2}
  MaxMail = 2
SYMMETRY Symmetry
INVARIANTS
  TypeOK
  DistinctSelection
  NamesServable
  LimitsSurviveRestart
  MaxIsNeverZero
  DrawnIsTheme
  TabsAgree
PROPERTY
  SelectionPromise
