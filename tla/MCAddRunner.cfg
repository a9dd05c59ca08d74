SPECIFICATION FairSpec
CONSTANTS
  org = org
  repo = repo
  Scopes = {org, repo}
  Orgs = {org}
  Host <- MCHost
  Owner <- MCOwner
  NoToken = NoToken
  MaxRows = 2
  MaxSubmissions = 2
INVARIANTS
  LoadingIsOwn
PROPERTIES
  CredentialsMatch
  NoKnownTwin
  LoadingEnds
