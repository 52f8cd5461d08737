SPECIFICATION FairSpec
CONSTANTS
  get = get
  post = post
  cli = cli
  serve = serve
  command = command
  r1 = r1
  r2 = r2
  NoOne = NoOne
  Handlers = {get, post, cli}
  Processes = {serve, command}
  ProcessOf <- MCProcessOf
  Results = {r1}
  NumParts = 2
  Rereads <- MCRereads
  Kills = TRUE
INVARIANTS OneWriter AllOrNothing ReportedStays
PROPERTIES SettledIsFinal InvocationAnswered
