SPECIFICATION Spec
CONSTANTS
  get = get
  post = post
  serve = serve
  r1 = r1
  r2 = r2
  NoOne = NoOne
  cli = cli
  command = command
  Handlers = {get, post}
  Processes = {serve}
  ProcessOf <- MCServeOnly
  Results = {r1}
  NumParts = 2
  Rereads <- MCRereads
  Kills = TRUE
INVARIANTS NeverRefused
