SPECIFICATION FairSpec
CONSTANTS
  Clients = {a, b}
  None = None
  Containers = {1, 2}
  Hosts <- MCHosts
  Commands <- MCCommands
  MaxCmds = 2
INVARIANTS AnswersAreAskedFor QuietMeansAnswered AnswersInOrder AnswerNotToEarlierClient
PROPERTIES CommandsAreAnswered
