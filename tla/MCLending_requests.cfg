\* One request at a time, whose parts run at once, on a borrower who changes.
SPECIFICATION FairSpec
CONSTANTS
  Clients = {c1}
  Types = {kyc}
  Scores = {500, 700}
  Required = {0, 600}
  ReportLength = 1
  MaxSnapshots = 1
PROPERTIES AnswersAreBacked EveryRequestAnswered
