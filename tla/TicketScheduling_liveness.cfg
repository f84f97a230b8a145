SPECIFICATION FairSpec
CONSTANTS
  Tickets = {t1, t2}
  Workers = {w1, w2}
  NoTicket = NoTicket
  NoWorker = NoWorker
  Rank <- MCRank
  Capacity = 1
  MAX_AUTO_RETRIES = 1
  MaxEvents = 1
PROPERTIES DependentsMove 
