CONSTANTS
  c1 = c1
  c2 = c2
  Clients <- MCClients
  Extended <- MCExtended
  Switching <- MCSwitching
  Mortal <- MCMortal
  Styles = {"callbacks"}
  MaxIcid = 2
  MaxKeys <- MCKeys
  CharBytes = 1
  Hasty = FALSE
  Nobody = Nobody
SPECIFICATION Spec
INVARIANTS KeysInOrder PreeditFollows TablesAgree
PROPERTIES QueueDrains RequestsAnswered
