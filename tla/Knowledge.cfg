SPECIFICATION Spec
CONSTANTS
  Learners = {"run1", "run2"}
  Contents = {"c1", "c2", "c3", "c4"}
  Promotable = {"c1", "c2", "c3"}
  NameOf <- OneName
  MaxVersion = 3
  None = None
  Docs = {"d"}
  Texts = {"long", "short"}
  Length <- Lengths
  NoText = NoText
  Owner <- Owned
  Caller <- Local
  Extras <- Offered
  Windows = {300, 2000}
  TextRank <- TextRanks
  ContentRank <- Numbered
  MaxOperations = 3
  MaxTrouble = 2
INVARIANTS BlockedIsNotServed VersionNamesOneContentUnlessRaced OneContentUnlessForgotten
PROPERTIES ContextFits UnseenHasNoInfluence
CHECK_DEADLOCK FALSE
