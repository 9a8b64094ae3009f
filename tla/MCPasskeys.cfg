SPECIFICATION Spec
CONSTANTS
  Accounts = {u1, u2}
  Keys = {k1, k2}
  Counting = {k1}
  Slots = {s1, s2}
  MaxChallenges = 3
  MaxResponses = 3
SYMMETRY Symmetric
INVARIANTS TypeOK AcceptedOnce KeysAnswerTheirRegistration LoginByOwner AnswerToSessionIsValid
PROPERTY CounterFallsOvertaken
