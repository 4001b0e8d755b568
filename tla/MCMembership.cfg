CONSTANTS
  Member = {m1, m2, m3}
  Founder = m1
  Archetype = {SA, AA}
  SA = SA
  Case = {k1}
  Client = {c1, c2}
  NoClient = NoClient
SPECIFICATION FairSpec
INVARIANT AdministratorRetained
PROPERTY ImplementsRoster EveryRequestAnswers
