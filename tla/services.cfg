\* One part at a time takes the steps.
SPECIFICATION Spec
CONSTANTS
  None = None
  Callers = {1, 2}
  FailureThreshold = 2
  SuccessThreshold = 2
  Timeout = 2
  MaxAttempts = 2
  Events = {a, b, c}
  Poison = {a}
  BatchSize = 1
  MaxRequests = 4
  MaxExpiries = 3
  Pods = {p1, p2}
  Ttl = 1
  Flight = 1
  RedisThreshold = 1
  MaxWrites = 1
  Editors = {e1}
  MaxPages = 3
  Points = {cafe, shop}
  Cities = {town}
  MaxCities = 2
  MaxPasses = 2
  Services = {cdek, yandex}
  Spots = {mall, park}
  MaxAddresses = 5
  cup = cup
  pot = pot
  coffee = coffee
  tea = tea
  espresso = espresso
  filter = filter
  puer = puer
  mugs = mugs
  Products = {cup, pot}
  Pictured = {cup}
  Albums = {cup}
  Names = {coffee, tea, mugs, espresso, filter, puer}
  Roots = {coffee, tea, mugs}
  Subs <- TheSubs
  OnShelf <- TheShelves
  Everything = all
  Search = search
  Plain = {all, search}
  Drinks = {espresso}
  Found <- TheResults
  Presets = {2}
  MaxQty = 2
  MaxRestarts = 1
  Absent = Absent
INVARIANT GatewayTypeOK
INVARIANT ClosedBelowThreshold
INVARIANT NoEventLost
INVARIANT OneEffectPerKey
INVARIANT StalenessBounded
INVARIANT PagesTypeOK
INVARIANT AnswerGoesWhereAsked
INVARIANT PickupAsPressed
INVARIANT CityTypedAtOnce
INVARIANT OneDefaultPerService
INVARIANT CardMatchesMemory
INVARIANT GalleryWithinList
PROPERTY CircuitBreaks
PROPERTY GatewayRecovers
PROPERTY RequestsEnd
PROPERTY GoodEventsHandled
PROPERTY UntriedMoveUp
PROPERTY ArrowsMoveOnePlace
PROPERTY ButtonsAnswered
PROPERTY ChosenIsShown
CHECK_DEADLOCK FALSE
