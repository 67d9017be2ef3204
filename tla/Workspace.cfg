SPECIFICATION Spec
CONSTANTS
  w1 = w1  w2 = w2  c1 = c1  c2 = c2  c3 = c3  e1 = e1  e2 = e2  v1 = v1  v2 = v2  x1 = x1  n1 = n1  admin = admin  root = root
  Null = Null  Unset = Unset  None = None  Gone = Gone
  Nobody = Nobody  Absent = Absent  Draft = Draft
  Home = home
  Owner = owner
  Slots = {w1, w2}
  MaxCalls = 3
  MaxRestarts = 1
  Keys = {"members", "campaigns", "prospects", "websites"}
  Amounts = {1, 2}
  DefaultCap <- TwoEach
  LimitInputs <- SomeLimits
  Emails = {owner, e1, e2}
  Invitations = {i1, i2, i3, i4}
  Sessions = {s1, s2, s3, s4}
  Organizations = {o1, o2, o3}
  FirstSessions <- TwoSignups
  MaxTries = 1
  Items = {c1, c2, c3, p1, p2, p3, p4}
  Kind <- KindOf
  Requests = {r1, r2, r3}
  MeetingIds = {m1, m2, m3, m4}
  Accounts = {a1, a2}
  FirstAccount = a1
  Off = Off
  Sites = {s1, s2, s3, s4}
  Domains = {d1, d2}
  Runs = {r1, r2}
  MaxPages = 1
  Nil = Nil
  Users = {u1}
  Policies = {k1, k2}
  PolicyInputs <- SomePolicies
  FirstPolicy <- Denial
  Apps = {oa1, oa2}
  GoogleEmails = {g1, g2}
  LinkIds = {l1, l2, l3, l4}
  PropertyIds = {t1, t2, t3, t4}
  Missing = Missing  NoLink = NoLink
  ListIds = {v1, v2, v3}
  ListKind <- KindOfList
  Contacts = {x1, x2}
  FirstMembers <- OneEach
  People = {n1, n2}
  Roles = {root, admin, own, spare}
  SystemRoles = {root, admin}
  SuperRole = root
  FirstRole <- OneMember
  Permissions = {"read", "write"}
  Seed <- Listing
  Topics <- Neighbours
  Calendars <- WorkingDays
  Audiences = {1, 4}
SYMMETRY SlotSymmetry
INVARIANT TypeOK
 
INVARIANT RepeatsNeedOverlap
INVARIANT AcceptedAreMembers
INVARIANT FoundersAreProved
INVARIANT ApprovedMeansDeleted
INVARIANT FewRequestsPend
INVARIANT PlanKept
INVARIANT ScheduledIsOnCalendar
INVARIANT KeptAsChosen
INVARIANT RunningMeansRunning
INVARIANT PagesAddUp
INVARIANT DomainsNeedOverlap
INVARIANT DenialsHold
INVARIANT CountsAddUp
INVARIANT AccessAsDecided
PROPERTY CapsBrokenOnlyByOverlap
PROPERTY LinksKept
