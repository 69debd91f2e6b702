\* Seven validators, two of them Byzantine, five for a quorum; one failure anywhere.
SPECIFICATION LabSpec
CONSTANTS
  b0 = b0  b1 = b1  v2 = v2  v3 = v3  v4 = v4  v5 = v5  v6 = v6
  toBob = toBob  toCharlie = toCharlie  bad1 = bad1  bad2 = bad2
  bench1 = bench1  bench2 = bench2
  alice = alice  neg1 = neg1  neg2 = neg2  ben1 = ben1  ben2 = ben2
  bobs = bobs  charlies = charlies  out1 = out1  out2 = out2
  Validators = {b0, b1, v2, v3, v4, v5, v6}
  Byzantine = {b0, b1}
  Q = 5
  Cells = {alice, neg1, neg2, ben1, ben2, bobs, charlies, out1, out2}
  Genesis = {alice, neg1, neg2, ben1, ben2}
  Intents = {toBob, toCharlie, bad1, bad2, bench1, bench2}
  InputOf <- LabInputOf
  OutputsOf <- LabOutputsOf
  Authorized = {toBob, toCharlie, bench1, bench2}
  Rounds = {1, 2, 3, 40, 41, 100, 101}
  MaxCollection = 9
  MaxQcs = 1
  Members <- LabMembers
  HonestMembers <- LabHonest
  Bob = toBob
  Charlie = toCharlie
  Unowned <- LabUnowned
  Bench <- LabBench
  ForBob <- BobSide
  ForCharlie <- CharlieSide
  Restarted = v2
  Schedules <- LabSchedules
  MaxTrouble = 1
INVARIANTS
  CampaignPasses
  NothingLeftBehind
PROPERTIES
  CampaignEnds
  CampaignDrivesNodes
\* The controller has come to its end.
CHECK_DEADLOCK FALSE
