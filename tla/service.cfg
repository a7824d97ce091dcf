CONSTANTS
  j1 = j1
  r1 = r1
  r2 = r2
  own = own
  its = its
  new = new
  c1 = c1
  here = here
  Job = {j1}
  Request = {r1, r2}
  MaxRevision = 1
  Minted = {own}
  Issued = {its, new}
  Address = {c1, here}
  Controller = {c1}
  Localhost = here
  NoToken = NoToken
  NoUrl = NoUrl
  NoFile = NoFile
SYMMETRY MCSymmetry
CONSTRAINTS OnePurpose RunsOrFiles ScriptMeetsEdits PairedServesOnly
SPECIFICATION Spec
INVARIANTS SavedPairingVerified UpdateIsInstalled EditIsSaved
PROPERTIES UnconfirmedSparesRuns IdentityIsKept UnattendedServes
