SPECIFICATION AccessSpec
CONSTANTS
    Calls = {c}
    Start = Start
    Logout = Logout
    MaxTokens = 3
    Clients = {w1, w2}
    Emails = {e1, e2}
    google1 = google1
    google2 = google2
    kakao = kakao
    Socials = {google1, google2, kakao}
    Provider <- MCProvider
    Roles = {"OWNER", "STAFF"}
    None = None
    Workloads <- MCWorkloads
    MaxAccounts = 2
    MaxOrganizations = 1
    MaxMembers = 2
    MaxInvitations = 2
    MaxMails = 1
    MaxPassword = 2
CHECK_DEADLOCK FALSE
INVARIANTS
    NobodyForgotten
    StaysSignedIn
    NobodyLockedOut
    SessionsFollowPassword
    OnceOnly
    OneOpenInvitation
PROPERTIES
    SignOutStands
    EveryCallSettles
    InvitedOnly
