SPECIFICATION Spec
CONSTANTS
  MaxAge = 0
  MaxFuture = 1
  MaxNonces = 2
  Limit = 2
  Window = 1
  Workers = {w1, w2}
  Mixes = {{"register", "resend_verification", "verify_email"}, {"forgot_password", "reset_password", "login", "patch_user"}, {"login", "logout", "change_password", "patch_user"}, {"register", "verify_email", "google", "link_google", "patch_user"}}
  SignedKinds = {"login"}
  Passwords = {p1}
  NoPassword = none
  LinkLife = 1
  Cooldown = 1
  Hour = 1
  HourlyLimit = 2
  SessionLife = 1
  MaxRequests = 4
  MaxNow = 1
CHECK_DEADLOCK FALSE
INVARIANTS AssertionIsAdmittedOnce LimitsHold
PROPERTIES OnlyAnOpenLinkIsHonoured GoogleSignInOutlivesARace EveryRequestIsAnswered
