CONSTANTS
  Users = {u1, u2}
  NoUser = NoUser
  Types = {"account-disabled", "account-enabled", "account-credential-change-required", "verification"}
  MaxEvents = 2
SPECIFICATION RiscSpec
INVARIANTS RiscTypeOK MitigatesWhatWasAsked OnlyVerified
CHECK_DEADLOCK FALSE
