SPECIFICATION MCSpec
CONSTANTS
  Backdate = 2
  MaxEntries = 3
  MaxDamaged = 2
  MaxClock = 4
  RoleChoices <- MCRoleChoices
  ForeignDocs <- MCForeignDocs
  Damages <- MCDamages
  LogUrls <- MCLogUrls
  NoUrl = NoUrl
CHECK_DEADLOCK FALSE
INVARIANTS
  WrittenLogsVerify
  DamageIsNoticed
  ResolvedKeyIsWritten
  ReadIsStable
  VersionTimesInPast
  ViewsAgree
  LogUrlLeadsBack
  IdentifiersAgree
