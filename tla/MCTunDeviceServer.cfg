CONSTANTS
  srv = srv
  a = a
  b = b
  c = c
  Addresses <- AllAddresses
  ExcludeIPs <- Server
  ServerIP = srv
  Routes <- Pushed
  UserTables <- Tables
SPECIFICATION Spec
INVARIANT ExclusionsKept
