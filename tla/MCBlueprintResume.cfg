SPECIFICATION Spec
CONSTANTS
  Roles <- MCRoles
  Blueprints <- MCBlueprints
  Absent = Absent
  Torn = Torn
  MaxConcurrency = 2
  MaxSessions = 2
PROPERTIES
  CompletedRolesRemembered
