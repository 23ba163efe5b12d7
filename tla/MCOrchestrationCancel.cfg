SPECIFICATION Spec
CONSTANTS
  Subtasks <- MCSubtasks
  Drafts <- MCDrafts
  Configs <- MCConfigsAndDry
PROPERTIES
  CancelStopsBatch
