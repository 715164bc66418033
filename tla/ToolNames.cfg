SPECIFICATION Spec
CONSTANTS
  ToolDefinitions <- FiveTools
  Raw <- Joined
  Safe <- Sanitised
  Strings = {"a", "n__a", "x", "y"}
  MaxTools = 4
INVARIANTS NamesAreUnique CallsMapBack ChoicesFindTheirTools ChoicesAreSent
