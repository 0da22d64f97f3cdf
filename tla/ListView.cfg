SPECIFICATION Spec
CONSTANTS
  Engines = {e1, e2}
  UI = ui
  Free = free
  MaxChanges = 2
  MaxFilters = 1
INVARIANTS NoDeadlock ListShowsVault
PROPERTY ChangeIsShown
