CONSTANTS
  command = command
  list = list
  settings = settings
  edit = edit
  update = update
  delete = delete
  None = None
  Pages <- MCPages
  Forms = {settings, edit}
  Values = {0, 1}
  PageOf <- MCPageOf
  Actions <- MCActions
  ActionOf <- MCActionOf
  Buttons <- MCButtons
  Saving = {update}
  Leads <- MCLeads
  AlertsOnly = {settings}
  Mobile = TRUE
  MaxEntries = 2
SPECIFICATION Spec
INVARIANTS TypeOK ChangesTracked PopupTells AddressMatches
PROPERTY SavesThemAll
