SPECIFICATION SdkModelsSpec
CONSTANTS
  Targets = {t1, t2}
  Agents = {css}
  Pollers = {coverage}
  MaxCalls = 3
  Clients = {script, sheet}
  MaxData = 2
CHECK_DEADLOCK FALSE
INVARIANTS ModelsFollow MapsAreInverse DisabledHidesMaps EventsAlternate
PROPERTIES CallsSettle AnnouncedIsConcluded
