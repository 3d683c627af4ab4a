SPECIFICATION FairSpec
CONSTANTS
  QueueCapacity = 1
  MaxFaults = 1
  Buttons = {"bcm_intrusion", "panel_block", "panel_cancel", "panel_auth", "time_tick"}
INVARIANTS
  TypeOK
  ListenersAgree
  DashboardShowsCore
PROPERTIES
  DeafForGood
  EcuConverges
