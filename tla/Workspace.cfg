SPECIFICATION Spec
CONSTANTS
  ada = ada
  bob = bob
  Actor = {ada, bob}
  Isolate = {"i1"}
  Email <- MCEmail
  AppName = {"app"}
  Path = {"app.js"}
  Content = {"1"}
  Version = {1}
  MaxRequests = 2
  Budget = 5
  MaxHand = 1
SYMMETRY Actors
CHECK_DEADLOCK FALSE
INVARIANTS
  AppsAreWhole
  NothingTwice

  
  
