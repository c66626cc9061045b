CONSTANTS
  Host = h
  User = {h, u, v}
  Tag = {t1, t2}
  Other = {o1}
  Image = {i1, i2}
  Need = {n1, n2}
  Place = {p1, p2}
  None = None
  MaxTags = 1
  MaxAsked = 2
  MaxNeeds = 1
  MaxRoute = 3
  MaxTime = 4
  MaxEditTime = 5
  MaxInput = 5
  MaxEdits = 3
  MaxLost = 1
  MaxTrouble = 2
  Device = {d1, d2}
  Email = {e1, e2}
  Name = {n}
  Password = {w}
  MaxAttempts = 1
  Lifetime = 1
  Cooldown = 1
  MaxMinute = 2
  MaxIssued = 3
  MaxFills = 4
  MaxLosses = 1
SPECIFICATION Spec
SYMMETRY Symmetry
CHECK_DEADLOCK FALSE
INVARIANTS
  OneResultPerForm
  WhatIsSavedIsOnTheForm
  PlaceIsThePickedOne
PROPERTIES
  NoFieldIsReverted
  SaveKeepsItsWord
  RetryIsHarmless
