\* Two of everything, and two requests at a time; the instances in MCSurfaces name the
\* bounds of each part.  A part may rest when its bounds are reached.
CONSTANTS
  Names = {n1, n2}
  Ids = {i1, i2}
  None = None
  Bound <- Few
SPECIFICATION Spec
CHECK_DEADLOCK FALSE
INVARIANTS
  TypeOK
  SessionIsOne
  PagesShowTheirBrand
  PagesShowTheNewest
  PagesAskOnce
  WhatCostsIsCounted
PROPERTIES
  TextsGoWhereTyped
  PeopleDecide
  HarvestKeepsItsLimits
SYMMETRY Symmetry
