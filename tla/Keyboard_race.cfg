\* Interrupts at every point of a read, a ring that fills and is lapped, and
\* modifiers that change in between.
CONSTANTS
  Size = 2
  Letters = {"c"}
  Others = {}
  Modifiers = {"lshift", "rshift", "ctrl", "alt", "caps"}
  MaxTyped = 3
SPECIFICATION Spec
INVARIANTS NeverAhead InOrder NoStuckModifier
PROPERTIES ReaderWakes
