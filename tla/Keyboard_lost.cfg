\* Two keys, one in the middle of the read of the other.
CONSTANTS
  Size = 2
  Letters = {"a"}
  Others = {}
  Modifiers = {}
  MaxTyped = 2
SPECIFICATION Spec
PROPERTIES EveryKeyRead
