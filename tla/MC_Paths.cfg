SPECIFICATION Spec
CONSTANTS
  Letters = {"a"}
  Roots <- MCRoots
  Names <- MCNames
  MaxDepth = 3
INVARIANT PluginPathIsNearest
INVARIANT FileIsInItsFolder
PROPERTY GoesUp
